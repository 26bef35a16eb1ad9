----------------------------- MODULE LayoutCheck -----------------------------
(* The universal invariants of a drawing and their ratchet                   *)
(* (pkg/layoutcheck).  A finding is a tuple: its kind, then the positions of *)
(* the nodes, edges and legs it is about.                                    *)
EXTENDS Geometry, TLC

Hidden(e, legacy) == ~ legacy /\ e.vis = "stubbed"

Pairs(n) == {p \in (1 .. n) \X (1 .. n) : p[1] < p[2]}

NodeOverlaps(g) ==
  {<<"node overlap", p[1], p[2]>> :
     p \in {q \in Pairs(Len(g.nodes)) : Overlap(g.nodes[q[1]], g.nodes[q[2]])}}
-----------------------------------------------------------------------------
(* Two boxes next to each other at the rhythm of a band, with no edge        *)
(* between them and no partner in common.                                    *)
PairGap == 64

Partners(g, id) == UNION {{e.from, e.to} \ (IF e.from = e.to THEN {} ELSE {id}) :
                            e \in {d \in Members(g.edges) : id \in {d.from, d.to}}}

ReadAsPair(a, b) ==
  LET xOv == a.x < b.x + b.w /\ b.x < a.x + a.w
      yOv == a.y < b.y + b.h /\ b.y < a.y + a.h
      hGap == IF a.x > b.x THEN a.x - (b.x + b.w) ELSE b.x - (a.x + a.w)
      vGap == IF a.y > b.y THEN a.y - (b.y + b.h) ELSE b.y - (a.y + a.h)
  IN  \/ xOv /\ ~ yOv /\ vGap \in 0 .. PairGap
      \/ yOv /\ ~ xOv /\ hGap \in 0 .. PairGap

FalsePairs(g) ==
  {<<"reads as paired", p[1], p[2]>> :
     p \in {q \in Pairs(Len(g.nodes)) :
              LET a == g.nodes[q[1]]
                  b == g.nodes[q[2]]
              IN  /\ "boundary" \notin {a.type, b.type}
                  /\ b.id \notin Partners(g, a.id)
                  /\ Partners(g, a.id) \cap Partners(g, b.id) = {}
                  /\ ReadAsPair(a, b)}}
-----------------------------------------------------------------------------
(* realOrApproxBadgeBoxes: the chips the layout placed, else two badges at a *)
(* fixed reach from the ends.  Coordinates of a badge are truncated floats.  *)
Chip == 20
BadgeReach == 40
BadgeSize == 24

Box(cx, cy, size) == [x |-> cx - size \div 2, y |-> cy - size \div 2, w |-> size, h |-> size]

(* trunc(at + reach * d / |(dx, dy)|) for a point at of the canvas.          *)
Reached(at, d, square) ==
  LET floor == CHOOSE r \in 0 .. BadgeReach :
                 /\ r * r * square <= BadgeReach * BadgeReach * d * d
                 /\ (r + 1) * (r + 1) * square > BadgeReach * BadgeReach * d * d
      exact == floor * floor * square = BadgeReach * BadgeReach * d * d
  IN  IF d >= 0 THEN at + floor ELSE IF exact THEN at - floor ELSE at - floor - 1

BadgeBoxes(s, t) ==
  LET dx == t[1] - s[1]
      dy == t[2] - s[2]
      square == dx * dx + dy * dy
  IN  IF square = 0 THEN <<>>
      ELSE <<Box(Reached(s[1], dx, square), Reached(s[2], dy, square), BadgeSize),
             Box(Reached(t[1], -dx, square), Reached(t[2], -dy, square), BadgeSize)>>

Badges(g, e) ==
  LET path == PathOf(g, e)
  IN  IF Has(e.route) /\ Len(e.route.sourceStub) = 2 /\ Len(e.route.targetStub) = 2
      THEN <<Box(e.route.sourceStub[2][1], e.route.sourceStub[2][2], Chip),
             Box(e.route.targetStub[2][1], e.route.targetStub[2][2], Chip)>>
      ELSE BadgeBoxes(path[1], path[Len(path)])

DrawnLegs(g, i) == Legs(PathOf(g, g.edges[i]))
Strangers(g, e) == {k \in Index(g.nodes) : g.nodes[k].id \notin {e.from, e.to}}
DrawnLines(g, legacy) == {i \in Index(g.edges) : ~ Hidden(g.edges[i], legacy) /\ Drawable(g, g.edges[i])}
Stumps(g, legacy) == {i \in Index(g.edges) : Hidden(g.edges[i], legacy) /\ Drawable(g, g.edges[i])}

BadgeMargin == 2

OverBoxes(g, i, b, box) ==
  {<<"badge overlap", i, b, k>> : k \in {n \in Strangers(g, g.edges[i]) : Overlap(box, g.nodes[n])}}

OnLines(i, b, box, lines) ==
  {<<"badge on edge", i, b, j>> :
     j \in {l \in DOMAIN lines : \E s \in Members(lines[l]) : CutsGrown(s, box, BadgeMargin)}}

BadgesOf(g, i, boxes, lines) ==
  UNION {OverBoxes(g, i, b, boxes[b]) \cup OnLines(i, b, boxes[b], lines) : b \in Index(boxes)}

BadgeFindings(g, legacy) ==
  UNION {BadgesOf(g, i, Badges(g, g.edges[i]), [j \in DrawnLines(g, legacy) |-> DrawnLegs(g, j)])
         : i \in Stumps(g, legacy)}
-----------------------------------------------------------------------------
(* A line through, or within eight pixels of, a box it does not belong to.   *)
Touching == -2
Grazing == 8

LineFindings(g, legacy) ==
  LET Near(legs, k, m) == \E s \in Members(legs) : CutsGrown(s, g.nodes[k], m)
      Judge(i, legs) ==
        {<<IF Near(legs, k, Touching) THEN "edge through node" ELSE "edge grazes node", i, k>> :
           k \in {n \in Strangers(g, g.edges[i]) : Near(legs, n, Touching) \/ Near(legs, n, Grazing)}}
  IN  UNION {Judge(i, DrawnLegs(g, i)) : i \in DrawnLines(g, legacy)}

(* The legs of the drawn lines, in the order of the edges.                   *)
LegsOf(g, set) == UNION {{<<i, k>> : k \in Index(DrawnLegs(g, i))} : i \in set}
Before(a, b) == a[1] < b[1] \/ (a[1] = b[1] /\ a[2] < b[2])
LegAt(g, a) == DrawnLegs(g, a[1])[a[2]]

Crossings(g, legacy) ==
  LET legs == LegsOf(g, DrawnLines(g, legacy))
      Cross(s, t) == ~ MeetAtAnEnd(s, t) /\ ProperlyCross(s, t)
  IN  {<<"edges cross", p[1], p[2]>> :
         p \in {q \in legs \X legs : Before(q[1], q[2]) /\ Cross(LegAt(g, q[1]), LegAt(g, q[2]))}}

(* Two runs along one axis that lie on each other.                           *)
CoverGap == 8
CoverRun == 16

Along(s, k) == s[1][3 - k] = s[2][3 - k] /\ s[1][k] # s[2][k]
Shared(s, t, k) ==
  Lesser(Greater(s[1][k], s[2][k]), Greater(t[1][k], t[2][k]))
    - Greater(Lesser(s[1][k], s[2][k]), Lesser(t[1][k], t[2][k]))

Covers(g, legacy) ==
  LET legs == LegsOf(g, {i \in DrawnLines(g, legacy) : Has(g.edges[i].route)})
      Ends(a) == <<g.edges[a[1]].from, g.edges[a[1]].to>>
      Cover(s, t) == \E k \in {1, 2} : /\ Along(s, k) /\ Along(t, k)
                                       /\ Abs(s[1][3 - k] - t[1][3 - k]) < CoverGap
                                       /\ Shared(s, t, k) > CoverRun
  IN  {<<"edges overlap", p[1], p[2]>> :
         p \in {q \in legs \X legs : /\ Before(q[1], q[2]) /\ Ends(q[1]) # Ends(q[2])
                                     /\ Cover(LegAt(g, q[1]), LegAt(g, q[2]))}}

(* The tip of a stump and the first box that is not its own.                 *)
TipGap == 8

Touched(g, stub, own) ==
  IF Len(stub) < 2 THEN {}
  ELSE LET tip == stub[Len(stub)]
       IN  {k \in Index(g.nodes) :
              LET n == g.nodes[k]
              IN  /\ n.id # own
                  /\ n.x - TipGap < tip[1] /\ tip[1] < n.x + n.w + TipGap
                  /\ n.y - TipGap < tip[2] /\ tip[2] < n.y + n.h + TipGap}

StubsOnNodes(g, legacy) ==
  LET routed == {i \in Index(g.edges) : Hidden(g.edges[i], legacy) /\ Has(g.edges[i].route)}
      On(i, end) == LET e == g.edges[i]
                    IN  IF end = "source" THEN Touched(g, e.route.sourceStub, e.from)
                        ELSE Touched(g, e.route.targetStub, e.to)
  IN  {<<"stub on node", t[1], t[2], CHOOSE k \in On(t[1], t[2]) :
                                       \A j \in On(t[1], t[2]) : k <= j>> :
         t \in {u \in routed \X {"source", "target"} : On(u[1], u[2]) # {}}}

Findings(g, legacy) ==
  NodeOverlaps(g) \cup FalsePairs(g) \cup BadgeFindings(g, legacy)
    \cup LineFindings(g, legacy) \cup Crossings(g, legacy) \cup Covers(g, legacy)
    \cup StubsOnNodes(g, legacy)

(* The text of a finding: the labels of what it is about and, where a box is *)
(* named, where that box stands.                                             *)
LabelOf(g, id) == LET n == NodeOf(g, id) IN IF n.label # "" THEN n.label ELSE n.id

FindingText(g, f) ==
  LET Place(k) == LET n == g.nodes[k] IN <<n.label, n.x, n.y, n.w, n.h>>
      Ends(i) == <<NodeOf(g, g.edges[i].from).label, NodeOf(g, g.edges[i].to).label>>
      Names(i) == <<LabelOf(g, g.edges[i].from), LabelOf(g, g.edges[i].to)>>
      Base(i) == g.edges[i].base
      Axis(s) == IF Along(s, 1) THEN 1 ELSE 2
      Cover(s, t) == <<Abs(s[1][3 - Axis(s)] - t[1][3 - Axis(s)]), Shared(s, t, Axis(s))>>
  IN  CASE f[1] \in {"node overlap", "reads as paired"} -> <<f[1], Place(f[2]), Place(f[3])>>
        [] f[1] = "badge overlap" -> <<f[1], Ends(f[2]), Base(f[2]), Place(f[4])>>
        [] f[1] = "badge on edge" -> <<f[1], Ends(f[2]), Base(f[2]), Ends(f[4])>>
        [] f[1] \in {"edge through node", "edge grazes node"} ->
             <<f[1], Ends(f[2]), Base(f[2]), Place(f[3])>>
        [] f[1] = "edges cross"   -> <<f[1], Ends(f[2][1]), Ends(f[3][1])>>
        [] f[1] = "edges overlap" -> <<f[1], Names(f[2][1]), Names(f[3][1]),
                                       Cover(LegAt(g, f[2]), LegAt(g, f[3]))>>
        [] f[1] = "stub on node"  -> <<f[1], Names(f[2]), Base(f[2]), Place(f[4])>>
-----------------------------------------------------------------------------
(* The ratchet.                                                              *)
Categorize(findings) ==
  LET Of(kind) == Cardinality({f \in findings : f[1] = kind})
      overlaps == Of("node overlap")
      crossings == Of("edges cross")
      badges == Of("badge overlap")
  IN  <<overlaps, Cardinality(findings) - overlaps - crossings - badges, crossings, badges>>

Regressed(was, n) ==
  \E k \in 1 .. 4 : n[k] > was[k] /\ \A j \in 1 .. k - 1 : n[j] = was[j]
=============================================================================
