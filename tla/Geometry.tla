------------------------------ MODULE Geometry ------------------------------
(* The geometry of a finished layout, as the routes, the rules and the audit *)
(* share it (pkg/layout/routes.go, ports.go; pkg/dsltorules/rules.go;        *)
(* pkg/layoutcheck).  A drawing is a record                                  *)
(*   nodes : sequence of [id, type, label, alias, x, y, w, h, len, shell]    *)
(*   edges : sequence of [from, to, base, vis, deferred, route, fromPort,    *)
(*                        toPort]                                            *)
(*   bounds : the size of the canvas                                         *)
(* len is the length of the label, shell whether the node holds others; the  *)
(* style of an edge is its base (pkg/layout7/generate.go:233-234);           *)
(* a route is None or [source, target, bends, sourceStub, targetStub], a     *)
(* port [side, pos] with pos in hundredths of the side.  Points are pairs.   *)
(* The code's quotients are floats; here they are compared as fractions.     *)
EXTENDS Integers, Sequences, FiniteSets

None == <<>>
Has(option) == option # None

Index(seq) == DOMAIN seq
Members(seq) == {seq[i] : i \in Index(seq)}
Abs(i) == IF i < 0 THEN -i ELSE i
Lesser(i, j) == IF i < j THEN i ELSE j
Greater(i, j) == IF i < j THEN j ELSE i
-----------------------------------------------------------------------------
CutsBoxCrossed(s, lo, hi) ==
  \E k \in {1, 2} : Lesser(s[1][k], s[2][k]) < hi[k] /\ lo[k] < Greater(s[1][k], s[2][k])
                     /\ lo[3 - k] <= s[1][3 - k] /\ s[1][3 - k] <= hi[3 - k]

(* Liang-Barsky: the segment s meets the box lo..hi in more than one point.  *)
(* Each side of the box clips the parameter from below (it is entered) or    *)
(* from above (it is left); a segment along an axis only has to be between   *)
(* the two sides.                                                            *)
CutsBox(s, lo, hi) ==
  LET p == s[1]
      d == <<s[2][1] - p[1], s[2][2] - p[2]>>
      clips == UNION {{<<-d[k], p[k] - lo[k]>>, <<d[k], hi[k] - p[k]>>} : k \in {1, 2}}
      entered == {<<-c[2], -c[1]>> : c \in {b \in clips : b[1] < 0}} \cup {<<0, 1>>}
      left == {<<c[2], c[1]>> : c \in {b \in clips : b[1] > 0}} \cup {<<1, 1>>}
  IN  /\ lo[1] < hi[1] /\ lo[2] < hi[2]
      /\ \A c \in clips : c[1] = 0 => c[2] >= 0
      /\ \A a \in entered, b \in left : a[1] * b[2] < b[1] * a[2]

(* segmentIntersectsBoxMargin: the box grown by m on each side.              *)
CutsGrown(s, n, m) ==
  CutsBox(s, <<n.x - m, n.y - m>>, <<n.x + n.w + m, n.y + n.h + m>>)

(* segmentCutsBox: the routes shrink an obstacle by routeShrink.             *)
CutsObstacle(s, n) == CutsGrown(s, n, -2)

Orient(a, b, c) == (b[1] - a[1]) * (c[2] - a[2]) - (b[2] - a[2]) * (c[1] - a[1])

(* Two segments cross at an inner point of both.                             *)
ProperlyCross(s, t) ==
  LET Apart(u, v) == LET i == Orient(u[1], u[2], v[1])
                         j == Orient(u[1], u[2], v[2])
                     IN  i # 0 /\ j # 0 /\ ((i > 0) # (j > 0))
  IN  Apart(s, t) /\ Apart(t, s)

(* The segments that only meet in a common end point.                        *)
MeetAtAnEnd(s, t) == \E i, j \in {1, 2} : s[i] = t[j]

(* segmentsCross of the routes: a shared end is no crossing.                 *)
RoutesCross(s, t) == ~ MeetAtAnEnd(s, t) /\ ProperlyCross(s, t)

Overlap(a, b) == /\ a.x < b.x + b.w /\ b.x < a.x + a.w
                 /\ a.y < b.y + b.h /\ b.y < a.y + a.h
-----------------------------------------------------------------------------
NodeIds(g) == {n.id : n \in Members(g.nodes)}
NodeOf(g, id) == CHOOSE n \in Members(g.nodes) : n.id = id

(* Consecutive points of a polyline.                                         *)
Legs(points) == [i \in 1 .. Greater(0, Len(points) - 1) |-> <<points[i], points[i + 1]>>]

Centre == [side |-> "center", pos |-> 50]

(* RoutesOf: the emitted route, else the pins, else the centres.             *)
RouteOf(e) ==
  IF Has(e.route) THEN [source |-> e.route.source, target |-> e.route.target,
                        bends |-> e.route.bends]
  ELSE [source |-> IF Has(e.fromPort) THEN e.fromPort ELSE Centre,
        target |-> IF Has(e.toPort) THEN e.toPort ELSE Centre,
        bends |-> <<>>]

(* EdgePortPoint.                                                            *)
PortPoint(n, port) ==
  LET pos == IF port.pos <= 0 \/ port.pos >= 100 THEN 50 ELSE port.pos
      alongX == n.x + (n.w * pos) \div 100
      alongY == n.y + (n.h * pos) \div 100
  IN  CASE port.side = "left"   -> <<n.x, alongY>>
        [] port.side = "right"  -> <<n.x + n.w, alongY>>
        [] port.side = "top"    -> <<alongX, n.y>>
        [] port.side = "bottom" -> <<alongX, n.y + n.h>>
        [] OTHER                -> <<n.x + n.w \div 2, n.y + n.h \div 2>>

(* The drawn polyline of an edge both of whose ends are nodes of g.          *)
Drawn(from, to, r) == <<PortPoint(from, r.source)>> \o r.bends \o <<PortPoint(to, r.target)>>
PathOf(g, e) == Drawn(NodeOf(g, e.from), NodeOf(g, e.to), RouteOf(e))

Drawable(g, e) == {e.from, e.to} \subseteq NodeIds(g)

(* pickPortSide: the side of n that faces o.                                 *)
PickPortSide(n, o) ==
  LET columns == n.x < o.x + o.w /\ o.x < n.x + n.w
      hGap == Greater(o.x - (n.x + n.w), n.x - (o.x + o.w))
      vGap == Greater(o.y - (n.y + n.h), n.y - (o.y + o.h))
      upright == columns \/ (hGap >= 0 /\ vGap > 2 * hGap)
      below == o.y + o.h \div 2 >= n.y + n.h \div 2
      rightOf == o.x + o.w \div 2 >= n.x + n.w \div 2
  IN  IF upright THEN IF below THEN "bottom" ELSE "top"
                 ELSE IF rightOf THEN "right" ELSE "left"

EndpointSide(n, o, port) == IF port.side = "center" THEN PickPortSide(n, o) ELSE port.side

(* ApplyPortPins: a pin set after the route was made is written into it.     *)
ApplyPortPins(g) ==
  LET Pinned(e) ==
        LET r == RouteOf(e)
            base == IF Has(e.route) THEN e.route
                    ELSE [source |-> r.source, target |-> r.target, bends |-> <<>>,
                          sourceStub |-> <<>>, targetStub |-> <<>>]
        IN  IF ~ Has(e.fromPort) /\ ~ Has(e.toPort) THEN e
            ELSE [e EXCEPT !.route =
                    [base EXCEPT !.source = IF Has(e.fromPort) THEN e.fromPort ELSE @,
                                 !.target = IF Has(e.toPort) THEN e.toPort ELSE @]]
  IN  [g EXCEPT !.edges = [i \in Index(@) |-> Pinned(@[i])]]
=============================================================================
