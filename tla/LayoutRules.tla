----------------------------- MODULE LayoutRules -----------------------------
(* What the rules of the layout corpora mean (pkg/layouttest/types.go,       *)
(* convert.go, selector.go; pkg/dsltorules/rules.go, compound_selector.go,   *)
(* pattern_matcher.go, pattern_rule.go).  A rule is a record with a kind and *)
(* its operands, a view is the layout as rules address it: by name, with     *)
(* every edge as the points it is drawn through.                             *)
EXTENDS Geometry, SequencesExt, TLC
-----------------------------------------------------------------------------
(* FromLayoutGraph: the name of a node is its alias, else its label, else    *)
(* its id.  Two nodes may share a name; lookups find the first.              *)
NameOf(n) == IF n.alias # "" THEN n.alias ELSE IF n.label # "" THEN n.label ELSE n.id

View(g) ==
  LET Resolve(id) == IF id \in NodeIds(g) THEN NameOf(NodeOf(g, id)) ELSE id
      Shown(e) ==
        LET r == RouteOf(e)
            from == NodeOf(g, e.from)
            to == NodeOf(g, e.to)
            drawn == Drawable(g, e)
        IN  [from |-> Resolve(e.from), to |-> Resolve(e.to), style |-> e.base,
             vis |-> e.vis,
             points |-> IF drawn THEN PathOf(g, e) ELSE <<>>,
             sides |-> IF drawn THEN <<EndpointSide(from, to, r.source),
                                       EndpointSide(to, from, r.target)>>
                       ELSE <<"", "">>,
             at |-> IF drawn THEN <<r.source.pos, r.target.pos>> ELSE <<0, 0>>]
  IN  [nodes |-> [i \in Index(g.nodes) |->
                    LET n == g.nodes[i]
                    IN  [id |-> NameOf(n), type |-> n.type, text |-> n.label,
                         len |-> n.len, x |-> n.x, y |-> n.y, w |-> n.w, h |-> n.h]],
       edges |-> [i \in Index(g.edges) |-> Shown(g.edges[i])]]

FirstOf(seq) == IF seq = <<>> THEN <<>> ELSE <<seq[1]>>
GetNode(v, id) == FirstOf(SelectSeq(v.nodes, LAMBDA n : n.id = id))
GetEdge(v, from, to) == FirstOf(SelectSeq(v.edges, LAMBDA e : e.from = from /\ e.to = to))
OfType(v, type) == SelectSeq(v.nodes, LAMBDA n : n.type = type)

CenterX(n) == n.x + n.w \div 2
CenterY(n) == n.y + n.h \div 2

(* GetProperty; the colour is never known, an unknown property is empty.     *)
Property(n, name) ==
  CASE name = "type" -> n.type
    [] name = "id" -> n.id
    [] name = "text" -> n.text
    [] name = "width" -> ToString(n.w)
    [] name = "height" -> ToString(n.h)
    [] name = "x" -> ToString(n.x)
    [] name = "y" -> ToString(n.y)
    [] name = "center-x" -> ToString(CenterX(n))
    [] name = "center-y" -> ToString(CenterY(n))
    [] OTHER -> ""
-----------------------------------------------------------------------------
(* Selectors.                                                                *)
Compare(op, i, j) ==
  \/ op = ">"  /\ i > j
  \/ op = ">=" /\ i >= j
  \/ op = "<"  /\ i < j
  \/ op = "<=" /\ i <= j
  \/ op = "="  /\ i = j

Select(s, v) ==
  CASE s.sel = "type"     -> OfType(v, s.type)
    [] s.sel = "first"    -> FirstOf(OfType(v, s.type))
    [] s.sel = "compound" -> SelectSeq(OfType(v, s.type), LAMBDA n : Compare(s.op, n.len, s.len))
    [] s.sel = "id"       -> GetNode(v, s.id)
    [] s.sel = "multi"    -> FlattenSeq([i \in Index(s.ids) |-> GetNode(v, s.ids[i])])
    [] s.sel = "all"      -> v.nodes

(* strictSelect: a list with a missing id fails, and so does every selector  *)
(* but a plain type that finds nothing.                                      *)
Selects(s, v) ==
  /\ s.sel = "multi" => \A i \in Index(s.ids) : GetNode(v, s.ids[i]) # <<>>
  /\ s.sel # "type" => Select(s, v) # <<>>

(* selectorKey: a text condition does not show in the key.                   *)
SelectorKey(s) ==
  CASE s.sel \in {"type", "compound"} -> <<"type", s.type>>
    [] s.sel = "first" -> <<"first", s.type>>
    [] s.sel = "id"    -> <<"id", s.id>>
    [] s.sel = "multi" -> <<"multi", s.ids>>
    [] s.sel = "all"   -> <<"unknown">>

(* selectorSpecificity.                                                      *)
SelectorRank(s) ==
  CASE s.sel \in {"id", "multi"} -> 100
    [] s.sel = "compound" -> 11
    [] s.sel \in {"type", "first"} -> 1
    [] s.sel = "all" -> 0
-----------------------------------------------------------------------------
(* Rules about the selected nodes.                                           *)

(* calculateGapIfClose and the comparison of MinGapRule: -1 is an overlap,   *)
(* nodes five gaps away or more are not looked at.                           *)
KeepsGap(a, b, min) ==
  LET Apart(lo, len, lo2, len2) == IF lo + len <= lo2 THEN lo2 - (lo + len)
                                   ELSE IF lo2 + len2 <= lo THEN lo - (lo2 + len2) ELSE -1
      hGap == Apart(a.x, a.w, b.x, b.w)
      vGap == Apart(a.y, a.h, b.y, b.h)
      gap == IF hGap >= 0 /\ vGap >= 0 THEN Lesser(hGap, vGap) ELSE Greater(hGap, vGap)
  IN  IF Overlap(a, b) THEN -1 >= min
      ELSE hGap >= 5 * min \/ vGap >= 5 * min \/ gap >= min

(* PositionalRule and the positional constraint of a pattern.                *)
StandsAt(n, direction, t, gap) ==
  CASE direction = "below"    -> n.y = t.y + t.h + gap
    [] direction = "above"    -> n.y + n.h = t.y - gap
    [] direction = "right-of" -> n.x = t.x + t.w + gap
    [] direction = "left-of"  -> n.x + n.w = t.x - gap

Position(n, prop) ==
  CASE prop = "x" -> n.x [] prop = "y" -> n.y
    [] prop = "center-x" -> CenterX(n) [] prop = "center-y" -> CenterY(n)

(* The lower bounds on one node.                                             *)
LargeEnough(r, v, n) ==
  CASE r.kind = "min-height" -> n.h >= r.min
    [] r.kind = "min-width"  -> n.w >= r.min
    [] r.kind = "min-at"     -> Position(n, r.prop) >= r.min
    [] r.kind = "min-gap"    -> \A m \in Members(v.nodes) : n.id # m.id => KeepsGap(n, m, r.min)

(* CenteredBetweenRule and HCenteredBetweenRule: halfway, within ten pixels. *)
Midway(r, v, sel, prop) ==
  LET a == GetNode(v, r.a)
      b == GetNode(v, r.b)
  IN  /\ a # <<>> /\ b # <<>>
      /\ \A i \in Index(sel) : Abs(Position(sel[i], prop) - (Position(a[1], prop) + Position(b[1], prop)) \div 2) <= 10

StandsBy(r, v, sel) ==
  LET t == GetNode(v, r.target)
  IN  t # <<>> /\ \A i \in Index(sel) : StandsAt(sel[i], r.direction, t[1], r.gap)

NodeRuleHolds(r, v) ==
  LET sel == Select(r.sel, v)
      All(P(_)) == \A i \in Index(sel) : P(sel[i])
  IN  /\ Selects(r.sel, v)
      /\ CASE r.kind = "property"  -> All(LAMBDA n : Property(n, r.prop) = r.want)
           [] r.kind = "size"      -> All(LAMBDA n : n.w = r.w /\ n.h = r.h)
           [] r.kind = "same"      -> All(LAMBDA n : Property(n, r.prop) = Property(sel[1], r.prop))
           [] r.kind = "at"        -> StandsBy(r, v, sel)
           [] r.kind = "v-between" -> Midway(r, v, sel, "center-y")
           [] r.kind = "h-between" -> Midway(r, v, sel, "center-x")
           [] OTHER                -> All(LAMBDA n : LargeEnough(r, v, n))

(* ImplicitBoundariesRule looks at the whole graph, not at its selector.     *)
BoundariesHold(r, v) ==
  OfType(v, "event") # <<>> => \A i \in Index(r.names) : GetNode(v, r.names[i]) # <<>>
-----------------------------------------------------------------------------
(* Rules about one routed edge.                                              *)
Bends(e) == Greater(0, Len(e.points) - 2)

Run(leg, k) == Abs(leg[1][k] - leg[2][k])

(* EdgeMinSlopeRule: the first and the last leg, the slope in hundredths.    *)
SteepEnough(leg, slope) == Run(leg, 1) = 0 \/ Run(leg, 2) * 100 >= slope * Run(leg, 1)

(* EdgeMinCornerAngleRule: the angle is below the least one when its cosine  *)
(* is above; compared as signed squares, for the angles in the table.        *)
CosSquare == (45 :> <<1, 2>>) @@ (60 :> <<1, 4>>) @@ (90 :> <<0, 1>>)
               @@ (120 :> <<-1, 4>>) @@ (135 :> <<-1, 2>>) @@ (180 :> <<-1, 1>>)

CornersOpen(points, cos) ==
  \A k \in 2 .. Len(points) - 1 :
    LET a == <<points[k - 1][1] - points[k][1], points[k - 1][2] - points[k][2]>>
        b == <<points[k + 1][1] - points[k][1], points[k + 1][2] - points[k][2]>>
        dot == a[1] * b[1] + a[2] * b[2]
        la == a[1] * a[1] + a[2] * a[2]
        lb == b[1] * b[1] + b[2] * b[2]
    IN  la = 0 \/ lb = 0 \/ dot * Abs(dot) * cos[2] <= cos[1] * la * lb

(* EdgeMaxLenRule: the legs along an axis are added, and at most one leg of  *)
(* a route is oblique.                                                       *)
LongerThan(points, max) ==
  LET legs == Legs(points)
      oblique == {i \in Index(legs) : Run(legs[i], 1) # 0 /\ Run(legs[i], 2) # 0}
      level == FoldSeq(LAMBDA leg, sum : IF Run(leg, 1) # 0 /\ Run(leg, 2) # 0 THEN sum
                                         ELSE sum + Run(leg, 1) + Run(leg, 2), 0, legs)
  IN  \/ level > max
      \/ \E i \in oblique : Run(legs[i], 1) * Run(legs[i], 1) + Run(legs[i], 2) * Run(legs[i], 2)
                              > (max - level) * (max - level)

Straddles(points, n, margin) ==
  LET legs == Legs(points)
  IN  \E i \in Index(legs) : CutsGrown(legs[i], n, margin)

Crosses(points, others) ==
  \E s \in Members(Legs(points)), t \in Members(Legs(others)) : ProperlyCross(s, t)

(* What a rule says of the ends of an edge, and of the run of its path.      *)
EndHolds(r, e) ==
  LET end == IF r.end = "source" THEN 1 ELSE 2
  IN  IF r.kind = "side" THEN e.sides[end] = r.want ELSE e.at[end] = r.want

StraightAlong(points, axis) ==
  \A leg \in Members(Legs(points)) : Run(leg, IF axis = "horizontal" THEN 2 ELSE 1) <= 1

(* The rules about an edge and another one, or a node that is not its own.   *)
ClearOf(r, v, e) ==
  LET other == GetEdge(v, r.from2, r.to2)
      node == GetNode(v, r.node)
      both == other # <<>> /\ Len(other[1].points) >= 2
  IN  CASE r.kind = "no-cross"    -> both /\ ~ Crosses(e.points, other[1].points)
        [] r.kind = "enter-below" -> /\ both /\ r.to = r.to2
                                     /\ Last(e.points)[2] > Last(other[1].points)[2]
        [] r.kind = "no-straddle" -> node # <<>> /\ ~ Straddles(e.points, node[1], -2)
        [] r.kind = "edge-gap"    -> node # <<>> /\ ~ Straddles(e.points, node[1], r.gap)

EdgeRuleHolds(r, v) ==
  LET found == GetEdge(v, r.from, r.to)
      e == found[1]
      legs == Legs(e.points)
      routed == Len(e.points) >= 2
  IN  /\ found # <<>>
      /\ CASE r.kind = "edge-type"  -> e.style = r.want
           [] r.kind \in {"side", "at-fraction"} -> EndHolds(r, e)
           [] r.kind = "visibility" -> (IF e.vis = "" THEN "visible" ELSE e.vis) = r.want
           [] r.kind = "max-bends"  -> Bends(e) <= r.max
           [] r.kind = "min-corner" -> CornersOpen(e.points, CosSquare[r.angle])
           [] r.kind = "min-slope"  -> /\ routed
                                       /\ SteepEnough(legs[1], r.slope)
                                       /\ SteepEnough(legs[Len(legs)], r.slope)
           [] r.kind = "max-len"    -> routed /\ ~ LongerThan(e.points, r.max)
           [] r.kind = "straight"   -> routed /\ StraightAlong(e.points, r.axis)
           [] OTHER                 -> routed /\ ClearOf(r, v, e)

(* NoEdgeRule.                                                               *)
NoEdge(r, v) == GetEdge(v, r.from, r.to) = <<>>

(* EachEdgeMaxBendsRule: the exempt edge of a pair is the first one.         *)
EachEdgeHolds(r, v) ==
  \A i \in Index(v.edges) :
    LET e == v.edges[i]
        exempt == /\ \E k \in Index(r.except) : r.except[k] = <<e.from, e.to>>
                  /\ \A j \in 1 .. i - 1 : <<v.edges[j].from, v.edges[j].to>> # <<e.from, e.to>>
    IN  e.vis = "stubbed" \/ exempt \/ Bends(e) <= r.max
-----------------------------------------------------------------------------
(* Patterns: edges is the chain of [from, to, type] between variables, vars  *)
(* a function from variables to selectors (None: any node).  A match is a    *)
(* function from the variables bound so far to nodes.                        *)
Admits(pattern, var, n, v) ==
  LET s == pattern.vars[var]
  IN  s = None \/ \E i \in Index(Select(s, v)) : Select(s, v)[i].id = n.id

(* The layout's edges of a type, with the nodes their names find first.      *)
Candidates(v, type) ==
  {<<GetNode(v, e.from)[1], GetNode(v, e.to)[1]>> :
     e \in {d \in Members(v.edges) : /\ d.style = type
                                     /\ GetNode(v, d.from) # <<>> /\ GetNode(v, d.to) # <<>>}}

(* findSimpleEdgeMatches and the first step of findMultiHopMatches: the two  *)
(* variables are bound from one edge; where they are the same variable the   *)
(* target's binding is the one that stays.                                   *)
FirstMatches(pattern, v) ==
  LET e == pattern.edges[1]
  IN  {(e.to :> c[2]) @@ (e.from :> c[1]) :
         c \in {d \in Candidates(v, e.type) : /\ Admits(pattern, e.from, d[1], v)
                                              /\ Admits(pattern, e.to, d[2], v)}}

(* extendMatch: an edge out of the node its source is bound to; a bound      *)
(* target must be the same node.                                             *)
ExtendMatch(pattern, v, match, k) ==
  LET e == pattern.edges[k]
  IN  IF e.from \notin DOMAIN match THEN {}
      ELSE {(e.to :> c[2]) @@ match :
              c \in {d \in Candidates(v, e.type) :
                       /\ d[1].id = match[e.from].id
                       /\ Admits(pattern, e.to, d[2], v)
                       /\ e.to \in DOMAIN match => match[e.to].id = d[2].id}}

FindPatternMatches(pattern, v) ==
  FoldLeft(LAMBDA matches, k : UNION {ExtendMatch(pattern, v, m, k) : m \in matches},
           FirstMatches(pattern, v), [i \in 1 .. Len(pattern.edges) - 1 |-> i + 1])

(* validateConstraint.                                                       *)
PatternHolds(r, v) ==
  LET c == r.constraint
  IN  \A m \in FindPatternMatches(r.pattern, v) :
        CASE c.kind = "at"       -> StandsAt(m[c.var], c.direction, m[c.target], c.gap)
          [] c.kind = "same"     -> \A i \in Index(c.names) :
                                      Property(m[c.names[i]], c.prop)
                                        = Property(m[c.names[1]], c.prop)
          [] c.kind = "property" -> Property(m[c.var], c.prop) = c.want
-----------------------------------------------------------------------------
SelectorKinds == {"property", "size", "same", "min-height", "min-width", "min-at",
                  "min-gap", "at", "v-between", "h-between"}

Holds(r, v) ==
  CASE r.kind \in SelectorKinds -> NodeRuleHolds(r, v)
    [] r.kind = "boundaries"    -> BoundariesHold(r, v)
    [] r.kind = "each-edge"     -> EachEdgeHolds(r, v)
    [] r.kind = "no-edge"       -> NoEdge(r, v)
    [] r.kind = "pattern"       -> PatternHolds(r, v)
    [] OTHER                    -> EdgeRuleHolds(r, v)

(* CompactionKey: of two rules with one key only one is applied.             *)
CompactionKey(r, line) ==
  LET Of(what) == <<"nodes", SelectorKey(r.sel), what>>
  IN  CASE r.kind \in {"property", "min-at"} -> Of(r.prop)
        [] r.kind = "size"       -> Of("size")
        [] r.kind = "min-height" -> Of("height")
        [] r.kind = "min-width"  -> Of("width")
        [] r.kind = "min-gap"    -> Of("mingap")
        [] r.kind = "v-between"  -> Of("centered-between")
        [] r.kind = "h-between"  -> <<"hcenterbetween", r.sel, r.a, r.b>>
        [] r.kind = "each-edge"  -> <<"each-edge">>
        [] r.kind = "no-edge"    -> <<"noedge", r.from, r.to>>
        [] r.kind \in {"same", "boundaries", "at", "pattern"} -> <<r.kind, ToString(line)>>
        [] r.kind \in {"side", "at-fraction"} -> <<"edge", r.from, r.to, r.kind, r.end>>
        [] r.kind = "visibility" -> <<"edge", r.from, r.to, r.kind, r.want>>
        [] r.kind \in {"no-cross", "enter-below"} ->
             <<"edge", r.from, r.to, r.kind, r.from2, r.to2>>
        [] r.kind = "no-straddle" -> <<"node", r.node, "nostraddle", r.from, r.to>>
        [] r.kind = "edge-gap"   -> <<"node", r.node, ToString(r.gap), r.from, r.to>>
        [] OTHER                 -> <<"edge", r.from, r.to, r.kind>>

(* Specificity.                                                              *)
Specificity(r) ==
  CASE r.kind \in {"same", "boundaries", "at"} -> 1000
    [] r.kind \in SelectorKinds \ {"same", "at"} -> SelectorRank(r.sel)
    [] r.kind = "pattern"   -> 50
    [] r.kind = "each-edge" -> 1
    [] OTHER                -> 100
=============================================================================
