------------------------------- MODULE Canvas -------------------------------
(* A drawing between the engine and the screen: its consumer moves nodes and *)
(* pins ports (code outside this repository, as the comments of              *)
(* pkg/layout/routes.go, ports_order.go and detour.go describe it), and two  *)
(* passes put its edges right again: the order of the ports on a side        *)
(* (ports_order.go) and the way round the boxes (detour.go).  Positions on a *)
(* side are in hundredths.                                                   *)
EXTENDS Geometry, SequencesExt, TLC

CONSTANTS
  Seeds,      \* the drawings it starts from
  Places,     \* where the consumer may put a node
  Ports,      \* how a port may be pinned
  MaxSteps    \* bound: steps on one drawing

VARIABLES canvas, steps
canvasVars == <<canvas, steps>>

TypeOf(g, id) == NodeOf(g, id).type

(* isFlowEdge and isCorridorEdge: a leads-to whose ends are events, one of   *)
(* them perhaps a boundary.                                                  *)
IsFlowEdge(g, e) == e.base = "leadsto" /\ {TypeOf(g, e.from), TypeOf(g, e.to)} = {"event"}
IsCorridorEdge(g, e) ==
  IsFlowEdge(g, e) \/ (/\ e.base = "leadsto"
                       /\ {TypeOf(g, e.from), TypeOf(g, e.to)} \subseteq {"event", "boundary"}
                       /\ "boundary" \in {TypeOf(g, e.from), TypeOf(g, e.to)})
-----------------------------------------------------------------------------
(* An end of an edge: its edge, and 1 for the source or 2 for the target.    *)
EndNode(e, end) == IF end = 1 THEN e.from ELSE e.to
EndPort(e, end) == IF end = 1 THEN RouteOf(e).source ELSE RouteOf(e).target

Ordered(e) == e.from # e.to

(* alongAxis: where the other end stands along the side.                     *)
PartnerAlong(g, i, end) ==
  LET e == g.edges[i]
      path == PathOf(g, e)
      partner == IF end = 1 THEN path[Len(path)] ELSE path[1]
  IN  IF EndPort(e, end).side \in {"left", "right"} THEN partner[2] ELSE partner[1]

(* The groups: the ends on one side of one node.                             *)
SideEnds(g, id, side) ==
  {t \in Index(g.edges) \X {1, 2} :
     LET e == g.edges[t[1]]
     IN  Drawable(g, e) /\ Ordered(e) /\ EndNode(e, t[2]) = id /\ EndPort(e, t[2]).side = side}

PortSides == {"left", "right", "top", "bottom"}

(* The ends of a set in the order of their edges, or by partner.             *)
Declared(set) == SetToSortSeq(set, LAMBDA a, b : a[1] < b[1])
ByDeclaration(set, along) == Declared(set)

ByPartner(set, along) ==
  SetToSortSeq(set, LAMBDA a, b : along[a] < along[b] \/ (along[a] = along[b] /\ a[1] < b[1]))

Slot(g, t) == EndPort(g.edges[t[1]], t[2]).pos
Sorted(slots) == SortSeq(slots, <)
Below(slots, fp) == Cardinality({j \in Index(slots) : slots[j] < fp})

(* mirror: while too few (or too many) slots lie below the flow's, the last  *)
(* one above it (the first below) is thrown across, if that is a free place. *)
Mirrored(slots, fp, wantLess, down) ==
  LET Throw(s) ==
        LET js == {j \in Index(s.slots) : IF down THEN s.slots[j] > fp ELSE s.slots[j] < fp}
            j == CHOOSE k \in js : \A i \in js : IF down THEN i <= k ELSE k <= i
            q == 2 * fp - s.slots[j]
            needed == IF down THEN Below(s.slots, fp) < wantLess ELSE Below(s.slots, fp) > wantLess
        IN  IF ~ needed \/ js = {} THEN s
            ELSE IF q <= 0 \/ q >= 100 \/ q \in s.taken THEN s
            ELSE [slots |-> Sorted([s.slots EXCEPT ![j] = q]),
                  taken |-> (s.taken \ {s.slots[j]}) \cup {q}]
  IN  FoldLeft(LAMBDA s, k : Throw(s), [slots |-> slots, taken |-> Members(slots) \cup {fp}],
               slots).slots

(* No two ends on one slot: the second is nudged to a free place nearby.     *)
Nudges == <<15, 25, 35, 10, 20, 30, 40>>

Nudged(slots, flow) ==
  LET Place(s, j) ==
        LET p == s.slots[j]
            dir == IF (Has(flow) /\ p <= flow[1] /\ j <= Len(slots) \div 2)
                        \/ (~ Has(flow) /\ j % 2 = 1) THEN -1 ELSE 1
            tries == FlattenSeq([k \in Index(Nudges) |-> <<p + dir * Nudges[k], p - dir * Nudges[k]>>])
            free == SelectSeq(tries, LAMBDA q : q > 4 /\ q < 96 /\ q \notin s.taken)
        IN  IF p \notin s.taken THEN [s EXCEPT !.taken = @ \cup {p}]
            ELSE IF free = <<>> THEN s
            ELSE [slots |-> [s.slots EXCEPT ![j] = free[1]], taken |-> s.taken \cup {free[1]}]
  IN  Sorted(FoldLeft(Place, [slots |-> slots, taken |-> Members(flow)],
                      [j \in Index(slots) |-> j]).slots)

(* The slots of a group: a function from its ends to positions.  Ends of the *)
(* flow keep theirs, the others are handed out in the order of the partners. *)
HandedOut(order, slots) ==
  [t \in Members(order) |-> slots[CHOOSE k \in Index(order) : order[k] = t]]

AroundFlow(slots, fp, wantLess) ==
  Nudged(Mirrored(Mirrored(slots, fp, wantLess, TRUE), fp, wantLess, FALSE), <<fp>>)

Slots(g, flow, rest, along) ==
  LET were == Sorted([k \in 1 .. Cardinality(rest) |-> Slot(g, Declared(rest)[k])])
      first == Declared(flow)[1]
  IN  IF flow = {} THEN Nudged(were, None)
      ELSE AroundFlow(were, Slot(g, first),
                      Cardinality({t \in rest : along[t] < along[first]}))

GroupSlots(g, ends) ==
  LET flow == {t \in ends : IsCorridorEdge(g, g.edges[t[1]])}
      along == [t \in ends |-> PartnerAlong(g, t[1], t[2])]
      alone == flow = ends \/ (Cardinality(ends) < 2 /\ flow = {})
  IN  IF alone THEN [t \in {} |-> 0]
      ELSE HandedOut(ByPartner(ends \ flow, along), Slots(g, flow, ends \ flow, along))

(* OrderSharedPorts: the route of an edge is written where an end is dealt a *)
(* slot.                                                                     *)
Kept(e) == IF Has(e.route) THEN e.route
           ELSE RouteOf(e) @@ [sourceStub |-> <<>>, targetStub |-> <<>>]

Dealt(g, slots) ==
  LET At(t, was) == IF t \in DOMAIN slots THEN slots[t] ELSE was
      Slotted(i, e) ==
        IF {<<i, 1>>, <<i, 2>>} \cap DOMAIN slots = {} THEN e
        ELSE [e EXCEPT !.route = [Kept(e) EXCEPT !.source.pos = At(<<i, 1>>, @),
                                                 !.target.pos = At(<<i, 2>>, @)]]
  IN  [g EXCEPT !.edges = [i \in Index(@) |-> Slotted(i, @[i])]]

OrderSharedPorts(g) ==
  IF Len(g.edges) < 2 THEN g
  ELSE Dealt(g, FoldSet(LAMBDA ends, all : GroupSlots(g, ends) @@ all, [t \in {} |-> 0],
                        {SideEnds(g, id, side) : id \in NodeIds(g), side \in PortSides}))
-----------------------------------------------------------------------------
(* DetourBlockedEdges.                                                       *)
DetourClear == 20
DetourGraze == 8
LaneNear == 4
LaneShared == 20
DetourGridStep == 120
DetourGridPad == 240

(* The boxes an edge must not pass through: a shell is none.                 *)
Obstacles(g, e) == {n \in Members(g.nodes) : ~ n.shell /\ n.id \notin {e.from, e.to}}

PathCuts(points, boxes) == {n \in boxes : \E s \in Members(Legs(points)) : CutsObstacle(s, n)}
PathGrazes(points, boxes) ==
  Cardinality({n \in boxes : \E s \in Members(Legs(points)) : CutsGrown(s, n, DetourGraze - 2)})

PathsCross(a, b) == \E s \in Members(Legs(a)), t \in Members(Legs(b)) : RoutesCross(s, t)

ShareLane(a, b) ==
  \E s \in Members(Legs(a)), t \in Members(Legs(b)), k \in {1, 2} :
    LET Flat(u) == u[1][3 - k] = u[2][3 - k]
        lo == Greater(Lesser(s[1][k], s[2][k]), Lesser(t[1][k], t[2][k]))
        hi == Lesser(Greater(s[1][k], s[2][k]), Greater(t[1][k], t[2][k]))
    IN  Flat(s) /\ Flat(t) /\ Abs(s[1][3 - k] - t[1][3 - k]) <= LaneNear /\ hi - lo >= LaneShared

PathLength(points) ==
  FoldSeq(LAMBDA s, sum : sum + Abs(s[2][1] - s[1][1]) + Abs(s[2][2] - s[1][2]), 0, Legs(points))

(* The bends to try: the two corners of the ends, then round the box of all  *)
(* blockers and round each one, close and wide.                              *)
Around(p, q, box, pad) ==
  LET l == box[1] - pad
      t == box[2] - pad
      r == box[3] + pad
      b == box[4] + pad
  IN  <<<<<<l, t>>>>, <<<<r, t>>>>, <<<<l, b>>>>, <<<<r, b>>>>,
        <<<<l, p[2]>>, <<l, q[2]>>>>, <<<<r, p[2]>>, <<r, q[2]>>>>,
        <<<<p[1], t>>, <<q[1], t>>>>, <<<<p[1], b>>, <<q[1], b>>>>>>

Curated(g, p, q, blockers) ==
  LET each == SelectSeq(g.nodes, LAMBDA n : n \in blockers)
      Side(n) == <<n.x, n.y, n.x + n.w, n.y + n.h>>
      all == FoldLeft(LAMBDA box, n : <<Lesser(box[1], n.x), Lesser(box[2], n.y),
                                        Greater(box[3], n.x + n.w), Greater(box[4], n.y + n.h)>>,
                      Side(each[1]), each)
      boxes == <<all>> \o [k \in Index(each) |-> Side(each[k])]
  IN  <<<<<<p[1], q[2]>>>>, <<<<q[1], p[2]>>>>>>
        \o FlattenSeq([k \in Index(boxes) |-> Around(p, q, boxes[k], DetourClear)
                                                \o Around(p, q, boxes[k], 2 * DetourClear)])

(* The coarse grid of single bends, tried when nothing else is clean; its    *)
(* cap of 900 waypoints only shortens it for edges far longer than these.    *)
Swept(p, q) ==
  LET from(k) == Lesser(p[k], q[k]) - DetourGridPad
      Count(k) == (Greater(p[k], q[k]) + DetourGridPad - from(k)) \div DetourGridStep + 1
  IN  FlattenSeq([i \in 1 .. Count(1) |->
        [j \in 1 .. Count(2) |-> <<<<from(1) + (i - 1) * DetourGridStep,
                                     from(2) + (j - 1) * DetourGridStep>>>>]])

Less(a, b) == \E k \in Index(a) : a[k] < b[k] /\ \A j \in 1 .. k - 1 : a[j] = b[j]

(* consider: of the clean candidates the first with the least score.         *)
Best(candidates, p, q, boxes, others) ==
  LET Full(c) == <<p>> \o c \o <<q>>
      clean == SelectSeq(candidates, LAMBDA c : PathCuts(Full(c), boxes) = {})
      Score(c) == <<PathGrazes(Full(c), boxes),
                    Cardinality({j \in DOMAIN others : PathsCross(Full(c), others[j])}),
                    Cardinality({j \in DOMAIN others : ShareLane(Full(c), others[j])}),
                    PathLength(Full(c))>>
      scores == [k \in Index(clean) |-> Score(clean[k])]
      best == CHOOSE k \in Index(clean) :
                \A j \in Index(clean) : /\ ~ Less(scores[j], scores[k])
                                        /\ j < k => scores[j] # scores[k]
  IN  IF clean = <<>> THEN None ELSE clean[best]

(* pickDetour.                                                               *)
OrElse(near, far) == IF Has(near) THEN near ELSE far

PickDetour(g, p, q, boxes, blockers, others) ==
  OrElse(Best(Curated(g, p, q, blockers), p, q, boxes, others), Best(Swept(p, q), p, q, boxes, others))

(* Edges are taken in order, each against where the earlier ones now run; a  *)
(* later one counts as the straight line between its ports.                  *)
Rerouted(path, bends) == IF Has(bends) THEN <<path[1]>> \o bends \o <<path[2]>> ELSE path

StraightLine(path) == <<path[1], path[Len(path)]>>

(* Mutant of Reroute: against the straight lines of all.                     *)
RerouteStale(g, paths, i, boxes) ==
  LET path == paths[i]
      blockers == PathCuts(path, boxes)
  IN  IF blockers = {} THEN paths
      ELSE [paths EXCEPT ![i] = Rerouted(path, PickDetour(g, path[1], path[2], boxes, blockers,
                                                          [j \in DOMAIN paths \ {i} |-> StraightLine(paths[j])]))]

Reroute(g, paths, i, boxes) ==
  LET path == paths[i]
      blockers == PathCuts(path, boxes)
  IN  IF blockers = {} THEN paths
      ELSE [paths EXCEPT ![i] = Rerouted(path, PickDetour(g, path[1], path[2], boxes, blockers,
                                                          [j \in DOMAIN paths \ {i} |-> paths[j]]))]

Bent(g, paths) ==
  [g EXCEPT !.edges =
     [i \in Index(@) |-> IF i \notin DOMAIN paths THEN @[i]
                         ELSE IF Len(paths[i]) = 2 THEN @[i]
                         ELSE [@[i] EXCEPT !.route = [Kept(g.edges[i]) EXCEPT !.bends =
                                                        SubSeq(paths[i], 2, Len(paths[i]) - 1)]]]]

DetourBlockedEdges(g) ==
  LET drawn == {i \in Index(g.edges) : Drawable(g, g.edges[i])}
  IN  Bent(g, FoldLeft(LAMBDA paths, i : IF i \notin drawn THEN paths
                                         ELSE Reroute(g, paths, i, Obstacles(g, g.edges[i])),
                       [i \in drawn |-> StraightLine(PathOf(g, g.edges[i]))],
                       [i \in Index(g.edges) |-> i]))
-----------------------------------------------------------------------------
(* The consumer, and the passes. *)

CanvasInit == canvas \in Seeds /\ steps = 0

Redrawn(g) == canvas' = g /\ steps < MaxSteps /\ steps' = steps + 1

(* The consumer moves a node; the bends of its edges no longer apply.        *)
MoveNode ==
  \E i \in Index(canvas.nodes), place \in Places :
    LET id == canvas.nodes[i].id
        Straight(e) == IF id \in {e.from, e.to} /\ Has(e.route)
                       THEN [e EXCEPT !.route.bends = <<>>] ELSE e
    IN  Redrawn([canvas EXCEPT !.nodes[i].x = place[1], !.nodes[i].y = place[2],
                            !.edges = [k \in Index(@) |-> Straight(@[k])]])

PinPort ==
  \E i \in Index(canvas.edges), port \in Ports, end \in {1, 2} :
    Redrawn(IF end = 1 THEN [canvas EXCEPT !.edges[i].fromPort = port]
         ELSE [canvas EXCEPT !.edges[i].toPort = port])

ApplyPins == Redrawn(ApplyPortPins(canvas))
OrderPorts == Redrawn(OrderSharedPorts(canvas))
Detour == Redrawn(DetourBlockedEdges(canvas))

CanvasNext ==
  \/ MoveNode \/ PinPort \/ ApplyPins \/ OrderPorts \/ Detour
=============================================================================
