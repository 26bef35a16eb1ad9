---------------------------- MODULE LayoutTiles ----------------------------
(***************************************************************************)
(* Where the components of a diagram go: around the component they are     *)
(* tied to, or into the rows of what no tie connects                       *)
(* (pkg/layout7/components.go, assemble, without its distances and without *)
(* the anchor of an earlier layout).                                       *)
(***************************************************************************)
EXTENDS LayoutMembership

\* The edges to S and E, which cap a component: of its starts and ends, or of the outer rows.
BoundaryEdges(sk, c, inside) ==
  LET rows == sk.rows[c]
      Count(ns, row) == IF ns \cap inside = {} THEN Len(row) ELSE Cardinality(ns \cap inside)
  IN  IF rows[1] = <<>> THEN 0 ELSE Count(sk.starts, rows[1]) + Count(sk.ends, Last(rows))

\* The most central component first; event components are created before the others.
Centrality(d, m, sk, c) ==
  LET inside == {n \in Nodes(d) : m.comp[n] = c}
      ties   == {i \in CrossTies(d, m) : {m.comp[d.edges[i].src], m.comp[d.edges[i].tgt]} \cap {c} # {}}
      edges  == {i \in EdgeIds(d) : {d.edges[i].src, d.edges[i].tgt} \subseteq inside}
  IN  <<Cardinality(ties), Cardinality(inside), Cardinality(edges) + BoundaryEdges(sk, c, inside),
        Cardinality(inside \cap Events(d)), IF IsEvent(d, c) THEN 1 ELSE 0, Len(d.kind) - c>>
Order(d, m, sk) ==
  LET key == [c \in m.comps |-> Centrality(d, m, sk, c)]
      Above(a, b) == \E i \in 1 .. 6 : /\ key[a][i] > key[b][i]
                                       /\ \A j \in 1 .. i - 1 : key[a][j] = key[b][j]
  IN  SortSeq(InOrder(d, m.comps), Above)

\* The first tie of component c to one of the given components, 0 for none.
TieTo(d, m, c, placed) ==
  LET ties == {i \in CrossTies(d, m) :
                 \E o \in placed : {m.comp[d.edges[i].src], m.comp[d.edges[i].tgt]} = {c, o}}
  IN  IF ties = {} THEN 0 ELSE Min(ties)

\* One walk over the components that wait: each one tied to a placed one is placed around it.
RingPass(d, m, ring) ==
  LET Try(r, c) ==
        LET tie == TieTo(d, m, c, r.placed)
        IN  IF tie = 0 THEN [r EXCEPT !.waiting = Append(@, c)]
            ELSE [r EXCEPT !.placed = @ \cup {c}, !.ties = Append(@, <<c, tie>>)]
  IN  FoldLeft(Try, [ring EXCEPT !.waiting = <<>>], ring.waiting)

RingOf(hub, members) ==
  LET Waits(c) == c # hub
  IN  [placed |-> {hub}, ties |-> <<>>, waiting |-> SelectSeq(members, Waits)]

\* Mutant of RingCluster: one walk, as before the fixpoint.
RingClusterOnce(d, m, hub, members) == RingPass(d, m, RingOf(hub, members))

\* ringCluster: until a walk places nothing.
RingCluster(d, m, hub, members) ==
  LET RECURSIVE Walk(_)
      Walk(ring) == LET next == RingPass(d, m, ring)
                    IN  IF next.waiting = ring.waiting THEN ring ELSE Walk(next)
  IN  Walk(RingOf(hub, members))

\* The clusters of tied components, each in the order of centrality and at its hub's turn.
Clusters(d, m, order) ==
  LET Of(joined) ==
        LET Hub(c) == c = SelectSeq(order, LAMBDA o : o \in joined[c])[1]
            hubs   == SelectSeq(order, Hub)
        IN  [i \in DOMAIN hubs |-> SelectSeq(order, LAMBDA o : o \in joined[hubs[i]])]
  IN  Of(Joined(m.comps, {<<m.comp[d.edges[i].src], m.comp[d.edges[i].tgt]>> : i \in CrossTies(d, m)}))

\* The count ladder: columns and rows grow in turn from three by one until the tiles fit, and
\* the rows are filled evenly.
Ladder(tiles) ==
  LET cols[k \in Nat] ==
        IF k = 0 THEN <<3, 1>>
        ELSE LET l == cols[k - 1]
             IN  IF l[1] >= l[2] + 2 THEN <<l[1], l[2] + 1>> ELSE <<l[1] + 1, l[2]>>
      steps == Min({k \in 0 .. tiles : cols[k][1] * cols[k][2] >= tiles})
      rows  == cols[steps][2]
  IN  [r \in 1 .. rows |-> (tiles \div rows) + (IF r <= tiles % rows THEN 1 ELSE 0)]

(***************************************************************************)
(* assemble.  The cluster of the first component is the group when it has  *)
(* another member.  Every other cluster is a snowflake of its own, and a   *)
(* component no ring took is a tile, like the first one when it has no     *)
(* ties; the group is a tile of the first row.  Beside a group the tiles   *)
(* may also go in columns, whichever shape is nearer to the target; the    *)
(* rows are modelled.                                                      *)
(***************************************************************************)
Assembly(d, m, sk) ==
  LET Of(rings) ==
        LET Singles(ring) == [i \in DOMAIN ring.waiting |-> {ring.waiting[i]}]
            Tiles(ring) == <<ring.placed>> \o Singles(ring)
            grouped == Cardinality(rings[1].placed) > 1
            rest    == FlattenSeq([i \in DOMAIN Tail(rings) |-> Tiles(rings[i + 1])])
            tiles   == (IF grouped THEN <<>> ELSE <<rings[1].placed>>) \o Singles(rings[1]) \o rest
            counts  == Ladder(Len(tiles) + (IF grouped THEN 1 ELSE 0))
        IN  [group  |-> IF grouped THEN rings[1].placed ELSE {},
             ties   |-> FlattenSeq([i \in DOMAIN rings |-> rings[i].ties]),
             tiles  |-> tiles,
             counts |-> IF grouped THEN [counts EXCEPT ![1] = @ - 1] ELSE counts]
      With(clusters) ==
        Of([i \in DOMAIN clusters |-> RingCluster(d, m, Head(clusters[i]), clusters[i])])
  IN  With(Clusters(d, m, Order(d, m, sk)))
=============================================================================
