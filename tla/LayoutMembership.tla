-------------------------- MODULE LayoutMembership --------------------------
(***************************************************************************)
(* Which component every node of a diagram is drawn in, and what every     *)
(* edge does for the layout (pkg/layout7/membership.go).  A document d is  *)
(* the kinds of its nodes and its edges [src, tgt, link], both in order of *)
(* declaration; an edge is named by its index, and 0 is no edge.           *)
(***************************************************************************)
EXTENDS Graphs

Nodes(d) == DOMAIN d.kind
EdgeIds(d) == DOMAIN d.edges
IsEvent(d, n) == d.kind[n] = "Event"
Events(d) == {n \in Nodes(d) : IsEvent(d, n)}
Aux(d) == Nodes(d) \ Events(d)
PairsOf(d, is) == {<<d.edges[i].src, d.edges[i].tgt>> : i \in is}

\* The given nodes in order of declaration.
InOrder(d, ns) == SelectSeq([n \in Nodes(d) |-> n], LAMBDA n : n \in ns)

\* The edges of the given links between two of the given nodes.
EdgesAmong(d, links, ns) ==
  {i \in EdgeIds(d) : d.edges[i].link \in links /\ {d.edges[i].src, d.edges[i].tgt} \subseteq ns}

\* The end of edge i that is not n.
User(d, n, i) == IF d.edges[i].src = n THEN d.edges[i].tgt ELSE d.edges[i].src

\* The nodes that chains of the pairs lead to from each node, itself included.
Reached(nodes, pairs) ==
  LET Grown[S \in SUBSET nodes] ==
        LET more == S \cup ({p[2] : p \in {q \in pairs : q[1] \in S}} \cap nodes)
        IN  IF more = S THEN S ELSE Grown[more]
  IN  [n \in nodes |-> Grown[{n}]]

\* The nodes that the pairs, taken in either direction, join each node to.
Turned(pairs) == {<<p[2], p[1]>> : p \in pairs}
Joined(nodes, pairs) == Reached(nodes, pairs \cup Turned(pairs))

\* The length of the longest chain of the pairs, which have no cycle, from each node.
Longest(nodes, pairs) ==
  LET len[n \in nodes] == Max({0} \cup {1 + len[p[2]] : p \in {q \in pairs : q[1] = n}})
  IN  len

-----------------------------------------------------------------------------
(* The primary edge of every thing and concept. *)

\* isPlacing: near-to and expresses between events place nothing.
IsPlacing(d, i) ==
  \/ d.edges[i].link \in {"LeadsTo", "PartOf"}
  \/ d.edges[i].link = "Expresses" /\ d.kind[d.edges[i].tgt] = "Concept"
Placing(d) == {i \in EdgeIds(d) : IsPlacing(d, i)}

\* eventDistance: the placing edges between a node and the nearest event; a node that none
\* reaches is farther than every other.
EventDistance(d) ==
  LET pairs == PairsOf(d, Placing(d)) \cup Turned(PairsOf(d, Placing(d)))
      steps[S \in SUBSET Nodes(d), n \in Nodes(d)] ==
        LET more == S \cup {p[2] : p \in {q \in pairs : q[1] \in S}}
        IN  IF n \in S THEN 0 ELSE IF more = S THEN Len(d.kind) ELSE 1 + steps[more, n]
  IN  [n \in Nodes(d) |-> steps[Events(d), n]]

\* eventNesting: how deep an event is a part of events.
EventNesting(d) == Longest(Nodes(d), PairsOf(d, EdgesAmong(d, {"PartOf"}, Events(d))))

\* better: the pairs of users of which the first wins, because it is deeper, or nested
\* deeper, or upstream of the other.
Beats(d) ==
  LET Of(md, nest, flow) ==
        {p \in Nodes(d) \X Nodes(d) :
           \/ md[p[1]] > md[p[2]]
           \/ md[p[1]] = md[p[2]] /\ nest[p[1]] > nest[p[2]]
           \/ md[p[1]] = md[p[2]] /\ nest[p[1]] = nest[p[2]] /\ p[1] # p[2]
                /\ p[2] \in flow[p[1]]}
  IN  Of(EventDistance(d), EventNesting(d),
         Reached(Nodes(d), PairsOf(d, EdgesAmong(d, {"LeadsTo"}, Events(d)))))

\* userEdges: the edges that could place n, in order of declaration.
UserEdges(d, n) ==
  LET Places(i) == \/ d.edges[i].link = "PartOf" /\ d.edges[i].src = n
                   \/ d.kind[n] = "Concept" /\ d.edges[i].link = "Expresses" /\ d.edges[i].tgt = n
  IN  SelectSeq([i \in EdgeIds(d) |-> i], Places)

\* What n is elected from: a thing that takes part in an event, from those edges only.
Candidates(d, n) ==
  LET IsConnector(i) == IsEvent(d, User(d, n, i))
      connectors == SelectSeq(UserEdges(d, n), IsConnector)
  IN  IF IsEvent(d, n) THEN <<>>
      ELSE IF d.kind[n] = "Thing" /\ connectors # <<>> THEN connectors
      ELSE UserEdges(d, n)

\* The first of the best edges of n, and what the others are demoted to.
Elected(d, n, is, beats) ==
  LET Better(best, i) == IF <<User(d, n, i), User(d, n, best)>> \in beats THEN i ELSE best
  IN  IF is = <<>> THEN 0 ELSE FoldLeft(Better, Head(is), Tail(is))
Election(d) ==
  LET Of(cands, primary) ==
        [primary |-> primary,
         demoted |-> UNION {ToSet(cands[n]) \ {primary[n]} : n \in Nodes(d)}]
      With(cands, beats) == Of(cands, [n \in Nodes(d) |-> Elected(d, n, cands[n], beats)])
  IN  With([n \in Nodes(d) |-> Candidates(d, n)], Beats(d))

-----------------------------------------------------------------------------
(* Aux structures and their anchors. *)

HasConnector(d, primary, n) == primary[n] # 0 /\ IsEvent(d, User(d, n, primary[n]))

\* The anchor member: with a connector, part-most, first declared; 0 when there is none.
AnchorOf(d, primary, rank, members) ==
  LET able == {n \in members : HasConnector(d, primary, n)}
      best == {n \in able : \A m \in able : rank[m] <= rank[n]}
  IN  IF best = {} THEN 0 ELSE Min(best)

\* The edge a member hangs by whose connector is demoted: to its deepest remaining user.
Rehung(d, n, demoted, md) ==
  LET Kept(i) == ~IsEvent(d, User(d, n, i)) /\ i \notin demoted
      Deeper(best, i) == IF md[User(d, n, i)] > md[User(d, n, best)] THEN i ELSE best
      kept == SelectSeq(UserEdges(d, n), Kept)
  IN  IF kept = <<>> THEN 0 ELSE FoldLeft(Deeper, Head(kept), Tail(kept))

\* Mutant of Anchored: every member keeps its connector.
AnchoredEach(d, el, struct, anchor) ==
  [primary |-> el.primary, demoted |-> el.demoted, struct |-> struct, anchor |-> anchor]

\* The connectors of all members but the anchor are demoted.
Anchored(d, el, struct, anchor) ==
  LET lose == {n \in Aux(d) : anchor[n] \notin {0, n} /\ HasConnector(d, el.primary, n)}
      md   == EventDistance(d)
  IN  [primary |-> [n \in Nodes(d) |-> IF n \in lose THEN Rehung(d, n, el.demoted, md) ELSE el.primary[n]],
       demoted |-> el.demoted \cup {el.primary[n] : n \in lose},
       struct  |-> struct,
       anchor  |-> anchor]

\* The structures that the edges between aux nodes form which no election demoted.
Structures(d) ==
  LET Rank(inner) == Longest(Aux(d), PairsOf(d, {i \in inner : d.edges[i].link = "PartOf"}))
      Of(el, inner, struct, rank) ==
        Anchored(d, el, struct, [n \in Aux(d) |-> AnchorOf(d, el.primary, rank, struct[n])])
      Inner(el, inner) == Of(el, inner, Joined(Aux(d), PairsOf(d, inner)), Rank(inner))
      With(el) == Inner(el, (Placing(d) \ el.demoted)
                              \cap EdgesAmong(d, {"PartOf", "Expresses"}, Aux(d)))
  IN  With(Election(d))

-----------------------------------------------------------------------------
(* Ties, satellites and components. *)

\* Near-to between things or between concepts.
SameTie(d) ==
  {i \in EdgeIds(d) : /\ d.edges[i].link = "NearTo"
                      /\ d.kind[d.edges[i].src] = d.kind[d.edges[i].tgt]
                      /\ ~IsEvent(d, d.edges[i].src)}

HasPlacement(d, m, n) == IsEvent(d, n) \/ m.primary[n] # 0 \/ m.anchor[n] # 0

\* Mutant of Satellite: the last tie.
SatelliteLast(d, m, n) ==
  LET ties == {i \in SameTie(d) : /\ n \in {d.edges[i].src, d.edges[i].tgt}
                                  /\ HasPlacement(d, m, User(d, n, i))}
  IN  IF HasPlacement(d, m, n) \/ ties = {} THEN 0 ELSE Max(ties)

\* satelliteOf: the first tie of an unplaced node to a placed one.
Satellite(d, m, n) ==
  LET ties == {i \in SameTie(d) : /\ n \in {d.edges[i].src, d.edges[i].tgt}
                                  /\ HasPlacement(d, m, User(d, n, i))}
  IN  IF HasPlacement(d, m, n) \/ ties = {} THEN 0 ELSE Min(ties)

\* compFor, one hop: where n looks for its component.
Hop(d, m, sat, n) ==
  LET parts == {i \in Placing(d) \ m.demoted : d.edges[i].link = "PartOf" /\ d.edges[i].tgt = n}
  IN  IF IsEvent(d, n) THEN n
      ELSE IF m.primary[n] # 0 THEN User(d, n, m.primary[n])
      ELSE IF m.anchor[n] \notin {0, n} THEN m.anchor[n]
      ELSE IF sat[n] # 0 THEN User(d, n, sat[n])
      ELSE IF parts # {} THEN d.edges[Min(parts)].src ELSE n

\* The component of an event; a component is named by the first of its nodes.
EventStory(d) ==
  LET joined == Joined(Events(d), PairsOf(d, EdgesAmong(d, {"LeadsTo", "PartOf"}, Events(d))))
  IN  [n \in Events(d) |-> Min(joined[n])]

\* The component of the event that the hops from n end at, 0 when they end at none.
StoryOf(d, m, sat) ==
  LET End[n \in Nodes(d), hops \in 0 .. Len(d.kind)] ==
        IF hops = 0 THEN n ELSE End[Hop(d, m, sat, n), hops - 1]
      Of(end, story) == [n \in Nodes(d) |-> IF IsEvent(d, end[n]) THEN story[end[n]] ELSE 0]
  IN  Of([n \in Nodes(d) |-> End[n, Len(d.kind)]], EventStory(d))

\* The nodes without an event form components by placing edges, demoted or not.
WithPure(d, story) ==
  LET left == {n \in Nodes(d) : story[n] = 0}
      Of(joined) == [n \in Nodes(d) |-> IF n \in left THEN Min(joined[n]) ELSE story[n]]
  IN  Of(Joined(left, PairsOf(d, Placing(d))))

\* Satellites move to the component of their partner, node after node, structures and all.
Refollow(d, m, sat, comp) ==
  LET Move(c, n) ==
        IF sat[n] = 0 THEN c
        ELSE [k \in Nodes(d) |-> IF k \in m.struct[n] THEN c[User(d, n, sat[n])] ELSE c[k]]
  IN  FoldLeft(Move, comp, [n \in Nodes(d) |-> n])

\* resolveMembership.  A component that its satellites left stays in the list.
Membership(d) ==
  LET Of(m, sat, comp) ==
        [primary    |-> m.primary,
         demoted    |-> m.demoted,
         structural |-> Placing(d) \ m.demoted,
         satellite  |-> sat,
         comp       |-> Refollow(d, m, sat, comp),
         comps      |-> Range(comp)]
      Comp(m, sat) == Of(m, sat, WithPure(d, StoryOf(d, m, sat)))
      With(m) == Comp(m, [n \in Nodes(d) |-> Satellite(d, m, n)])
  IN  With(Structures(d))

\* crossTies: the edges that connect two components and shape neither.
CrossTies(d, m) ==
  {i \in EdgeIds(d) \ m.structural : m.comp[d.edges[i].src] # m.comp[d.edges[i].tgt]}
=============================================================================
