--------------------------- MODULE NodeKindProofs ---------------------------
(***************************************************************************)
(* Theorems about the node-kind solver, for every number of nodes and      *)
(* every list of edges.                                                    *)
(***************************************************************************)
EXTENDS NodeKind, SetInduction, FiniteSetTheorems, SequenceTheorems, TLAPS

(* ---------------------------------------------------------------------- *)
(* What the operators return.                                              *)

\* Two events can be linked in every way.
LEMMA EventsFit == \A l \in Links : TypePairValid(l, "Event", "Event")
BY DEF Links, TypePairValid

\* The first kind, and the next to try, is one of those that are left.
LEMMA FirstKindIsOne ==
  ASSUME NEW ks \in SUBSET Kinds, ks # {}
  PROVE  FirstKind(ks) \in ks
BY DEF FirstKind, Kinds

LEMMA NextToTryIsOne ==
  ASSUME NEW i, NEW ks \in SUBSET Kinds, ks # {}
  PROVE  NextToTry(i, ks) \in ks
BY FirstKindIsOne DEF NextToTry

\* The ends of an edge that is left are nodes.
LEMMA EndsAreNodes ==
  ASSUME TypeOK, NEW n \in alive
  PROVE  /\ n \in DOMAIN edges /\ edges[n] \in Edge
         /\ edges[n].src \in Nodes /\ edges[n].tgt \in Nodes /\ edges[n].link \in Links
<1>1. n \in DOMAIN edges /\ edges[n] \in Edge
  BY DEF TypeOK
<1> QED
  BY <1>1 DEF Edge

\* A kind that a typing of the graph gives to a node is valid for it.
LEMMA TypingsAreValid ==
  ASSUME TypeOK, NEW a \in [Nodes -> Kinds], Satisfies(a),
         \A j \in Nodes : a[j] \in dom[j], NEW i \in Nodes
  PROVE  a[i] \in Valid(i)
<1>1. ASSUME NEW n \in IncidentTo(i)
      PROVE  \E o \in dom[Other(n, i)] : Fits(edges[n], i, a[i], o)
  <2>1. n \in alive /\ TypePairValid(edges[n].link, a[edges[n].src], a[edges[n].tgt])
    BY <1>1 DEF IncidentTo, Satisfies
  <2>2. edges[n].src \in Nodes /\ edges[n].tgt \in Nodes
    BY <2>1, EndsAreNodes
  <2>3. a[Other(n, i)] \in dom[Other(n, i)]
    BY <2>2 DEF Other
  <2>4. Fits(edges[n], i, a[i], a[Other(n, i)])
    BY <1>1, <2>1, Zenon DEF Fits, Other, IncidentTo
  <2> QED
    BY <2>3, <2>4
<1> QED
  BY <1>1 DEF Valid, CandidateValidates

\* Event stays a candidate of every node as long as nothing is decided by default.
LEMMA EventStays ==
  ASSUME TypeOK, NeverGuesses, Undefaulted
  PROVE  \A i \in Nodes : "Event" \in dom[i]
<1> DEFINE a == [i \in Nodes |-> "Event"]
<1>1. a \in [Nodes -> Kinds]
  BY DEF Kinds
<1>2. Satisfies(a)
  BY EndsAreNodes, EventsFit DEF Satisfies
<1> QED
  BY <1>1, <1>2 DEF NeverGuesses

(* ---------------------------------------------------------------------- *)
(* Type correctness. *)

\* The next edge of the search is an unseen one that leaves its node.
LEMMA NextOutIsUnseen ==
  ASSUME TypeOK, NEW u \in Nodes, Unseen(u) # {}
  PROVE  NextOut(u) \in Unseen(u)
<1>1. Unseen(u) \in SUBSET Nat
  BY DEF TypeOK, Unseen
<1>2. \E n \in Unseen(u) : \A m \in Unseen(u) : n <= m
  BY <1>1, LeastElement
<1> QED
  BY <1>2 DEF NextOut

LEMMA TopIsANode ==
  ASSUME TypeOK, path # <<>>
  PROVE  Top \in Nodes /\ Len(path) \in Nat \ {0}
BY DEF TypeOK, Top

\* Retreat goes back to a grey node before the one it leaves.
LEMMA LastBefore ==
  ASSUME TypeOK, node <= NumNodes
  PROVE  LET before == {i \in 1 .. node - 1 : Unresolved(i)}
             last   == CHOOSE i \in before : \A j \in before : j <= i
         IN  before # {} => last \in before /\ \A j \in before : j <= last
<1> DEFINE before == {i \in 1 .. node - 1 : Unresolved(i)}
<1>1. NumNodes \in Nat /\ node \in Nat /\ node - 1 \in Nat
  BY NodesAssumption DEF TypeOK
<1>2. ASSUME before # {} PROVE \E i \in before : \A j \in before : j <= i
  <2>1. before \in SUBSET (1 .. node - 1)
    OBVIOUS
  <2> HIDE DEF before
  <2> QED
    BY <1>1, <1>2, <2>1, GreatestElement
<1> HIDE DEF before
<1>3. before # {} => LET last == CHOOSE i \in before : \A j \in before : j <= i
                     IN  last \in before /\ \A j \in before : j <= last
  BY <1>2, Zenon
<1> QED
  BY <1>3, Zenon DEF before

LEMMA TypeInit == Init => TypeOK
<1> SUFFICES ASSUME Init PROVE TypeOK
  OBVIOUS
<1>1. edges \in Seq(Edge) /\ defaults \in BOOLEAN
  BY InputAssumption DEF Init
<1>2. 1 \in 1 .. MaxPasses /\ 1 \in 1 .. NumNodes + 1
  BY NodesAssumption DEF MaxPasses
<1>3. <<>> \in Seq(Nodes) /\ {} \subseteq DOMAIN edges
  OBVIOUS
<1> QED
  BY <1>1, <1>2, <1>3 DEF Init, TypeOK

LEMMA TypeStep == TypeOK /\ [Next]_vars => TypeOK'
<1> SUFFICES ASSUME TypeOK, [Next]_vars PROVE TypeOK'
  OBVIOUS
<1> USE NodesAssumption
<1>1. CASE Dedupe
  BY <1>1 DEF Dedupe, TypeOK, orderVars, pickVars, dfsVars, MaxPasses
<1>2. CASE VisitNode
  <2>1. node \in Nodes /\ node + 1 \in 1 .. NumNodes + 1
    BY <1>2 DEF VisitNode, TypeOK, Nodes
  <2>2. Valid(node) \in SUBSET Kinds
    BY <2>1 DEF TypeOK, Valid
  <2>3. dom' \in [Nodes -> SUBSET Kinds] /\ conf' \in [Nodes -> {"Low", "High", "Default"}]
    BY <1>2, <2>1, <2>2 DEF VisitNode, TypeOK
  <2>4. changed' \in BOOLEAN
    BY <1>2 DEF VisitNode, TypeOK
  <2> QED
    BY <1>2, <2>1, <2>3, <2>4 DEF VisitNode, TypeOK, pickVars, dfsVars, MaxPasses
<1>3. CASE NextPass
  <2>1. pass' \in 1 .. MaxPasses /\ node' \in 1 .. NumNodes + 1
    BY <1>3 DEF NextPass, TypeOK, MaxPasses
  <2> QED
    BY <1>3, <2>1 DEF NextPass, TypeOK, pickVars, dfsVars, MaxPasses
<1>4. CASE LastPass
  BY <1>4 DEF LastPass, TypeOK, orderVars, pickVars, dfsVars, MaxPasses
<1>5. CASE PassOver
  BY <1>5 DEF PassOver, TypeOK, orderVars, pickVars, dfsVars, MaxPasses
<1>6. CASE TryKind
  <2>1. node \in Nodes /\ node + 1 \in 1 .. NumNodes + 1
    BY <1>6 DEF TryKind, Searching, TypeOK, Nodes
  <2>2. NextToTry(node, Untried(node)) \in Kinds
    <3>1. Untried(node) \in SUBSET Kinds /\ Untried(node) # {}
      BY <1>6, <2>1 DEF TryKind, TypeOK, Untried
    <3> QED
      BY <3>1, NextToTryIsOne
  <2>3. pick' \in [Nodes -> Kinds \cup {None}] /\ tried' \in [Nodes -> SUBSET Kinds]
    BY <1>6, <2>1, <2>2 DEF TryKind, TypeOK
  <2>4. node' \in 1 .. NumNodes + 1
    BY <1>6, <2>1 DEF TryKind, Nodes
  <2> QED
    BY <1>6, <2>3, <2>4 DEF TryKind, TypeOK, orderVars, dfsVars, MaxPasses
<1>7. CASE Retreat
  <2> DEFINE before == {i \in 1 .. node - 1 : Unresolved(i)}
             last   == CHOOSE i \in before : \A j \in before : j <= i
  <2>1. node \in Nodes
    BY <1>7 DEF Retreat, Searching, TypeOK, Nodes
  <2>2. before # {} => last \in Nodes
    <3>1. before # {} => last \in before
      BY <1>7, LastBefore DEF Retreat, Searching
    <3>2. before \subseteq Nodes
      BY <2>1 DEF Nodes
    <3> QED
      BY <3>1, <3>2
  <2>3. /\ node' = IF before = {} THEN node ELSE last
        /\ pick' = IF before = {} THEN pick ELSE [pick EXCEPT ![last] = None]
        /\ pc' = IF before = {} THEN "defaults" ELSE pc
    BY <1>7 DEF Retreat
  <2> HIDE DEF before, last
  <2>4. node' \in 1 .. NumNodes + 1 /\ pick' \in [Nodes -> Kinds \cup {None}]
    <3>1. CASE before = {}
      BY <2>3, <3>1 DEF TypeOK
    <3>2. CASE before # {}
      <4>1. last \in Nodes /\ last \in 1 .. NumNodes + 1
        BY <2>2, <3>2 DEF Nodes
      <4> QED
        BY <2>3, <3>2, <4>1 DEF TypeOK
    <3> QED
      BY <3>1, <3>2
  <2> QED
    BY <1>7, <2>3, <2>4 DEF Retreat, TypeOK, orderVars, dfsVars, MaxPasses
<1>8. CASE Picked
  BY <1>8 DEF Picked, TypeOK, orderVars, pickVars, dfsVars, MaxPasses
<1>9. CASE ApplyDefaults
  <2>1. \A i \in Nodes : EffType(i) \in Kinds
    BY DEF EffType, FirstKind, TypeOK, Kinds
  <2>2. dom' \in [Nodes -> SUBSET Kinds]
    BY <1>9, <2>1 DEF ApplyDefaults, TypeOK
  <2>3. conf' \in [Nodes -> {"Low", "High", "Default"}]
    BY <1>9 DEF ApplyDefaults, TypeOK
  <2> QED
    BY <1>9, <2>2, <2>3 DEF ApplyDefaults, TypeOK, orderVars, pickVars, dfsVars, MaxPasses
<1>10. CASE DropInvalidEdges
  BY <1>10 DEF DropInvalidEdges, TypeOK, orderVars, pickVars, dfsVars, MaxPasses
<1>11. CASE Root
  <2>1. path' \in Seq(Nodes) /\ color' \in [Nodes -> {"white", "gray", "black"}]
    BY <1>11 DEF Root, TypeOK
  <2> QED
    BY <1>11, <2>1 DEF Root, TypeOK, orderVars, pickVars, MaxPasses
<1>12. ASSUME InCycles, Unseen(Top) # {}
       PROVE  NextOut(Top) \in alive /\ edges[NextOut(Top)].tgt \in Nodes
  <2>1. NextOut(Top) \in alive
    BY <1>12, TopIsANode, NextOutIsUnseen DEF InCycles, Unseen
  <2> QED
    BY <2>1, EndsAreNodes
<1>13. CASE CutBackEdge
  BY <1>12, <1>13 DEF CutBackEdge, TypeOK, orderVars, pickVars, MaxPasses
<1>14. CASE Descend
  <2>1. path' \in Seq(Nodes) /\ color' \in [Nodes -> {"white", "gray", "black"}]
    BY <1>12, <1>14 DEF Descend, TypeOK
  <2> QED
    BY <1>12, <1>14, <2>1 DEF Descend, TypeOK, orderVars, pickVars, MaxPasses
<1>15. CASE KeepCrossEdge
  BY <1>12, <1>15 DEF KeepCrossEdge, TypeOK, orderVars, pickVars, MaxPasses
<1>16. CASE Return
  <2>1. Top \in Nodes /\ Len(path) \in Nat \ {0}
    BY <1>16, TopIsANode DEF Return, InCycles
  <2>2. path' \in Seq(Nodes) /\ color' \in [Nodes -> {"white", "gray", "black"}]
    BY <1>16, <2>1 DEF Return, TypeOK
  <2> QED
    BY <1>16, <2>2 DEF Return, TypeOK, orderVars, pickVars, MaxPasses
<1>17. CASE Acyclic
  BY <1>17 DEF Acyclic, TypeOK, orderVars, pickVars, dfsVars, MaxPasses
<1>18. CASE UNCHANGED vars
  BY <1>18 DEF vars, TypeOK, orderVars, pickVars, dfsVars, MaxPasses
<1> QED
  BY <1>1, <1>2, <1>3, <1>4, <1>5, <1>6, <1>7, <1>8, <1>9, <1>10, <1>11, <1>13, <1>14,
     <1>15, <1>16, <1>17, <1>18 DEF Next, Order, Pick, Search

(* ---------------------------------------------------------------------- *)
(* Pruning. *)

LEMMA InitInv == Init => SolverInv
<1> SUFFICES ASSUME Init PROVE SolverInv
  OBVIOUS
<1>1. TypeOK
  BY TypeInit
<1>2. Untouched /\ NoSelfLoop /\ NeverGuesses /\ ForcedAreEvents /\ PicksBehind /\ PinnedInTable
  BY DEF Init, Untouched, NoSelfLoop, NeverGuesses, ForcedAreEvents, PicksBehind,
         PinnedInTable, Undefaulted, Unresolved
<1> QED
  BY <1>1, <1>2 DEF SolverInv

LEMMA DedupeInv == SolverInv /\ Dedupe => SolverInv'
<1> SUFFICES ASSUME SolverInv, Dedupe PROVE SolverInv'
  OBVIOUS
<1>1. TypeOK'
  BY TypeStep DEF SolverInv, Next, Order
<1>2. \A i \in Nodes : dom'[i] = Kinds /\ Unresolved(i)'
  BY DEF SolverInv, Untouched, Dedupe, Unresolved
<1>3. Untouched' /\ NoSelfLoop' /\ PinnedInTable'
  BY DEF Dedupe, Untouched, NoSelfLoop, FirstOfPair, PinnedInTable
<1>4. NeverGuesses'
  BY <1>2 DEF NeverGuesses
<1>5. ForcedAreEvents'
  BY <1>2 DEF ForcedAreEvents
<1>6. PicksBehind'
  BY DEF SolverInv, Dedupe, PicksBehind, pickVars
<1> QED
  BY <1>1, <1>3, <1>4, <1>5, <1>6 DEF SolverInv

LEMMA VisitInv == SolverInv /\ VisitNode => SolverInv'
<1> SUFFICES ASSUME SolverInv, VisitNode PROVE SolverInv'
  OBVIOUS
<1>1. TypeOK /\ TypeOK'
  BY TypeStep DEF SolverInv, Next, Order
<1>2. pc = "order" /\ pc' = "order" /\ node \in Nodes
  BY <1>1 DEF VisitNode, TypeOK, Nodes
<1>3. Undefaulted /\ Undefaulted'
  BY <1>2 DEF Undefaulted
<1>4. alive' = alive /\ edges' = edges /\ pick' = pick
  BY DEF VisitNode, pickVars
<1>5. ASSUME NEW a \in [Nodes -> Kinds], Satisfies(a)', NEW i \in Nodes
      PROVE  a[i] \in dom'[i]
  <2>1. Satisfies(a)
    BY <1>4, <1>5 DEF Satisfies
  <2>2. \A j \in Nodes : a[j] \in dom[j]
    BY <1>3, <2>1 DEF SolverInv, NeverGuesses
  <2>3. a[node] \in Valid(node)
    BY <1>1, <1>2, <2>1, <2>2, TypingsAreValid
  <2> QED
    BY <1>1, <1>2, <2>2, <2>3 DEF VisitNode, TypeOK
<1>6. NeverGuesses'
  BY <1>5 DEF NeverGuesses
<1>7. \A i \in Nodes : "Event" \in dom'[i]
  <2> DEFINE a == [i \in Nodes |-> "Event"]
  <2>1. a \in [Nodes -> Kinds]
    BY DEF Kinds
  <2>2. Satisfies(a)'
    BY <1>1, <1>4, EndsAreNodes, EventsFit DEF Satisfies
  <2> HIDE DEF a
  <2>3. \A i \in Nodes : a[i] \in dom'[i]
    BY <1>5, <2>1, <2>2
  <2> QED
    BY <2>3 DEF a
<1>8. ForcedAreEvents'
  <2> SUFFICES ASSUME NEW i \in Nodes, ~Unresolved(i)' PROVE dom'[i] = {"Event"}
    BY DEF ForcedAreEvents
  <2>1. CASE ~Unresolved(i)
    <3>1. dom[i] = {"Event"}
      BY <1>3, <2>1 DEF SolverInv, ForcedAreEvents
    <3>2. dom'[i] = dom[i]
      BY <1>1, <1>2, <2>1 DEF VisitNode, TypeOK
    <3> QED
      BY <3>1, <3>2
  <2>2. CASE Unresolved(i)
    <3>1. i = node /\ dom'[i] = Valid(node) /\ Cardinality(Valid(node)) = 1
      BY <1>1, <1>2, <2>2 DEF VisitNode, TypeOK, Unresolved
    <3>2. IsFiniteSet(Valid(node))
      <4>1. Valid(node) \in SUBSET Kinds
        BY <1>1, <1>2 DEF Valid, TypeOK
      <4>2. IsFiniteSet(Kinds)
        <5>1. IsFiniteSet({"Event", "Thing"})
          <6>1. IsFiniteSet({"Event"} \cup {"Thing"})
            BY FS_Singleton, FS_AddElement
          <6>2. {"Event"} \cup {"Thing"} = {"Event", "Thing"}
            OBVIOUS
          <6> QED
            BY <6>1, <6>2
        <5>2. Kinds = {"Event", "Thing"} \cup {"Concept"}
          BY DEF Kinds
        <5> QED
          BY <5>1, <5>2, FS_AddElement
      <4> QED
        BY <4>1, <4>2, FS_Subset
    <3>3. PICK k : Valid(node) = {k}
      BY <3>1, <3>2, FS_Singleton
    <3> QED
      BY <1>7, <3>1, <3>3
  <2> QED
    BY <2>1, <2>2
<1>9. Untouched' /\ NoSelfLoop' /\ PinnedInTable'
  BY <1>2, <1>4 DEF SolverInv, Untouched, NoSelfLoop, PinnedInTable
<1>10. PicksBehind'
  BY <1>2, <1>4 DEF SolverInv, PicksBehind
<1> QED
  BY <1>1, <1>6, <1>8, <1>9, <1>10 DEF SolverInv

LEMMA PassesInv == SolverInv /\ (NextPass \/ LastPass) => SolverInv'
<1> SUFFICES ASSUME SolverInv, NextPass \/ LastPass PROVE SolverInv'
  OBVIOUS
<1>1. TypeOK /\ TypeOK'
  BY TypeStep DEF SolverInv, Next, Order
<1>2. /\ pc = "order" /\ pc' \in {"order", "pick"} /\ node' = 1
      /\ UNCHANGED <<edges, alive, dom, conf, defaults, pick>>
  BY DEF NextPass, LastPass, pickVars
<1>3. \A i \in Nodes : pick'[i] = None /\ 1 <= i
  BY <1>2 DEF SolverInv, PicksBehind, Nodes
<1>4. Untouched' /\ NoSelfLoop'
  BY <1>2 DEF SolverInv, Untouched, NoSelfLoop
<1>5. NeverGuesses' /\ ForcedAreEvents'
  BY <1>2 DEF SolverInv, NeverGuesses, ForcedAreEvents, Undefaulted, Satisfies, Unresolved
<1>6. PicksBehind'
  BY <1>2, <1>3 DEF PicksBehind, Nodes
<1>7. PinnedInTable'
  <2> SUFFICES ASSUME NEW n \in alive, Pinned(edges[n].src)', Pinned(edges[n].tgt)'
               PROVE  InTable(n)'
    BY <1>2 DEF PinnedInTable
  <2>1. edges[n].src \in Nodes /\ edges[n].tgt \in Nodes /\ edges[n].link \in Links
    BY <1>1, EndsAreNodes
  <2>2. ASSUME NEW i \in Nodes, Pinned(i)' PROVE EffType(i)' = "Event"
    <3>1. ~Unresolved(i)' /\ dom'[i] = {"Event"}
      BY <1>2, <1>3, <2>2 DEF Pinned, SolverInv, ForcedAreEvents, Undefaulted, Unresolved
    <3> QED
      BY <3>1 DEF EffType, FirstKind
  <2>3. EffType(edges[n].src)' = "Event" /\ EffType(edges[n].tgt)' = "Event"
    BY <1>2, <2>1, <2>2
  <2> QED
    BY <1>2, <2>1, <2>3, EventsFit DEF InTable
<1> QED
  BY <1>1, <1>4, <1>5, <1>6, <1>7 DEF SolverInv

(* ---------------------------------------------------------------------- *)
(* The search. *)

\* A kind that is consistent at a node goes with every pinned neighbour.
LEMMA ConsistentFits ==
  ASSUME SolverInv, pc = "pick", NEW i \in Nodes, NEW k \in Kinds, Consistent(i, k),
         NEW n \in IncidentTo(i), Pinned(Other(n, i))
  PROVE  Fits(edges[n], i, k, EffType(Other(n, i)))
<1> DEFINE o == Other(n, i)
<1>1. o \in Nodes
  BY EndsAreNodes DEF SolverInv, IncidentTo, Other
<1>2. CASE pick[o] # None
  <2>1. EffType(o) = pick[o]
    BY <1>1, <1>2 DEF EffType, SolverInv, PicksBehind
  <2> QED
    BY <1>2, <2>1 DEF Consistent
<1>3. CASE pick[o] = None
  <2>1. ~Unresolved(o) /\ dom[o] = {"Event"}
    BY <1>1, <1>3 DEF Pinned, SolverInv, ForcedAreEvents, Undefaulted
  <2>2. EffType(o) = "Event"
    BY <2>1 DEF EffType, FirstKind
  <2> QED
    BY <1>3, <2>1, <2>2 DEF Consistent
<1> QED
  BY <1>2, <1>3

LEMMA PassOverInv == SolverInv /\ PassOver => SolverInv'
<1> SUFFICES ASSUME SolverInv, PassOver PROVE SolverInv'
  OBVIOUS
<1>1. TypeOK /\ TypeOK'
  BY TypeStep DEF SolverInv, Next, Pick
<1>2. /\ pc = "pick" /\ pc' = "pick" /\ node \in Nat /\ node' = node + 1 /\ ~Unresolved(node)
      /\ UNCHANGED <<edges, alive, dom, conf, defaults, pick>>
  BY <1>1 DEF PassOver, pickVars, TypeOK
<1>3. Untouched' /\ NoSelfLoop' /\ NeverGuesses' /\ ForcedAreEvents'
  BY <1>2 DEF SolverInv, Untouched, NoSelfLoop, NeverGuesses, ForcedAreEvents, Undefaulted,
              Satisfies, Unresolved
<1>4. PicksBehind'
  BY <1>2 DEF SolverInv, PicksBehind, Unresolved, Nodes
<1>5. PinnedInTable'
  BY <1>2 DEF SolverInv, PinnedInTable, Pinned, InTable, EffType, Unresolved
<1> QED
  BY <1>1, <1>3, <1>4, <1>5 DEF SolverInv

LEMMA TryKindInv == SolverInv /\ TryKind => SolverInv'
<1> SUFFICES ASSUME SolverInv, TryKind PROVE SolverInv'
  OBVIOUS
<1> DEFINE k == NextToTry(node, Untried(node))
<1>1. TypeOK /\ TypeOK'
  BY TypeStep DEF SolverInv, Next, Pick
<1>2. /\ pc = "pick" /\ pc' = "pick" /\ node \in Nodes /\ node \in Nat /\ Unresolved(node)
      /\ UNCHANGED <<edges, alive, dom, conf, defaults>>
  BY <1>1 DEF TryKind, Searching, TypeOK, Nodes
<1>3. k \in dom[node] /\ k \in Kinds /\ k # None
  <2>1. Untried(node) \in SUBSET Kinds /\ Untried(node) # {} /\ Untried(node) \subseteq dom[node]
    BY <1>1, <1>2 DEF TryKind, TypeOK, Untried
  <2>2. k \in Untried(node)
    BY <2>1, NextToTryIsOne
  <2> QED
    BY <2>1, <2>2 DEF Kinds, None
<1>4. Untouched' /\ NoSelfLoop' /\ NeverGuesses' /\ ForcedAreEvents'
  BY <1>2 DEF SolverInv, Untouched, NoSelfLoop, NeverGuesses, ForcedAreEvents, Undefaulted,
              Satisfies, Unresolved
<1>5. CASE ~Consistent(node, k)
  <2>1. pick' = pick /\ node' = node
    BY <1>5 DEF TryKind
  <2>2. PicksBehind' /\ PinnedInTable'
    BY <1>2, <2>1 DEF SolverInv, PicksBehind, PinnedInTable, Pinned, InTable, EffType, Unresolved
  <2> QED
    BY <1>1, <1>4, <2>2 DEF SolverInv
<1>6. CASE Consistent(node, k)
  <2>1. pick' = [pick EXCEPT ![node] = k] /\ node' = node + 1
    BY <1>6 DEF TryKind
  <2>2. PICK here \in Nodes : here = node
    BY <1>2
  <2>3. PICK kind \in Kinds : kind = k
    BY <1>3
  <2> HIDE DEF k
  <2>4. \A i \in Nodes : pick'[i] = IF i = here THEN kind ELSE pick[i]
    BY <1>1, <1>2, <2>2, <2>3, <2>1 DEF TypeOK
  <2>5. PicksBehind'
    BY <1>2, <1>3, <2>2, <2>3, <2>1, <2>4 DEF SolverInv, PicksBehind, Unresolved, Nodes
  <2>6. /\ EffType(here)' = kind
        /\ \A i \in Nodes \ {here} : EffType(i)' = EffType(i) /\ (Pinned(i)' <=> Pinned(i))
    BY <1>2, <1>3, <2>2, <2>3, <2>4 DEF EffType, Pinned, Unresolved
  <2>7. ASSUME NEW n \in alive, Pinned(edges[n].src)', Pinned(edges[n].tgt)'
        PROVE  InTable(n)'
    <3>1. edges[n].src \in Nodes /\ edges[n].tgt \in Nodes /\ edges[n].src # edges[n].tgt
      BY <1>1, <1>2, EndsAreNodes DEF SolverInv, NoSelfLoop
    <3>2. CASE edges[n].src # here /\ edges[n].tgt # here
      BY <1>2, <2>6, <2>7, <3>1, <3>2 DEF SolverInv, PinnedInTable, InTable
    <3>3. CASE edges[n].src = here
      <4>1. n \in IncidentTo(here) /\ Other(n, here) = edges[n].tgt /\ Pinned(edges[n].tgt)
        <5>1. n \in IncidentTo(here) /\ Other(n, here) = edges[n].tgt
          BY <3>1, <3>3 DEF IncidentTo, Other
        <5>2. edges[n].tgt \in Nodes \ {here} /\ Pinned(edges[n].tgt)'
          BY <1>2, <2>7, <3>1, <3>3
        <5> QED
          BY <1>2, <2>6, <5>1, <5>2 DEF Pinned, Unresolved
      <4>2. Fits(edges[n], here, kind, EffType(edges[n].tgt))
        BY <1>2, <1>6, <2>2, <2>3, <4>1, ConsistentFits
      <4> QED
        BY <1>2, <2>6, <3>1, <3>3, <4>2 DEF InTable, Fits
    <3>4. CASE edges[n].tgt = here
      <4>1. n \in IncidentTo(here) /\ Other(n, here) = edges[n].src /\ Pinned(edges[n].src)
        <5>1. n \in IncidentTo(here) /\ Other(n, here) = edges[n].src
          BY <3>1, <3>4 DEF IncidentTo, Other
        <5>2. edges[n].src \in Nodes \ {here} /\ Pinned(edges[n].src)'
          BY <1>2, <2>7, <3>1, <3>4
        <5> QED
          BY <1>2, <2>6, <5>1, <5>2 DEF Pinned, Unresolved
      <4>2. Fits(edges[n], here, kind, EffType(edges[n].src))
        BY <1>2, <1>6, <2>2, <2>3, <4>1, ConsistentFits
      <4> QED
        BY <1>2, <2>6, <3>1, <3>4, <4>2 DEF InTable, Fits
    <3> QED
      BY <3>2, <3>3, <3>4
  <2>8. PinnedInTable'
    BY <1>2, <2>7 DEF PinnedInTable
  <2> QED
    BY <1>1, <1>4, <2>5, <2>8 DEF SolverInv
<1> QED
  BY <1>5, <1>6

LEMMA RetreatInv == SolverInv /\ Retreat => SolverInv'
<1> SUFFICES ASSUME SolverInv, Retreat PROVE SolverInv'
  OBVIOUS
<1> DEFINE before == {i \in 1 .. node - 1 : Unresolved(i)}
           last   == CHOOSE i \in before : \A j \in before : j <= i
<1>1. TypeOK /\ TypeOK'
  BY TypeStep DEF SolverInv, Next, Pick
<1>2. /\ pc = "pick" /\ node \in Nodes /\ node \in Nat /\ node <= NumNodes
      /\ UNCHANGED <<edges, alive, dom, conf, defaults>>
  BY <1>1 DEF Retreat, Searching, TypeOK, Nodes
<1>3. before # {} => last \in before /\ \A j \in before : j <= last
  BY <1>1, <1>2, LastBefore
<1>4. /\ pc' = IF before = {} THEN "defaults" ELSE pc
      /\ node' = IF before = {} THEN node ELSE last
      /\ pick' = IF before = {} THEN pick ELSE [pick EXCEPT ![last] = None]
  BY DEF Retreat
<1>5. \A i \in Nodes : i < node /\ Unresolved(i) <=> i \in before
  BY <1>2 DEF Nodes
<1>6. before \subseteq Nodes
  BY <1>2, NodesAssumption DEF Nodes
<1> HIDE DEF before, last
<1>7. Untouched' /\ NoSelfLoop' /\ NeverGuesses' /\ ForcedAreEvents'
  BY <1>2, <1>4 DEF SolverInv, Untouched, NoSelfLoop, NeverGuesses, ForcedAreEvents, Undefaulted,
                    Satisfies, Unresolved
<1>8. CASE before = {}
  <2>1. pc' = "defaults" /\ pick' = pick
    BY <1>4, <1>8
  <2>2. \A i \in Nodes : pick[i] = None
    BY <1>2, <1>5, <1>8 DEF SolverInv, PicksBehind
  <2>3. \A i \in Nodes : EffType(i)' = "Event"
    <3>1. \A i \in Nodes : "Event" \in dom[i]
      BY <1>1, <1>2, EventStays DEF SolverInv, Undefaulted
    <3> QED
      BY <1>2, <2>1, <2>2, <3>1 DEF EffType, FirstKind
  <2>4. PinnedInTable'
    BY <1>1, <1>2, <2>1, <2>3, EndsAreNodes, EventsFit DEF PinnedInTable, InTable
  <2>5. PicksBehind'
    BY <1>2, <2>1, <2>2 DEF PicksBehind
  <2> QED
    BY <1>1, <1>7, <2>4, <2>5 DEF SolverInv
<1>9. CASE before # {}
  <2>1. /\ pc' = "pick" /\ node' = last /\ last \in Nodes /\ last \in Nat /\ last < node
        /\ Unresolved(last) /\ \A j \in before : j <= last
    <3>1. last \in before /\ last \in Nodes /\ \A j \in before : j <= last
      BY <1>3, <1>6, <1>9
    <3>2. last < node /\ Unresolved(last)
      BY <1>5, <3>1
    <3> QED
      BY <1>2, <1>4, <1>9, <3>1, <3>2 DEF Nodes
  <2>2. PICK l \in Nodes : l = last
    BY <2>1
  <2>3. \A i \in Nodes : pick'[i] = IF i = l THEN None ELSE pick[i]
    BY <1>1, <1>4, <1>9, <2>1, <2>2 DEF TypeOK
  <2>4. PicksBehind'
    <3> SUFFICES ASSUME NEW i \in Nodes
                 PROVE  /\ pick'[i] # None => Unresolved(i)' /\ pick'[i] \in dom'[i]
                        /\ IF i < node' THEN Unresolved(i)' => pick'[i] # None
                                        ELSE pick'[i] = None
      BY <2>1 DEF PicksBehind
    <3>1. Unresolved(i)' = Unresolved(i) /\ dom'[i] = dom[i] /\ i \in Nat
      BY <1>2 DEF Unresolved, Nodes
    <3>2. pick'[i] # None => Unresolved(i)' /\ pick'[i] \in dom'[i]
      BY <1>2, <2>3, <3>1 DEF SolverInv, PicksBehind
    <3>3. i < l /\ Unresolved(i) => pick'[i] # None
      BY <1>2, <2>1, <2>3, <2>2, <3>1 DEF SolverInv, PicksBehind
    <3>4. ASSUME l < i PROVE pick'[i] = None
      <4>1. CASE i < node
        <5>1. ~Unresolved(i)
          BY <1>5, <2>1, <2>2, <3>1, <3>4, <4>1
        <5> QED
          BY <1>2, <2>3, <5>1 DEF SolverInv, PicksBehind
      <4>2. CASE ~(i < node)
        BY <1>2, <2>3, <4>2 DEF SolverInv, PicksBehind
      <4> QED
        BY <4>1, <4>2
    <3> QED
      BY <2>1, <2>3, <2>2, <3>1, <3>2, <3>3, <3>4
  <2>5. /\ ~Pinned(l)'
        /\ \A i \in Nodes \ {l} : EffType(i)' = EffType(i) /\ (Pinned(i)' <=> Pinned(i))
    BY <1>2, <2>1, <2>3, <2>2 DEF EffType, Pinned, Unresolved
  <2>6. ASSUME NEW n \in alive, Pinned(edges[n].src)', Pinned(edges[n].tgt)'
        PROVE  InTable(n)'
    <3>1. edges[n].src \in Nodes \ {l} /\ edges[n].tgt \in Nodes \ {l}
      <4>1. edges[n].src \in Nodes /\ edges[n].tgt \in Nodes
        BY <1>1, EndsAreNodes
      <4> QED
        BY <1>2, <2>5, <2>6, <4>1 DEF Pinned, Unresolved
    <3> QED
      BY <1>2, <2>5, <2>6, <3>1 DEF SolverInv, PinnedInTable, InTable
  <2>7. PinnedInTable'
    BY <1>2, <2>1, <2>6 DEF PinnedInTable
  <2> QED
    BY <1>1, <1>7, <2>4, <2>7 DEF SolverInv
<1> QED
  BY <1>8, <1>9

LEMMA PickedInv == SolverInv /\ Picked => SolverInv'
<1> SUFFICES ASSUME SolverInv, Picked PROVE SolverInv'
  OBVIOUS
<1>1. TypeOK /\ TypeOK'
  BY TypeStep DEF SolverInv, Next, Pick
<1>2. /\ pc = "pick" /\ pc' = "defaults" /\ \A i \in Nodes : i < node
      /\ UNCHANGED <<edges, alive, dom, conf, defaults, pick>>
  BY <1>1, NodesAssumption DEF Picked, pickVars, TypeOK, Nodes
<1>3. Untouched' /\ NoSelfLoop' /\ NeverGuesses' /\ ForcedAreEvents' /\ PicksBehind'
  BY <1>2 DEF SolverInv, Untouched, NoSelfLoop, NeverGuesses, ForcedAreEvents, PicksBehind,
              Undefaulted, Satisfies, Unresolved
<1>4. \A i \in Nodes : Pinned(i)
  BY <1>2 DEF SolverInv, PicksBehind, Pinned
<1>5. \A n \in alive : InTable(n)
  BY <1>1, <1>2, <1>4, EndsAreNodes DEF SolverInv, PinnedInTable
<1>6. PinnedInTable'
  BY <1>2, <1>5 DEF PinnedInTable, InTable, EffType, Unresolved
<1> QED
  BY <1>1, <1>3, <1>6 DEF SolverInv

(* ---------------------------------------------------------------------- *)
(* The rest. *)

LEMMA DefaultsInv == SolverInv /\ ApplyDefaults => SolverInv'
<1> SUFFICES ASSUME SolverInv, ApplyDefaults PROVE SolverInv'
  OBVIOUS
<1>1. TypeOK /\ TypeOK'
  BY TypeStep DEF SolverInv, Next
<1>2. pc = "defaults" /\ pc' = "drop" /\ UNCHANGED <<edges, alive, defaults, pick>>
  BY DEF ApplyDefaults, pickVars
<1>3. ~defaults => dom' = dom /\ conf' = conf
  BY DEF ApplyDefaults
<1>4. Untouched' /\ NoSelfLoop' /\ PicksBehind'
  BY <1>2 DEF SolverInv, Untouched, NoSelfLoop, PicksBehind
<1>5. NeverGuesses' /\ ForcedAreEvents'
  BY <1>2, <1>3 DEF SolverInv, NeverGuesses, ForcedAreEvents, Undefaulted, Satisfies, Unresolved
<1>6. \A i \in Nodes : EffType(i)' = EffType(i)
  <2>1. CASE ~defaults
    BY <1>2, <1>3, <2>1 DEF EffType, Unresolved
  <2>2. CASE defaults
    <3> SUFFICES ASSUME NEW i \in Nodes PROVE EffType(i)' = EffType(i)
      OBVIOUS
    <3>1. EffType(i) \in Kinds
      BY <1>1 DEF EffType, FirstKind, TypeOK, Kinds
    <3>2. dom'[i] = {EffType(i)} /\ ~Unresolved(i)'
      BY <2>2 DEF ApplyDefaults, Unresolved
    <3>3. EffType(i)' = FirstKind(dom'[i])
      BY <3>2 DEF EffType
    <3> QED
      BY <3>1, <3>2, <3>3 DEF FirstKind, Kinds
  <2> QED
    BY <2>1, <2>2
<1>7. PinnedInTable'
  BY <1>1, <1>2, <1>6, EndsAreNodes DEF SolverInv, PinnedInTable, InTable
<1> QED
  BY <1>1, <1>4, <1>5, <1>7 DEF SolverInv

LEMMA CyclesInv == SolverInv /\ (DropInvalidEdges \/ Search) => SolverInv'
<1> SUFFICES ASSUME SolverInv, DropInvalidEdges \/ Search PROVE SolverInv'
  OBVIOUS
<1>1. TypeOK'
  BY TypeStep DEF SolverInv, Next
<1>2. pc \in {"drop", "cycles"} /\ pc' \in {"cycles", "done"} /\ edges' = edges /\ alive' \subseteq alive
  BY DEF DropInvalidEdges, Search, Root, CutBackEdge, Descend, KeepCrossEdge, Return, Acyclic,
         InCycles
<1>3. Untouched' /\ NoSelfLoop'
  BY <1>2 DEF SolverInv, Untouched, NoSelfLoop
<1>4. NeverGuesses' /\ ForcedAreEvents' /\ PicksBehind' /\ PinnedInTable'
  BY <1>2 DEF NeverGuesses, ForcedAreEvents, PicksBehind, PinnedInTable, Undefaulted
<1> QED
  BY <1>1, <1>3, <1>4 DEF SolverInv

\* A stuttering step changes none of the variables the invariant is about.
LEMMA StutterInv == SolverInv /\ UNCHANGED vars => SolverInv'
<1> SUFFICES ASSUME SolverInv, UNCHANGED vars PROVE SolverInv'
  OBVIOUS
<1>1. TypeOK'
  BY TypeStep DEF SolverInv
<1>2. UNCHANGED <<pc, edges, alive, dom, conf, defaults, node, pick>>
  BY DEF vars, pickVars
<1>3. Untouched' /\ NoSelfLoop' /\ NeverGuesses' /\ ForcedAreEvents' /\ PicksBehind'
  BY <1>2 DEF SolverInv, Untouched, NoSelfLoop, NeverGuesses, ForcedAreEvents, PicksBehind,
              Undefaulted, Satisfies, Unresolved
<1>4. PinnedInTable'
  BY <1>2 DEF SolverInv, PinnedInTable, Pinned, InTable, EffType, Unresolved
<1> QED
  BY <1>1, <1>3, <1>4 DEF SolverInv

(***************************************************************************)
(* The inductive invariant holds of the solver.                            *)
(***************************************************************************)
THEOREM SolverInvariant == Spec => []SolverInv
<1>1. SolverInv /\ [Next]_vars => SolverInv'
  BY DedupeInv, VisitInv, PassesInv, PassOverInv, TryKindInv, RetreatInv, PickedInv,
     DefaultsInv, CyclesInv, StutterInv DEF Next, Order, Pick
<1> QED
  BY InitInv, <1>1, PTL DEF Spec

(***************************************************************************)
(* The variables of the solver keep their types, for every graph.          *)
(***************************************************************************)
THEOREM TypeCorrect == Spec => []TypeOK
<1>1. SolverInv => TypeOK
  BY DEF SolverInv
<1> QED
  BY <1>1, SolverInvariant, PTL

(***************************************************************************)
(* The solver never guesses: whatever the graph, a kind that some typing   *)
(* of the whole graph gives to a node stays among its candidates.          *)
(***************************************************************************)
THEOREM TheSolverNeverGuesses == Spec => []NeverGuesses
<1>1. SolverInv => NeverGuesses
  BY DEF SolverInv
<1> QED
  BY <1>1, SolverInvariant, PTL

(***************************************************************************)
(* The safety net drops nothing: at the end of the search, whether it      *)
(* found a typing or not, every edge is inside the table.                  *)
(***************************************************************************)
THEOREM SafetyNetCatchesNothing == Spec => NothingInvalid
<1>1. SolverInv /\ [Next]_vars => (pc = "drop" => alive' = alive)
  <2> SUFFICES ASSUME SolverInv, [Next]_vars, pc = "drop" PROVE alive' = alive
    OBVIOUS
  <2>1. DropInvalidEdges \/ UNCHANGED vars
    BY DEF Next, Order, Pick, Search, Dedupe, VisitNode, NextPass, LastPass, PassOver, TryKind,
           Retreat, Picked, Searching, ApplyDefaults, Root, CutBackEdge, Descend, KeepCrossEdge,
           Return, Acyclic, InCycles
  <2>2. CASE DropInvalidEdges
    <3>1. \A n \in alive : TypePairValid(edges[n].link, EffType(edges[n].src), EffType(edges[n].tgt))
      BY DEF SolverInv, PinnedInTable, InTable
    <3> QED
      BY <2>2, <3>1 DEF DropInvalidEdges
  <2>3. CASE UNCHANGED vars
    BY <2>3 DEF vars
  <2> QED
    BY <2>1, <2>2, <2>3
<1> QED
  BY <1>1, SolverInvariant, PTL DEF Spec, NothingInvalid

(* ---------------------------------------------------------------------- *)
(* Pruning that has settled. *)

\* All-Event is a typing of every graph.
LEMMA AllEventIsATyping ==
  ASSUME TypeOK
  PROVE  [i \in Nodes |-> "Event"] \in Typings
<1>1. [i \in Nodes |-> "Event"] \in [Nodes -> Kinds]
  BY DEF Kinds
<1>2. Satisfies([i \in Nodes |-> "Event"])
  BY EndsAreNodes, EventsFit DEF Satisfies
<1> QED
  BY <1>1, <1>2 DEF Typings

\* Event is valid everywhere, so a node that is not pruned has nothing to lose.
LEMMA UnprunedIsValid ==
  ASSUME SolverInv, pc = "order", NEW i \in Nodes,
         ~ (Unresolved(i) /\ Valid(i) # {} /\ Valid(i) # dom[i])
  PROVE  Valid(i) = dom[i]
<1> DEFINE a == [j \in Nodes |-> "Event"]
<1>1. TypeOK /\ Undefaulted
  BY DEF SolverInv, Undefaulted
<1>2. a \in [Nodes -> Kinds] /\ Satisfies(a) /\ \A j \in Nodes : a[j] \in dom[j]
  BY <1>1, AllEventIsATyping DEF Typings, SolverInv, NeverGuesses
<1> HIDE DEF a
<1>3. a[i] \in Valid(i)
  BY <1>1, <1>2, TypingsAreValid
<1>4. CASE Unresolved(i)
  BY <1>3, <1>4
<1>5. CASE ~Unresolved(i)
  <2>1. dom[i] = {"Event"}
    BY <1>1, <1>5 DEF SolverInv, ForcedAreEvents
  <2> QED
    BY <1>3, <2>1 DEF Valid
<1> QED
  BY <1>4, <1>5

LEMMA SettledInit == Init => SettledInv
<1> SUFFICES ASSUME Init PROVE SettledInv
  OBVIOUS
<1> QED
  BY DEF Init, SettledInv

LEMMA SettledStep == SolverInv /\ SettledInv /\ [Next]_vars => SettledInv'
<1> SUFFICES ASSUME SolverInv, SettledInv, [Next]_vars PROVE SettledInv'
  OBVIOUS
<1>1. TypeOK
  BY DEF SolverInv
<1>2. CASE Dedupe
  <2>1. node = 1 /\ node' = node /\ pc' = "order"
    BY <1>2 DEF SolverInv, Untouched, Dedupe
  <2> QED
    BY <2>1 DEF SettledInv, Nodes
<1>3. CASE VisitNode
  <2> SUFFICES ASSUME ~changed', NEW i \in Nodes, i < node' PROVE Valid(i)' = dom'[i]
    BY <1>3 DEF SettledInv, VisitNode
  <2> DEFINE prunes == Unresolved(node) /\ Valid(node) # {} /\ Valid(node) # dom[node]
  <2>0. /\ changed' = (changed \/ prunes)
        /\ dom' = IF prunes THEN [dom EXCEPT ![node] = Valid(node)] ELSE dom
    BY <1>3 DEF VisitNode
  <2> HIDE DEF prunes
  <2>9. ~changed /\ ~prunes /\ dom' = dom
    BY <2>0, Zenon
  <2>1. /\ pc = "order" /\ node' = node + 1 /\ UNCHANGED <<edges, alive>>
        /\ node \in Nodes /\ node \in Nat /\ ~changed /\ dom' = dom
        /\ ~ (Unresolved(node) /\ Valid(node) # {} /\ Valid(node) # dom[node])
    BY <1>1, <1>3, <2>9 DEF VisitNode, TypeOK, Nodes, prunes
  <2>2. Valid(i)' = Valid(i)
    BY <2>1 DEF Valid, CandidateValidates, IncidentTo, Other
  <2>3. Valid(node) = dom[node]
    BY <2>1, UnprunedIsValid
  <2>4. i < node \/ i = node
    BY <2>1 DEF Nodes
  <2> QED
    BY <2>1, <2>2, <2>3, <2>4 DEF SettledInv
<1>4. CASE NextPass
  BY <1>4 DEF NextPass, SettledInv, Nodes
<1>5. CASE LastPass
  <2>1. /\ pc = "order" /\ pc' = "pick" /\ UNCHANGED <<edges, alive, dom, changed>>
        /\ \A i \in Nodes : i < node
    BY <1>1, <1>5, NodesAssumption DEF LastPass, orderVars, TypeOK, Nodes
  <2>2. \A i \in Nodes : Valid(i)' = Valid(i)
    BY <2>1 DEF Valid, CandidateValidates, IncidentTo, Other
  <2> QED
    BY <2>1, <2>2 DEF SettledInv
<1>6. CASE Pick \/ UNCHANGED vars
  <2>1. UNCHANGED <<edges, alive, dom, changed>> /\ (pc' = pc \/ pc' = "defaults") /\ (pc # "pick" => node' = node)
    BY <1>6 DEF Pick, PassOver, TryKind, Retreat, Picked, Searching, orderVars, vars
  <2>2. \A i \in Nodes : Valid(i)' = Valid(i)
    BY <2>1 DEF Valid, CandidateValidates, IncidentTo, Other
  <2> QED
    BY <2>1, <2>2 DEF SettledInv
<1>7. CASE ApplyDefaults \/ DropInvalidEdges \/ Search
  <2>1. pc' # "order" /\ pc' # "pick"
    BY <1>7 DEF ApplyDefaults, DropInvalidEdges, Search, Root, CutBackEdge, Descend, KeepCrossEdge,
           Return, Acyclic, InCycles
  <2> QED
    BY <2>1 DEF SettledInv
<1> QED
  BY <1>2, <1>3, <1>4, <1>5, <1>6, <1>7 DEF Next, Order

\* The table, kind by kind.
LEMMA TheTable ==
  \A s, t \in Kinds :
    /\ TypePairValid("LeadsTo", s, t) <=> s = "Event" /\ t = "Event"
    /\ TypePairValid("PartOf", s, t) <=> s # "Concept" /\ t # "Concept" /\ (t = "Thing" => s = "Thing")
    /\ TypePairValid("Expresses", s, t) <=> t = "Concept" \/ (s = "Event" /\ t = "Event")
    /\ TypePairValid("NearTo", s, t) <=> s = t
BY DEF TypePairValid, Kinds

\* Two typings that use what is left: every node the first of three kinds that it may be.
Greatest(first, second) ==
  [i \in Nodes |-> IF first \in dom[i] THEN first ELSE IF second \in dom[i] THEN second ELSE "Event"]

\* Candidates that are all valid go together: the highest everywhere is a typing.
LEMMA GreatestIsATyping ==
  ASSUME SolverInv, pc = "pick", \A i \in Nodes : Valid(i) = dom[i],
         NEW first \in {"Thing", "Concept"}, NEW second \in {"Thing", "Concept"}, first # second
  PROVE  Greatest(first, second) \in Typings
<1> DEFINE a == Greatest(first, second)
<1>1. TypeOK /\ \A i \in Nodes : "Event" \in dom[i] /\ dom[i] \subseteq Kinds
  BY EventStays DEF SolverInv, Undefaulted, TypeOK
<1>2. a \in [Nodes -> Kinds]
  BY DEF Greatest, Kinds
<1>3. \A i \in Nodes : a[i] = IF first \in dom[i] THEN first ELSE IF second \in dom[i] THEN second ELSE "Event"
  BY DEF Greatest
<1> HIDE DEF a
<1>4. ASSUME NEW n \in alive PROVE TypePairValid(edges[n].link, a[edges[n].src], a[edges[n].tgt])
  <2> DEFINE s == edges[n].src
             t == edges[n].tgt
             l == edges[n].link
  <2>1. s \in Nodes /\ t \in Nodes /\ l \in Links /\ s # t
    BY <1>1, EndsAreNodes DEF SolverInv, NoSelfLoop
  <2>2. \A k \in dom[s] : \E o \in dom[t] : TypePairValid(l, k, o)
    <3>1. n \in IncidentTo(s) /\ Other(n, s) = t
      BY <2>1 DEF IncidentTo, Other
    <3> QED
      BY <2>1, <3>1 DEF Valid, CandidateValidates, Fits
  <2>3. \A k \in dom[t] : \E o \in dom[s] : TypePairValid(l, o, k)
    <3>1. n \in IncidentTo(t) /\ Other(n, t) = s
      BY <2>1 DEF IncidentTo, Other
    <3> QED
      BY <2>1, <3>1 DEF Valid, CandidateValidates, Fits
  <2>4. /\ "Event" \in dom[s] /\ "Event" \in dom[t] /\ dom[s] \subseteq Kinds /\ dom[t] \subseteq Kinds
        /\ a[s] = IF first \in dom[s] THEN first ELSE IF second \in dom[s] THEN second ELSE "Event"
        /\ a[t] = IF first \in dom[t] THEN first ELSE IF second \in dom[t] THEN second ELSE "Event"
    BY <1>1, <1>3, <2>1
  <2> SUFFICES TypePairValid(l, a[s], a[t])
    OBVIOUS
  <2> HIDE DEF s, t, l
  <2>5. CASE l = "LeadsTo"
    <3>1. dom[s] = {"Event"} /\ dom[t] = {"Event"}
      BY <2>2, <2>3, <2>4, <2>5, TheTable
    <3> QED
      BY <2>4, <2>5, <3>1, TheTable DEF Kinds
  <2>6. CASE l = "PartOf"
    <3>1. "Concept" \notin dom[s] /\ "Concept" \notin dom[t] /\ ("Thing" \in dom[t] => "Thing" \in dom[s])
      BY <2>2, <2>3, <2>4, <2>6, TheTable DEF Kinds
    <3> QED
      BY <2>4, <2>6, <3>1, TheTable DEF Kinds
  <2>7. CASE l = "Expresses"
    <3>1. "Thing" \notin dom[t] /\ ("Concept" \in dom[t] \/ dom[s] = {"Event"})
      BY <2>2, <2>3, <2>4, <2>7, TheTable DEF Kinds
    <3> QED
      BY <2>4, <2>7, <3>1, TheTable DEF Kinds
  <2>8. CASE l = "NearTo"
    <3>1. \A k \in Kinds : k \in dom[s] <=> k \in dom[t]
      BY <2>2, <2>3, <2>4, <2>8, TheTable
    <3> QED
      BY <2>4, <2>8, <3>1, TheTable DEF Kinds
  <2> QED
    BY <2>1, <2>5, <2>6, <2>7, <2>8 DEF Links
<1> QED
  BY <1>2, <1>4 DEF Typings, Satisfies, a

(***************************************************************************)
(* Once a pass has changed nothing, the pruning is exact, in every graph:  *)
(* each candidate of a node is its kind in some typing of the whole graph. *)
(***************************************************************************)
THEOREM SettledPruningIsExact == Spec => [](pc = "pick" /\ ~changed => Exact)
<1>1. SolverInv /\ SettledInv => (pc = "pick" /\ ~changed => Exact)
  <2> SUFFICES ASSUME SolverInv, SettledInv, pc = "pick", ~changed, NEW i \in Nodes, NEW k \in dom[i]
               PROVE  \E a \in Typings : a[i] = k
    BY DEF Exact
  <2>1. \A j \in Nodes : Valid(j) = dom[j]
    BY DEF SettledInv
  <2>2. CASE k = "Event"
    BY <2>2, AllEventIsATyping DEF SolverInv
  <2>3. CASE k \in {"Thing", "Concept"}
    <3>1. PICK o \in {"Thing", "Concept"} : o # k
      OBVIOUS
    <3>2. Greatest(k, o) \in Typings
      BY <2>1, <2>3, <3>1, GreatestIsATyping
    <3> QED
      BY <3>2 DEF Greatest
  <2> QED
    BY <2>2, <2>3 DEF SolverInv, TypeOK, Kinds
<1> QED
  BY SettledInit, SettledStep, <1>1, SolverInvariant, PTL DEF Spec

(* ---------------------------------------------------------------------- *)
(* The passes are enough. *)

\* What a typing gives a node is not pruned from it.
LEMMA KeptIsValid ==
  ASSUME SolverInv, pc = "order", NEW k \in Kinds, NEW i \in Keeps(k)
  PROVE  i \in Nodes /\ k \in dom[i] /\ CandidateValidates(i, k)
<1>1. PICK a \in Typings : i \in Nodes /\ a[i] = k
  BY DEF Keeps
<1>2. TypeOK /\ Satisfies(a) /\ a \in [Nodes -> Kinds] /\ \A j \in Nodes : a[j] \in dom[j]
  BY DEF Typings, SolverInv, NeverGuesses, Undefaulted
<1>3. a[i] \in Valid(i)
  BY <1>1, <1>2, TypingsAreValid
<1> QED
  BY <1>1, <1>3 DEF Valid

\* The kinds that edges carry a loss of, from one end to the other: in all typings,
LEMMA ConceptsThatStay ==
  ASSUME TypeOK, NEW n \in alive, NEW s, NEW t, s = edges[n].src, t = edges[n].tgt
  PROVE  /\ edges[n].link \in {"LeadsTo", "PartOf"} => s \notin Keeps("Concept") /\ t \notin Keeps("Concept")
         /\ edges[n].link = "Expresses" /\ s \in Keeps("Concept") => t \in Keeps("Concept")
         /\ edges[n].link = "NearTo" => (s \in Keeps("Concept") <=> t \in Keeps("Concept"))
<1>1. s \in Nodes /\ t \in Nodes
  BY EndsAreNodes
<1>2. \A a \in Typings : a[s] \in Kinds /\ a[t] \in Kinds /\ TypePairValid(edges[n].link, a[s], a[t])
  BY <1>1 DEF Typings, Satisfies
<1>3. \A i \in Nodes : i \in Keeps("Concept") <=> \E a \in Typings : a[i] = "Concept"
  BY DEF Keeps
<1>4. CASE edges[n].link \in {"LeadsTo", "PartOf"}
  BY <1>1, <1>2, <1>3, <1>4, TheTable DEF Kinds
<1>5. CASE edges[n].link = "Expresses"
  BY <1>1, <1>2, <1>3, <1>5, TheTable DEF Kinds
<1>6. CASE edges[n].link = "NearTo"
  BY <1>1, <1>2, <1>3, <1>6, TheTable DEF Kinds
<1> QED
  BY <1>4, <1>5, <1>6

\* in those of things,
LEMMA ThingsThatStay ==
  ASSUME TypeOK, NEW n \in alive, NEW s, NEW t, s = edges[n].src, t = edges[n].tgt
  PROVE  /\ edges[n].link = "LeadsTo" => s \notin Spared /\ t \notin Spared
         /\ edges[n].link = "PartOf" /\ t \in Spared => s \in Spared
         /\ edges[n].link = "Expresses" => t \notin Spared
         /\ edges[n].link = "NearTo" => (s \in Spared <=> t \in Spared)
<1>1. s \in Nodes /\ t \in Nodes
  BY EndsAreNodes
<1>2. \A a \in ThingTypings :
        /\ a[s] \in Kinds /\ a[t] \in Kinds
        /\ IF edges[n].link = "Expresses" THEN a[t] # "Thing" ELSE TypePairValid(edges[n].link, a[s], a[t])
  BY <1>1 DEF ThingTypings
<1>3. \A i \in Nodes : i \in Spared <=> \E a \in ThingTypings : a[i] = "Thing"
  BY DEF Spared
<1>4. CASE edges[n].link = "LeadsTo"
  BY <1>1, <1>2, <1>3, <1>4, TheTable DEF Kinds
<1>5. CASE edges[n].link = "PartOf"
  BY <1>1, <1>2, <1>3, <1>5, TheTable DEF Kinds
<1>6. CASE edges[n].link = "Expresses"
  BY <1>1, <1>2, <1>3, <1>6
<1>7. CASE edges[n].link = "NearTo"
  BY <1>1, <1>2, <1>3, <1>7, TheTable DEF Kinds
<1> QED
  BY <1>4, <1>5, <1>6, <1>7

\* and in the candidates: what a node that is not pruned finds at the other end.
LEMMA ValidEnds ==
  ASSUME SolverInv, pc = "order", NEW n \in alive, NEW s, NEW t, s = edges[n].src, t = edges[n].tgt, NEW k \in Kinds
  PROVE  /\ CandidateValidates(s, k) => \E o \in dom[t] : TypePairValid(edges[n].link, k, o)
         /\ CandidateValidates(t, k) => \E o \in dom[s] : TypePairValid(edges[n].link, o, k)
         /\ dom[s] \subseteq Kinds /\ dom[t] \subseteq Kinds
<1>1. s \in Nodes /\ t \in Nodes /\ s # t /\ TypeOK
  BY EndsAreNodes DEF SolverInv, NoSelfLoop
<1>2. n \in IncidentTo(s) /\ Other(n, s) = t /\ n \in IncidentTo(t) /\ Other(n, t) = s
  BY <1>1 DEF IncidentTo, Other
<1> QED
  BY <1>1, <1>2 DEF CandidateValidates, Fits, TypeOK

\* As long as a struck node is a thing, one is in want of things around it.
LEMMA SomeStruckLoses ==
  ASSUME SolverInv, pc = "order", \A i \in Struck : "Thing" \in dom[i] => CandidateValidates(i, "Thing")
  PROVE  \A i \in Struck : "Thing" \notin dom[i]
<1> DEFINE things == Spared \cup {i \in Nodes : "Thing" \in dom[i]}
           a == [i \in Nodes |-> IF i \in things THEN "Thing" ELSE "Event"]
<1>1. TypeOK /\ a \in [Nodes -> Kinds] /\ \A i \in Nodes : a[i] = IF i \in things THEN "Thing" ELSE "Event"
  BY DEF SolverInv, Kinds
<1>2. ASSUME NEW n \in alive
      PROVE  IF edges[n].link = "Expresses" THEN a[edges[n].tgt] # "Thing"
             ELSE TypePairValid(edges[n].link, a[edges[n].src], a[edges[n].tgt])
  <2>1. PICK s, t : s = edges[n].src /\ t = edges[n].tgt
    OBVIOUS
  <2>2. s \in Nodes /\ t \in Nodes /\ edges[n].link \in Links
    BY <1>1, <2>1, EndsAreNodes
  <2>3. /\ edges[n].link = "LeadsTo" => s \notin Spared /\ t \notin Spared
        /\ edges[n].link = "PartOf" /\ t \in Spared => s \in Spared
        /\ edges[n].link = "Expresses" => t \notin Spared
        /\ edges[n].link = "NearTo" => (s \in Spared <=> t \in Spared)
    BY <1>1, <2>1, ThingsThatStay
  <2>4. /\ CandidateValidates(s, "Thing") => \E o \in dom[t] : TypePairValid(edges[n].link, "Thing", o)
        /\ CandidateValidates(t, "Thing") => \E o \in dom[s] : TypePairValid(edges[n].link, o, "Thing")
        /\ dom[s] \subseteq Kinds /\ dom[t] \subseteq Kinds
    BY <2>1, ValidEnds DEF Kinds
  <2>5. /\ s \in things \ Spared => "Thing" \in dom[s] /\ CandidateValidates(s, "Thing")
        /\ t \in things \ Spared => "Thing" \in dom[t] /\ CandidateValidates(t, "Thing")
    BY <2>2 DEF Struck
  <2>6. /\ edges[n].link = "LeadsTo" => s \notin things /\ t \notin things
        /\ edges[n].link = "PartOf" /\ t \in things => s \in things
        /\ edges[n].link = "Expresses" => t \notin things
        /\ edges[n].link = "NearTo" => (s \in things <=> t \in things)
    <3>1. CASE edges[n].link = "LeadsTo"
      BY <2>3, <2>4, <2>5, <3>1, TheTable DEF Kinds
    <3>2. CASE edges[n].link = "PartOf"
      BY <2>2, <2>3, <2>4, <2>5, <3>2, TheTable DEF Kinds
    <3>3. CASE edges[n].link = "Expresses"
      BY <2>3, <2>4, <2>5, <3>3, TheTable DEF Kinds
    <3>4. CASE edges[n].link = "NearTo"
      BY <2>2, <2>3, <2>4, <2>5, <3>4, TheTable DEF Kinds
    <3> QED
      BY <3>1, <3>2, <3>3, <3>4
  <2> HIDE DEF things, a
  <2>7. a[s] = (IF s \in things THEN "Thing" ELSE "Event") /\ a[t] = (IF t \in things THEN "Thing" ELSE "Event")
    BY <1>1, <2>2
  <2> QED
    BY <2>1, <2>2, <2>6, <2>7, TheTable DEF Kinds, Links
<1>3. a \in ThingTypings
  BY <1>1, <1>2 DEF ThingTypings
<1>4. ASSUME NEW i \in Struck, "Thing" \in dom[i] PROVE FALSE
  <2>1. i \in Nodes /\ a[i] = "Thing"
    BY <1>1, <1>4 DEF Struck
  <2> QED
    BY <1>3, <1>4, <2>1 DEF Struck, Spared
<1> QED
  BY <1>4

\* As long as a node is a concept that no typing makes one, one of them is in want of concepts; struck ones only of
\* struck ones.
LEMMA SomeConceptIsLost ==
  ASSUME SolverInv, pc = "order", NEW among \in {Nodes, Struck},
         \A i \in among \ Keeps("Concept") : "Concept" \in dom[i] => CandidateValidates(i, "Concept")
  PROVE  \A i \in among \ Keeps("Concept") : "Concept" \notin dom[i]
<1> DEFINE concepts == Keeps("Concept") \cup {i \in among : "Concept" \in dom[i]}
           a == [i \in Nodes |-> IF i \in concepts THEN "Concept" ELSE "Event"]
<1>1. TypeOK /\ a \in [Nodes -> Kinds] /\ \A i \in Nodes : a[i] = IF i \in concepts THEN "Concept" ELSE "Event"
  BY DEF SolverInv, Kinds
<1>2. \A i \in concepts : i \in Nodes /\ "Concept" \in dom[i] /\ CandidateValidates(i, "Concept")
  BY KeptIsValid DEF Kinds, Struck
<1>3. ASSUME NEW n \in alive PROVE TypePairValid(edges[n].link, a[edges[n].src], a[edges[n].tgt])
  <2>1. PICK s, t : s = edges[n].src /\ t = edges[n].tgt
    OBVIOUS
  <2>2. s \in Nodes /\ t \in Nodes /\ edges[n].link \in Links
    BY <1>1, <2>1, EndsAreNodes
  <2>3. /\ edges[n].link = "Expresses" => t \in among
        /\ edges[n].link = "NearTo" => (s \in among <=> t \in among)
    BY <1>1, <2>1, <2>2, ThingsThatStay DEF Struck
  <2>4. /\ edges[n].link = "Expresses" /\ s \in Keeps("Concept") => t \in Keeps("Concept")
        /\ edges[n].link = "NearTo" => (s \in Keeps("Concept") <=> t \in Keeps("Concept"))
    BY <1>1, <2>1, ConceptsThatStay
  <2>5. /\ s \in concepts => \E o \in dom[t] : TypePairValid(edges[n].link, "Concept", o)
        /\ t \in concepts => \E o \in dom[s] : TypePairValid(edges[n].link, o, "Concept")
        /\ dom[s] \subseteq Kinds /\ dom[t] \subseteq Kinds
    BY <1>2, <2>1, ValidEnds DEF Kinds
  <2>6. /\ edges[n].link \in {"LeadsTo", "PartOf"} => s \notin concepts /\ t \notin concepts
        /\ edges[n].link = "Expresses" /\ s \in concepts => t \in concepts
        /\ edges[n].link = "NearTo" => (s \in concepts <=> t \in concepts)
    <3>1. CASE edges[n].link \in {"LeadsTo", "PartOf"}
      BY <2>5, <3>1, TheTable DEF Kinds
    <3>2. CASE edges[n].link = "Expresses"
      BY <2>3, <2>4, <2>5, <3>2, TheTable DEF Kinds
    <3>3. CASE edges[n].link = "NearTo"
      BY <2>3, <2>4, <2>5, <3>3, TheTable DEF Kinds
    <3> QED
      BY <3>1, <3>2, <3>3
  <2> HIDE DEF concepts, a
  <2>7. a[s] = (IF s \in concepts THEN "Concept" ELSE "Event") /\ a[t] = (IF t \in concepts THEN "Concept" ELSE "Event")
    BY <1>1, <2>2
  <2> QED
    BY <2>1, <2>2, <2>6, <2>7, TheTable DEF Kinds, Links
<1>4. a \in Typings
  BY <1>1, <1>3 DEF Typings, Satisfies
<1>5. ASSUME NEW i \in among \ Keeps("Concept"), "Concept" \in dom[i] PROVE FALSE
  <2>1. i \in Nodes /\ a[i] = "Concept"
    BY <1>1, <1>5 DEF Struck
  <2> QED
    BY <1>4, <1>5, <2>1 DEF Keeps
<1> QED
  BY <1>5

\* When the struck nodes have lost their concepts: as long as another node is a thing that no typing makes one, one of
\* them is in want of things, or of concepts among the struck.
LEMMA SomeSparedLoses ==
  ASSUME SolverInv, pc = "order", \A i \in Struck \ Keeps("Concept") : "Concept" \notin dom[i],
         \A i \in Spared \ Keeps("Thing") : "Thing" \in dom[i] => CandidateValidates(i, "Thing")
  PROVE  \A i \in Spared \ Keeps("Thing") : "Thing" \notin dom[i]
<1> DEFINE things == {i \in Spared : "Thing" \in dom[i]}
           a == [i \in Nodes |-> IF i \in things THEN "Thing" ELSE IF i \in Keeps("Concept") THEN "Concept" ELSE "Event"]
<1>1. /\ TypeOK /\ a \in [Nodes -> Kinds]
      /\ \A i \in Nodes : a[i] = IF i \in things THEN "Thing" ELSE IF i \in Keeps("Concept") THEN "Concept" ELSE "Event"
  BY DEF SolverInv, Kinds
<1>2. \A i \in things : i \in Nodes /\ "Thing" \in dom[i] /\ CandidateValidates(i, "Thing")
  BY KeptIsValid DEF Kinds, Spared
<1>3. ASSUME NEW n \in alive PROVE TypePairValid(edges[n].link, a[edges[n].src], a[edges[n].tgt])
  <2>1. PICK s, t : s = edges[n].src /\ t = edges[n].tgt
    OBVIOUS
  <2>2. s \in Nodes /\ t \in Nodes /\ edges[n].link \in Links
    BY <1>1, <2>1, EndsAreNodes
  <2>3. /\ edges[n].link = "LeadsTo" => s \notin Spared /\ t \notin Spared
        /\ edges[n].link = "PartOf" /\ t \in Spared => s \in Spared
        /\ edges[n].link = "Expresses" => t \notin Spared
        /\ edges[n].link = "NearTo" => (s \in Spared <=> t \in Spared)
    BY <1>1, <2>1, ThingsThatStay
  <2>4. /\ edges[n].link \in {"LeadsTo", "PartOf"} => s \notin Keeps("Concept") /\ t \notin Keeps("Concept")
        /\ edges[n].link = "Expresses" /\ s \in Keeps("Concept") => t \in Keeps("Concept")
        /\ edges[n].link = "NearTo" => (s \in Keeps("Concept") <=> t \in Keeps("Concept"))
    BY <1>1, <2>1, ConceptsThatStay
  <2>5. /\ s \in things => \E o \in dom[t] : TypePairValid(edges[n].link, "Thing", o)
        /\ t \in things => \E o \in dom[s] : TypePairValid(edges[n].link, o, "Thing")
        /\ dom[s] \subseteq Kinds /\ dom[t] \subseteq Kinds
    BY <1>2, <2>1, ValidEnds DEF Kinds
  <2>6. /\ edges[n].link = "PartOf" /\ t \in things => s \in things
        /\ edges[n].link = "Expresses" /\ s \in things => t \in Keeps("Concept")
        /\ edges[n].link = "NearTo" => (s \in things <=> t \in things)
    <3>1. CASE edges[n].link = "PartOf"
      BY <2>3, <2>5, <3>1, TheTable DEF Kinds
    <3>2. CASE edges[n].link = "Expresses"
      <4>1. s \in things => "Concept" \in dom[t]
        BY <2>5, <3>2, TheTable DEF Kinds
      <4>2. t \in Struck
        BY <2>2, <2>3, <3>2 DEF Struck
      <4> QED
        BY <3>2, <4>1, <4>2
    <3>3. CASE edges[n].link = "NearTo"
      BY <2>3, <2>5, <3>3, TheTable DEF Kinds
    <3> QED
      BY <3>1, <3>2, <3>3
  <2>7. (s \in things => s \in Spared) /\ (t \in things => t \in Spared)
    OBVIOUS
  <2> HIDE DEF things, a
  <2>8. /\ a[s] = (IF s \in things THEN "Thing" ELSE IF s \in Keeps("Concept") THEN "Concept" ELSE "Event")
        /\ a[t] = (IF t \in things THEN "Thing" ELSE IF t \in Keeps("Concept") THEN "Concept" ELSE "Event")
    BY <1>1, <2>2
  <2>9. CASE edges[n].link = "LeadsTo"
    BY <2>1, <2>3, <2>4, <2>7, <2>8, <2>9, TheTable DEF Kinds
  <2>10. CASE edges[n].link = "PartOf"
    BY <2>1, <2>4, <2>6, <2>8, <2>10, TheTable DEF Kinds
  <2>11. CASE edges[n].link = "Expresses"
    BY <2>1, <2>3, <2>4, <2>6, <2>7, <2>8, <2>11, TheTable DEF Kinds
  <2>12. CASE edges[n].link = "NearTo"
    BY <2>1, <2>4, <2>6, <2>8, <2>12, TheTable DEF Kinds
  <2> QED
    BY <2>2, <2>9, <2>10, <2>11, <2>12 DEF Links
<1>4. a \in Typings
  BY <1>1, <1>3 DEF Typings, Satisfies
<1>5. ASSUME NEW i \in Spared \ Keeps("Thing"), "Thing" \in dom[i] PROVE FALSE
  <2>1. i \in Nodes /\ a[i] = "Thing"
    BY <1>1, <1>5 DEF Spared
  <2> QED
    BY <1>4, <1>5, <2>1 DEF Keeps
<1> QED
  BY <1>5

\* Counting: a pass that does not lose all does lose one more.
LEMMA OneMore ==
  ASSUME NEW losers \in SUBSET Nodes, NEW lost \in SUBSET losers, NEW more \in SUBSET losers, lost \subseteq more
  PROVE  /\ Cardinality(lost) \in Nat /\ Cardinality(more) \in Nat /\ Cardinality(losers) \in Nat
         /\ Cardinality(lost) <= Cardinality(more) /\ Cardinality(more) <= Cardinality(losers)
         /\ lost # more => Cardinality(more) >= Cardinality(lost) + 1
         /\ Cardinality(lost) >= Cardinality(losers) => lost = losers
<1>1. IsFiniteSet(Nodes)
  BY NodesAssumption, FS_Interval DEF Nodes
<1>2. IsFiniteSet(losers)
  BY <1>1, FS_Subset
<1>3. IsFiniteSet(more) /\ Cardinality(more) <= Cardinality(losers)
  BY <1>2, FS_Subset
<1>4. /\ IsFiniteSet(lost) /\ Cardinality(lost) <= Cardinality(more)
      /\ Cardinality(lost) = Cardinality(more) => lost = more
  BY <1>3, FS_Subset
<1>5. Cardinality(lost) <= Cardinality(losers) /\ (Cardinality(lost) = Cardinality(losers) => lost = losers)
  BY <1>2, FS_Subset
<1>6. Cardinality(lost) \in Nat /\ Cardinality(more) \in Nat /\ Cardinality(losers) \in Nat
  BY <1>2, <1>3, <1>4, FS_CardinalityType
<1> QED
  BY <1>3, <1>4, <1>5, <1>6

\* A node keeps or loses a kind when it is visited, and is no better off for what others lose.
LEMMA VisitLoses ==
  ASSUME SolverInv, VisitNode, NEW k \in {"Thing", "Concept"}
  PROVE  /\ node \in Nodes /\ node' = node + 1
         /\ \A i \in Nodes : k \in dom'[i] => k \in dom[i]
         /\ \A i \in Nodes : i # node => dom'[i] = dom[i]
         /\ \A i \in Nodes : ~CandidateValidates(i, k) => ~CandidateValidates(i, k)'
         /\ ~CandidateValidates(node, k) => k \notin dom'[node]
<1>1. /\ TypeOK /\ node \in Nodes /\ node' = node + 1 /\ UNCHANGED <<edges, alive>> /\ pc = "order"
  BY DEF VisitNode, SolverInv, TypeOK, Nodes
<1>2. dom'[node] = Valid(node) /\ \A i \in Nodes : i # node => dom'[i] = dom[i]
  <2> DEFINE prunes == Unresolved(node) /\ Valid(node) # {} /\ Valid(node) # dom[node]
  <2>1. dom' = IF prunes THEN [dom EXCEPT ![node] = Valid(node)] ELSE dom
    BY DEF VisitNode
  <2>2. ~prunes => Valid(node) = dom[node]
    BY <1>1, UnprunedIsValid
  <2> HIDE DEF prunes
  <2> QED
    BY <1>1, <2>1, <2>2 DEF TypeOK
<1>3. \A i \in Nodes : dom'[i] \subseteq dom[i]
  BY <1>1, <1>2 DEF Valid
<1>4. ASSUME NEW i \in Nodes, CandidateValidates(i, k)' PROVE CandidateValidates(i, k)
  <2> SUFFICES ASSUME NEW n \in IncidentTo(i) PROVE \E o \in dom[Other(n, i)] : Fits(edges[n], i, k, o)
    BY DEF CandidateValidates
  <2>1. n \in alive /\ n \in IncidentTo(i)' /\ Other(n, i)' = Other(n, i) /\ edges' = edges
    BY <1>1 DEF IncidentTo, Other
  <2>2. PICK o \in dom'[Other(n, i)] : Fits(edges[n], i, k, o)
    BY <1>4, <2>1 DEF CandidateValidates
  <2>3. Other(n, i) \in Nodes
    BY <1>1, <2>1, EndsAreNodes DEF Other
  <2> QED
    BY <1>3, <2>2, <2>3
<1> QED
  BY <1>1, <1>2, <1>3, <1>4 DEF Valid

\* In a pass.
LEMMA VisitInTime ==
  ASSUME SolverInv, VisitNode, NEW k \in {"Thing", "Concept"}, NEW losers \in SUBSET Nodes, NEW p \in Nat,
         InTime(losers, k, p),
         (\A i \in losers : k \in dom[i] => CandidateValidates(i, k)) => \A i \in losers : k \notin dom[i]
  PROVE  LET lost == {i \in losers : k \notin dom'[i]}
         IN  \/ lost = losers
             \/ Cardinality(lost) >= p
             \/ Cardinality(lost) >= p - 1 /\ \E i \in losers \ lost : i >= node' /\ ~CandidateValidates(i, k)'
<1> DEFINE lost == {i \in losers : k \notin dom[i]}
           more == {i \in losers : k \notin dom'[i]}
<1>1. /\ node \in Nodes /\ node' = node + 1
      /\ \A i \in losers : k \in dom'[i] => k \in dom[i]
      /\ \A i \in losers : i # node => dom'[i] = dom[i]
      /\ \A i \in losers : ~CandidateValidates(i, k) => ~CandidateValidates(i, k)'
      /\ ~CandidateValidates(node, k) => k \notin dom'[node]
  BY VisitLoses
<1>2. lost \in SUBSET losers /\ more \in SUBSET losers /\ lost \subseteq more
  BY <1>1
<1>3. /\ Cardinality(lost) \in Nat /\ Cardinality(more) \in Nat
      /\ Cardinality(lost) <= Cardinality(more)
      /\ lost # more => Cardinality(more) >= Cardinality(lost) + 1
  BY <1>2, OneMore
<1>4. CASE lost = losers
  BY <1>2, <1>4
<1>5. CASE Cardinality(lost) >= p
  <2>1. Cardinality(more) >= p
    BY <1>3, <1>5
  <2> QED
    BY <2>1
<1>6. CASE lost # losers /\ Cardinality(lost) >= p - 1 /\ (node = 1 \/ \E i \in losers \ lost : i >= node /\ ~CandidateValidates(i, k))
  <2>1. PICK i \in losers \ lost : i >= node /\ ~CandidateValidates(i, k)
    <3>1. CASE node = 1
      <4>1. \E i \in losers : k \in dom[i] /\ ~CandidateValidates(i, k)
        BY <1>6
      <4> QED
        BY <3>1, <4>1 DEF Nodes
    <3> QED
      BY <1>6, <3>1
  <2>2. CASE i = node
    <3>1. i \in more /\ i \notin lost
      BY <1>1, <2>1, <2>2
    <3>2. Cardinality(more) >= p
      BY <1>3, <1>6, <3>1
    <3> QED
      BY <3>2
  <2>3. CASE i # node
    <3>1. i \in losers \ more /\ ~CandidateValidates(i, k)' /\ i >= node'
      <4>1. i >= node + 1
        BY <1>1, <2>1, <2>3 DEF Nodes
      <4> QED
        BY <1>1, <2>1, <2>3, <4>1
    <3>2. Cardinality(more) >= p - 1
      BY <1>3, <1>6
    <3> QED
      BY <3>1, <3>2
  <2> QED
    BY <2>2, <2>3
<1> QED
  BY <1>4, <1>5, <1>6 DEF InTime

\* At the end of one, no node is still to be visited.
LEMMA EndInTime ==
  ASSUME SolverInv, node > NumNodes, NEW k \in {"Thing", "Concept"}, NEW losers \in SUBSET Nodes, NEW p \in Nat,
         InTime(losers, k, p)
  PROVE  /\ Cardinality({i \in losers : k \notin dom[i]}) >= p \/ \A i \in losers : k \notin dom[i]
         /\ p >= Cardinality(losers) => \A i \in losers : k \notin dom[i]
<1> DEFINE lost == {i \in losers : k \notin dom[i]}
<1>1. lost \in SUBSET losers /\ node # 1 /\ ~ \E i \in losers : i >= node
  BY NodesAssumption DEF SolverInv, TypeOK, Nodes
<1>2. lost = losers \/ Cardinality(lost) >= p
  BY <1>1 DEF InTime
<1>3. Cardinality(lost) \in Nat /\ Cardinality(losers) \in Nat /\ (Cardinality(lost) >= Cardinality(losers) => lost = losers)
  BY <1>1, OneMore
<1>4. p >= Cardinality(losers) => lost = losers
  BY <1>2, <1>3
<1> QED
  BY <1>2, <1>4

\* A kind that is left where it is in some typing only.
LEMMA LostIsExact ==
  ASSUME TypeOK, \A i \in Nodes : "Concept" \in dom[i] => i \in Keeps("Concept"),
         \A i \in Nodes : "Thing" \in dom[i] => i \in Keeps("Thing")
  PROVE  Exact
<1> SUFFICES ASSUME NEW i \in Nodes, NEW k \in dom[i] PROVE \E a \in Typings : a[i] = k
  BY DEF Exact
<1>1. CASE k = "Event"
  BY <1>1, AllEventIsATyping
<1>2. CASE k \in {"Thing", "Concept"}
  BY <1>2 DEF Keeps
<1> QED
  BY <1>1, <1>2 DEF TypeOK, Kinds

\* The typings of a graph are those of its edges.
LEMMA TypingsKept == UNCHANGED <<edges, alive>> => Typings' = Typings
BY DEF Typings, Satisfies

\* Who loses what does not depend on what is lost so far.
LEMMA LosersStay ==
  UNCHANGED <<edges, alive>> =>
    /\ Struck' = Struck /\ Spared' = Spared
    /\ Keeps("Thing")' = Keeps("Thing") /\ Keeps("Concept")' = Keeps("Concept")
BY DEF Struck, Spared, ThingTypings, Keeps, Typings, Satisfies

LEMMA LosersAreNodes ==
  /\ Struck \in SUBSET Nodes /\ Spared \in SUBSET Nodes /\ Struck = Nodes \ Spared
  /\ Struck \ Keeps("Concept") \in SUBSET Nodes /\ Nodes \ Keeps("Concept") \in SUBSET Nodes
  /\ Spared \ Keeps("Thing") \in SUBSET Nodes
  /\ Cardinality(Struck) \in Nat /\ Cardinality(Spared \ Keeps("Thing")) \in Nat
  /\ Cardinality(Struck \ Keeps("Concept")) \in Nat
  /\ Cardinality(Struck \ Keeps("Concept")) <= Cardinality(Struck)
  /\ Cardinality(Nodes \ Keeps("Concept")) \in Nat /\ Cardinality(Nodes \ Keeps("Concept")) <= NumNodes
  /\ Cardinality(Spared \ Keeps("Thing")) <= NumNodes - Cardinality(Struck)
  /\ Cardinality(Struck) <= NumNodes
<1>1. IsFiniteSet(Nodes) /\ Cardinality(Nodes) = NumNodes
  BY NodesAssumption, FS_Interval DEF Nodes
<1>2. Struck \in SUBSET Nodes /\ Spared \in SUBSET Nodes /\ Struck = Nodes \ Spared
  BY DEF Struck, Spared
<1>3. IsFiniteSet(Struck) /\ IsFiniteSet(Spared) /\ Cardinality(Struck) <= NumNodes
  BY <1>1, <1>2, FS_Subset
<1>4. /\ IsFiniteSet(Struck \ Keeps("Concept")) /\ Cardinality(Struck \ Keeps("Concept")) <= Cardinality(Struck)
      /\ IsFiniteSet(Nodes \ Keeps("Concept")) /\ Cardinality(Nodes \ Keeps("Concept")) <= NumNodes
      /\ IsFiniteSet(Spared \ Keeps("Thing")) /\ Cardinality(Spared \ Keeps("Thing")) <= Cardinality(Spared)
  BY <1>1, <1>3, FS_Subset
<1>5. Cardinality(Struck) = NumNodes - Cardinality(Spared)
  <2>1. Nodes \cap Spared = Spared
    BY <1>2
  <2> QED
    BY <1>1, <1>2, <2>1, FS_Difference
<1>6. /\ Cardinality(Struck) \in Nat /\ Cardinality(Spared) \in Nat /\ Cardinality(Spared \ Keeps("Thing")) \in Nat
      /\ Cardinality(Struck \ Keeps("Concept")) \in Nat /\ Cardinality(Nodes \ Keeps("Concept")) \in Nat
  BY <1>3, <1>4, FS_CardinalityType
<1> QED
  BY <1>2, <1>3, <1>4, <1>5, <1>6, NodesAssumption

\* The bound of n + 2 passes is never what ends the pruning.
LEMMA PassesAreEnough ==
  ASSUME SolverInv, InTimeInv, pc = "order", node > NumNodes, pass = MaxPasses
  PROVE  Exact
<1>1. pass = NumNodes + 2 /\ NumNodes \in Nat
  BY NodesAssumption DEF MaxPasses
<1>2. \A i \in Struck : "Thing" \notin dom[i]
  <2>1. InTime(Struck, "Thing", pass) /\ pass \in Nat /\ pass >= Cardinality(Struck) /\ Struck \in SUBSET Nodes
    BY <1>1, LosersAreNodes DEF InTimeInv
  <2> QED
    BY <2>1, EndInTime
<1>3. \A i \in Nodes \ Keeps("Concept") : "Concept" \notin dom[i]
  <2>1. /\ InTime(Nodes \ Keeps("Concept"), "Concept", pass) /\ Nodes \ Keeps("Concept") \in SUBSET Nodes
        /\ pass \in Nat /\ pass >= Cardinality(Nodes \ Keeps("Concept"))
    BY <1>1, LosersAreNodes DEF InTimeInv
  <2> QED
    BY <2>1, EndInTime
<1>4. \A i \in Spared \ Keeps("Thing") : "Thing" \notin dom[i]
  <2>1. PICK p \in Nat : p = pass - Cardinality(Struck)
    BY <1>1, LosersAreNodes
  <2>2. InTime(Spared \ Keeps("Thing"), "Thing", p) /\ p >= Cardinality(Spared \ Keeps("Thing"))
    BY <1>1, <2>1, LosersAreNodes DEF InTimeInv
  <2> QED
    BY <2>2, LosersAreNodes, EndInTime
<1> QED
  BY <1>2, <1>3, <1>4, LosersAreNodes, LostIsExact DEF SolverInv

\* A visit.
LEMMA VisitStaysInTime == ASSUME SolverInv, InTimeInv, VisitNode PROVE InTimeInv'
<1>1. pc = "order" /\ pc' = "order" /\ pass' = pass /\ UNCHANGED <<edges, alive>> /\ pass \in Nat
  BY DEF VisitNode, SolverInv, TypeOK
<1>2. /\ Struck' = Struck /\ Spared' = Spared
      /\ Keeps("Thing")' = Keeps("Thing") /\ Keeps("Concept")' = Keeps("Concept")
  BY <1>1, LosersStay
<1>3. /\ InTime(Struck, "Thing", pass)
      /\ InTime(Struck \ Keeps("Concept"), "Concept", pass)
      /\ InTime(Nodes \ Keeps("Concept"), "Concept", pass)
  BY <1>1 DEF InTimeInv
<1>4. InTime(Struck, "Thing", pass)'
  <2>1. LET lost == {i \in Struck : "Thing" \notin dom'[i]}
        IN  \/ lost = Struck
            \/ Cardinality(lost) >= pass
            \/ Cardinality(lost) >= pass - 1 /\ \E i \in Struck \ lost : i >= node' /\ ~CandidateValidates(i, "Thing")'
    BY <1>1, <1>3, SomeStruckLoses, LosersAreNodes, VisitInTime
  <2> QED
    BY <1>1, <1>2, <2>1 DEF InTime
<1>5. ASSUME NEW among \in {Nodes, Struck}, InTime(among \ Keeps("Concept"), "Concept", pass)
      PROVE  LET losers == among \ Keeps("Concept")
                 lost == {i \in losers : "Concept" \notin dom'[i]}
             IN  \/ lost = losers
                 \/ Cardinality(lost) >= pass
                 \/ Cardinality(lost) >= pass - 1 /\ \E i \in losers \ lost : i >= node' /\ ~CandidateValidates(i, "Concept")'
  <2>1. among \ Keeps("Concept") \in SUBSET Nodes
    BY LosersAreNodes
  <2>2. (\A i \in among \ Keeps("Concept") : "Concept" \in dom[i] => CandidateValidates(i, "Concept"))
          => \A i \in among \ Keeps("Concept") : "Concept" \notin dom[i]
    BY <1>1, SomeConceptIsLost
  <2> QED
    BY <1>1, <1>5, <2>1, <2>2, VisitInTime
<1>6. InTime(Struck \ Keeps("Concept"), "Concept", pass)' /\ InTime(Nodes \ Keeps("Concept"), "Concept", pass)'
  BY <1>1, <1>2, <1>3, <1>5 DEF InTime
<1>7. ASSUME pass > Cardinality(Struck) PROVE InTime(Spared \ Keeps("Thing"), "Thing", pass - Cardinality(Struck))'
  <2>1. \A i \in Struck \ Keeps("Concept") : "Concept" \notin dom[i]
    <3> DEFINE losers == Struck \ Keeps("Concept")
               lost == {i \in losers : "Concept" \notin dom[i]}
    <3>1. Cardinality(lost) \in Nat /\ Cardinality(losers) \in Nat /\ (Cardinality(lost) >= Cardinality(losers) => lost = losers)
      <4>1. losers \in SUBSET Nodes /\ lost \in SUBSET losers
        BY LosersAreNodes
      <4> HIDE DEF losers, lost
      <4> QED
        BY <4>1, OneMore
    <3>2. lost = losers \/ Cardinality(lost) >= pass - 1
      BY <1>1, <1>3, <3>1 DEF InTime
    <3>3. pass - 1 >= Cardinality(losers)
      BY <1>1, <1>7, LosersAreNodes
    <3>4. lost = losers
      BY <1>1, <3>1, <3>2, <3>3
    <3> QED
      BY <3>4
  <2>2. PICK p \in Nat : p = pass - Cardinality(Struck)
    BY <1>1, <1>7, LosersAreNodes
  <2>3. InTime(Spared \ Keeps("Thing"), "Thing", p)
    BY <1>1, <1>7, <2>2 DEF InTimeInv
  <2>4. LET losers == Spared \ Keeps("Thing")
            lost == {i \in losers : "Thing" \notin dom'[i]}
        IN  \/ lost = losers
            \/ Cardinality(lost) >= p
            \/ Cardinality(lost) >= p - 1 /\ \E i \in losers \ lost : i >= node' /\ ~CandidateValidates(i, "Thing")'
    <3>1. (\A i \in Spared \ Keeps("Thing") : "Thing" \in dom[i] => CandidateValidates(i, "Thing"))
            => \A i \in Spared \ Keeps("Thing") : "Thing" \notin dom[i]
      BY <1>1, <2>1, SomeSparedLoses
    <3> QED
      BY <1>1, <2>3, <3>1, LosersAreNodes, VisitInTime
  <2>5. pass' - Cardinality(Struck)' = p
    BY <1>1, <1>2, <2>2
  <2> QED
    BY <1>1, <1>2, <2>2, <2>4 DEF InTime
<1> QED
  BY <1>1, <1>2, <1>4, <1>6, <1>7 DEF InTimeInv

\* The next pass begins.
LEMMA NextPassInTime == ASSUME SolverInv, InTimeInv, NextPass PROVE InTimeInv'
<1>1. /\ pc = "order" /\ pc' = "order" /\ pass' = pass + 1 /\ pass \in Nat /\ node > NumNodes /\ node' = 1
      /\ UNCHANGED <<edges, alive, dom>>
  BY DEF NextPass, SolverInv, TypeOK
<1>2. /\ Struck' = Struck /\ Spared' = Spared
      /\ Keeps("Thing")' = Keeps("Thing") /\ Keeps("Concept")' = Keeps("Concept")
  BY <1>1, LosersStay
<1>3. ASSUME NEW k \in {"Thing", "Concept"}, NEW losers \in SUBSET Nodes, NEW p \in Nat, InTime(losers, k, p)
      PROVE  Cardinality({i \in losers : k \notin dom[i]}) >= (p + 1) - 1 \/ {i \in losers : k \notin dom[i]} = losers
  <2>1. Cardinality({i \in losers : k \notin dom[i]}) >= p \/ \A i \in losers : k \notin dom[i]
    BY <1>1, <1>3, EndInTime
  <2>2. (p + 1) - 1 = p
    OBVIOUS
  <2> QED
    BY <2>1, <2>2
<1>4. InTime(Struck, "Thing", pass)'
  <2>1. Cardinality({i \in Struck : "Thing" \notin dom[i]}) >= (pass + 1) - 1 \/ {i \in Struck : "Thing" \notin dom[i]} = Struck
    BY <1>1, <1>3, LosersAreNodes DEF InTimeInv
  <2> QED
    BY <1>1, <1>2, <2>1 DEF InTime
<1>5. InTime(Struck \ Keeps("Concept"), "Concept", pass)'
  <2> DEFINE losers == Struck \ Keeps("Concept")
  <2>1. Cardinality({i \in losers : "Concept" \notin dom[i]}) >= (pass + 1) - 1 \/ {i \in losers : "Concept" \notin dom[i]} = losers
    BY <1>1, <1>3, LosersAreNodes DEF InTimeInv
  <2> QED
    BY <1>1, <1>2, <2>1 DEF InTime
<1>6. InTime(Nodes \ Keeps("Concept"), "Concept", pass)'
  <2> DEFINE losers == Nodes \ Keeps("Concept")
  <2>1. Cardinality({i \in losers : "Concept" \notin dom[i]}) >= (pass + 1) - 1 \/ {i \in losers : "Concept" \notin dom[i]} = losers
    BY <1>1, <1>3, LosersAreNodes DEF InTimeInv
  <2> QED
    BY <1>1, <1>2, <2>1 DEF InTime
<1>7. ASSUME pass' > Cardinality(Struck)' PROVE InTime(Spared \ Keeps("Thing"), "Thing", pass - Cardinality(Struck))'
  <2> DEFINE losers == Spared \ Keeps("Thing")
             lost == {i \in losers : "Thing" \notin dom[i]}
  <2>1. PICK p \in Nat : p = pass - Cardinality(Struck)
    BY <1>1, <1>2, <1>7, LosersAreNodes
  <2>2. Cardinality(lost) >= p \/ lost = losers
    <3>1. CASE p = 0
      <4>1. Cardinality(lost) \in Nat
        <5>1. losers \in SUBSET Nodes /\ lost \in SUBSET losers
          BY LosersAreNodes
        <5> HIDE DEF losers, lost
        <5> QED
          BY <5>1, OneMore
      <4> QED
        BY <3>1, <4>1
    <3>2. CASE p # 0
      <4>1. InTime(losers, "Thing", p)
        BY <1>1, <2>1, <3>2, LosersAreNodes DEF InTimeInv
      <4> QED
        BY <1>3, <4>1, LosersAreNodes
    <3> QED
      BY <3>1, <3>2
  <2>3. (pass' - Cardinality(Struck)') - 1 = p
    BY <1>1, <1>2, <2>1, LosersAreNodes
  <2> QED
    BY <1>1, <1>2, <2>2, <2>3 DEF InTime
<1> QED
  BY <1>1, <1>2, <1>4, <1>5, <1>6, <1>7 DEF InTimeInv

LEMMA InTimeInit == Init => InTimeInv
BY DEF Init, InTimeInv

LEMMA InTimeStep == SolverInv /\ SolverInv' /\ InTimeInv /\ [Next]_vars => InTimeInv'
<1> SUFFICES ASSUME SolverInv, SolverInv', InTimeInv, [Next]_vars PROVE InTimeInv'
  OBVIOUS
<1>1. CASE Dedupe
  <2>1. pc' = "order" /\ pass' = pass /\ node' = 1
    BY <1>1 DEF Dedupe, orderVars, SolverInv, Untouched
  <2>2. pass' = 1
    BY <1>1, <2>1 DEF Dedupe, InTimeInv
  <2>3. \A S \in SUBSET Nodes : Cardinality(S) \in Nat
    BY OneMore
  <2>4. Struck' \in SUBSET Nodes /\ Spared' \in SUBSET Nodes
    BY DEF Struck, Spared
  <2>5. ASSUME NEW k \in {"Thing", "Concept"}, NEW losers \in SUBSET Nodes
        PROVE  Cardinality({i \in losers : k \notin dom'[i]}) >= 1 - 1
    BY <2>3
  <2>6. InTime(Struck, "Thing", pass)'
    BY <2>1, <2>2, <2>4, <2>5 DEF InTime
  <2>7. InTime(Struck \ Keeps("Concept"), "Concept", pass)'
    BY <2>1, <2>2, <2>4, <2>5 DEF InTime
  <2>8. InTime(Nodes \ Keeps("Concept"), "Concept", pass)'
    BY <2>1, <2>2, <2>4, <2>5 DEF InTime
  <2>9. pass' > Cardinality(Struck)' => pass' - Cardinality(Struck)' = 1
    BY <2>2, <2>3, <2>4
  <2>10. pass' > Cardinality(Struck)' => InTime(Spared \ Keeps("Thing"), "Thing", pass - Cardinality(Struck))'
    BY <2>1, <2>4, <2>5, <2>9 DEF InTime
  <2> QED
    BY <2>1, <2>6, <2>7, <2>8, <2>10 DEF InTimeInv
<1>2. CASE VisitNode
  BY <1>2, VisitStaysInTime
<1>3. CASE NextPass
  BY <1>3, NextPassInTime
<1>4. CASE LastPass
  <2>1. pc = "order" /\ pc' = "pick" /\ UNCHANGED <<edges, alive, dom, changed>> /\ node > NumNodes
        /\ (changed => pass = MaxPasses)
    BY <1>4 DEF LastPass, orderVars
  <2>2. changed => Exact
    BY <2>1, PassesAreEnough
  <2>3. Typings' = Typings
    BY <2>1, TypingsKept
  <2>4. Exact' = Exact
    BY <2>1, <2>3 DEF Exact
  <2> QED
    BY <2>1, <2>2, <2>4 DEF InTimeInv
<1>5. CASE Pick \/ UNCHANGED vars
  <2>1. UNCHANGED <<edges, alive, dom, changed, pass>> /\ (pc' = pc \/ pc' = "defaults") /\ (pc # "pick" => node' = node)
    BY <1>5 DEF Pick, PassOver, TryKind, Retreat, Picked, Searching, orderVars, vars
  <2>2. Typings' = Typings /\ Struck' = Struck /\ Spared' = Spared
        /\ Keeps("Thing")' = Keeps("Thing") /\ Keeps("Concept")' = Keeps("Concept")
    BY <2>1, TypingsKept, LosersStay
  <2>3. Exact' = Exact
    BY <2>1, <2>2 DEF Exact
  <2>4. \A i \in Nodes, k \in Kinds : CandidateValidates(i, k)' = CandidateValidates(i, k)
    BY <2>1 DEF CandidateValidates, IncidentTo, Other
  <2>5. CASE pc = "order" /\ pc' = "order"
    <3>1. node' = node /\ dom' = dom /\ pass' = pass
      BY <2>1, <2>5
    <3>2. /\ \A i \in Struck : CandidateValidates(i, "Thing")' = CandidateValidates(i, "Thing")
          /\ \A i \in Nodes : CandidateValidates(i, "Concept")' = CandidateValidates(i, "Concept")
          /\ \A i \in Struck : CandidateValidates(i, "Concept")' = CandidateValidates(i, "Concept")
          /\ \A i \in Spared : CandidateValidates(i, "Thing")' = CandidateValidates(i, "Thing")
      BY <2>4, LosersAreNodes DEF Kinds
    <3>3. InTime(Struck, "Thing", pass) => InTime(Struck, "Thing", pass)'
      BY <2>2, <3>1, <3>2 DEF InTime
    <3>4. InTime(Struck \ Keeps("Concept"), "Concept", pass) => InTime(Struck \ Keeps("Concept"), "Concept", pass)'
      BY <2>2, <3>1, <3>2 DEF InTime
    <3>5. InTime(Nodes \ Keeps("Concept"), "Concept", pass) => InTime(Nodes \ Keeps("Concept"), "Concept", pass)'
      BY <2>2, <3>1, <3>2 DEF InTime
    <3>6. InTime(Spared \ Keeps("Thing"), "Thing", pass - Cardinality(Struck))
            => InTime(Spared \ Keeps("Thing"), "Thing", pass - Cardinality(Struck))'
      BY <2>2, <3>1, <3>2 DEF InTime
    <3>7. Cardinality(Struck)' = Cardinality(Struck)
      BY <2>2
    <3> QED
      BY <2>5, <3>1, <3>3, <3>4, <3>5, <3>6, <3>7 DEF InTimeInv
  <2> QED
    BY <2>1, <2>3, <2>5 DEF InTimeInv
<1>6. CASE ApplyDefaults \/ DropInvalidEdges \/ Search
  <2>1. pc' \notin {"dedupe", "order", "pick"}
    BY <1>6 DEF ApplyDefaults, DropInvalidEdges, Search, Root, CutBackEdge, Descend, KeepCrossEdge,
           Return, Acyclic, InCycles
  <2> QED
    BY <2>1 DEF InTimeInv
<1> QED
  BY <1>1, <1>2, <1>3, <1>4, <1>5, <1>6 DEF Next, Order

\* The passes that solve.go:389 allows reach the fixpoint of the pruning in every graph, in whatever order its
\* nodes stand, and there the pruning is exact.
THEOREM ThePruningIsExact == Spec => []PruningIsExact
<1>1. SolverInv /\ InTimeInv /\ (pc = "pick" /\ ~changed => Exact) => PruningIsExact
  BY DEF InTimeInv, PruningIsExact
<1> QED
  BY InTimeInit, InTimeStep, <1>1, SolverInvariant, SettledPruningIsExact, PTL DEF Spec

(* ---------------------------------------------------------------------- *)
(* The search finds the best typing. *)

\* What is refuted at a node stays so while the primaries before it stand.
LEMMA RefutedKept ==
  ASSUME UNCHANGED <<edges, alive>>, NEW i \in Nodes, NEW k, Refuted(i, k),
         \A j \in Nodes : j < i => EffType(j)' = EffType(j)
  PROVE  Refuted(i, k)'
<1>1. \A j \in 1 .. i - 1 : j \in Nodes /\ j < i
  BY NodesAssumption DEF Nodes
<1>2. \A a : AgreesBefore(a, i)' <=> AgreesBefore(a, i)
  BY <1>1 DEF AgreesBefore
<1> QED
  BY <1>2, TypingsKept DEF Refuted

\* The next to try comes before all that are left.
LEMMA NextToTryIsFirst ==
  ASSUME NEW i, NEW ks \in SUBSET Kinds, ks # {}, NEW m \in ks
  PROVE  NextToTry(i, {NextToTry(i, ks), m}) = NextToTry(i, ks)
BY DEF NextToTry, FirstKind, Kinds

\* In every typing a decided node is an event, as it is here.
LEMMA DecidedIsEvent ==
  ASSUME SolverInv, pc = "pick", NEW i \in Nodes, ~Unresolved(i)
  PROVE  EffType(i) = "Event" /\ \A a \in Typings : a[i] = "Event"
<1>1. dom[i] = {"Event"}
  BY DEF SolverInv, ForcedAreEvents, Undefaulted
<1> QED
  BY <1>1 DEF EffType, FirstKind, SolverInv, NeverGuesses, Undefaulted, Typings

\* A kind that does not go with the neighbours is in no typing that agrees with the primaries.
LEMMA InconsistentIsRefuted ==
  ASSUME SolverInv, pc = "pick", node \in Nodes, NEW k, ~Consistent(node, k)
  PROVE  Refuted(node, k)
<1> SUFFICES ASSUME NEW a \in Typings, AgreesBefore(a, node), a[node] = k
             PROVE  Consistent(node, k)
  BY DEF Refuted
<1>1. TypeOK /\ Satisfies(a) /\ \A j \in Nodes : a[j] \in dom[j]
  BY DEF Typings, SolverInv, NeverGuesses, Undefaulted
<1> SUFFICES ASSUME NEW n \in IncidentTo(node), NEW o, o = Other(n, node)
             PROVE  /\ pick[o] # None => Fits(edges[n], node, k, pick[o])
                    /\ pick[o] = None /\ ~Unresolved(o) => \A t \in dom[o] : Fits(edges[n], node, k, t)
  BY DEF Consistent
<1>2. /\ n \in alive /\ edges[n].src # edges[n].tgt /\ o \in Nodes /\ o # node
      /\ TypePairValid(edges[n].link, a[edges[n].src], a[edges[n].tgt])
  BY <1>1, EndsAreNodes DEF SolverInv, NoSelfLoop, Satisfies, IncidentTo, Other
<1>3. Fits(edges[n], node, k, a[o])
  BY <1>2, Zenon DEF Fits, Other, IncidentTo
<1>4. ASSUME pick[o] # None PROVE a[o] = pick[o]
  <2>1. o < node /\ EffType(o) = pick[o]
    BY <1>2, <1>4 DEF SolverInv, PicksBehind, EffType
  <2>2. o \in 1 .. node - 1
    BY <1>2, <2>1, NodesAssumption DEF Nodes
  <2> QED
    BY <2>1, <2>2 DEF AgreesBefore
<1>5. ASSUME ~Unresolved(o) PROVE dom[o] = {"Event"} /\ a[o] = "Event"
  BY <1>2, <1>5, DecidedIsEvent DEF SolverInv, ForcedAreEvents, Undefaulted
<1> QED
  BY <1>3, <1>4, <1>5

LEMMA BestInit == Init => BestInv
BY DEF Init, BestInv, PrimariesAreBest

LEMMA BestOrder == SolverInv /\ BestInv /\ Order => BestInv'
<1> SUFFICES ASSUME SolverInv, BestInv, Order PROVE BestInv'
  OBVIOUS
<1>1. /\ pc \in {"dedupe", "order"} /\ pc' \in {"order", "pick"} /\ UNCHANGED <<tried, pick>>
  BY DEF Order, Dedupe, VisitNode, NextPass, LastPass, pickVars
<1>2. \A i \in Nodes : tried'[i] = {} /\ pick'[i] = None
  BY <1>1 DEF BestInv, SolverInv, PicksBehind
<1>3. TriedInOrder' /\ NothingAhead'
  BY <1>2 DEF TriedInOrder, NothingAhead
<1> QED
  BY <1>1, <1>2, <1>3 DEF BestInv, PrimariesAreBest

LEMMA BestPassOver == SolverInv /\ BestInv /\ PassOver => BestInv'
<1> SUFFICES ASSUME SolverInv, BestInv, PassOver PROVE BestInv'
  OBVIOUS
<1>1. /\ pc = "pick" /\ pc' = "pick" /\ node \in Nat /\ node' = node + 1
      /\ UNCHANGED <<edges, alive, dom, conf, pick, tried>>
  BY DEF PassOver, pickVars, SolverInv, TypeOK
<1>2. \A i \in Nodes, k \in Kinds : Refuted(i, k) => Refuted(i, k)'
  BY <1>1, RefutedKept DEF EffType, Unresolved
<1>3. \A i, ks : NextToTry(i, ks)' = NextToTry(i, ks)
  BY <1>1 DEF NextToTry, PreferKind
<1>4. TriedInOrder'
  <2> SUFFICES ASSUME NEW i \in Nodes
               PROVE  /\ tried[i] \subseteq dom[i]
                      /\ pick[i] # None => pick[i] \in tried[i]
                      /\ \A k \in tried[i] : k = pick[i] \/ Refuted(i, k)'
                      /\ \A k \in tried[i], m \in dom[i] \ tried[i] : NextToTry(i, {k, m}) = k
    BY <1>1, <1>3 DEF TriedInOrder
  <2> QED
    BY <1>1, <1>2 DEF BestInv, TriedInOrder, SolverInv, TypeOK
<1>5. NothingAhead'
  BY <1>1 DEF BestInv, NothingAhead, Unresolved, Nodes
<1> QED
  BY <1>1, <1>4, <1>5 DEF BestInv, PrimariesAreBest

LEMMA BestTryKind == SolverInv /\ BestInv /\ TryKind => BestInv'
<1> SUFFICES ASSUME SolverInv, BestInv, TryKind PROVE BestInv'
  OBVIOUS
<1>1. PICK here \in Nodes, kind \in Kinds : here = node /\ kind = NextToTry(node, Untried(node))
      /\ kind \in Untried(here)
  <2>1. node \in Nodes /\ Untried(node) \in SUBSET Kinds /\ Untried(node) # {}
    BY DEF TryKind, Searching, Untried, SolverInv, TypeOK, Nodes
  <2> QED
    BY <2>1, NextToTryIsOne
<1>2. /\ pc = "pick" /\ pc' = "pick" /\ Unresolved(here)
      /\ UNCHANGED <<edges, alive, dom, conf>>
      /\ tried' = [tried EXCEPT ![here] = @ \cup {kind}]
      /\ pick' = IF Consistent(here, kind) THEN [pick EXCEPT ![here] = kind] ELSE pick
      /\ node' = IF Consistent(here, kind) THEN node + 1 ELSE node
  BY <1>1 DEF TryKind, Searching
<1>3. /\ TriedInOrder /\ NothingAhead /\ TypeOK /\ pick[here] = None
      /\ \A i \in Nodes : dom[i] \subseteq Kinds
      /\ \A i \in Nodes : i > here => tried[i] = {}
      /\ tried \in [Nodes -> SUBSET Kinds] /\ pick \in [Nodes -> Kinds \cup {None}]
  <2>1. pick[here] = None
    BY <1>1, <1>2 DEF SolverInv, PicksBehind, Nodes
  <2> QED
    BY <1>1, <1>2, <2>1 DEF BestInv, SolverInv, TypeOK, NothingAhead
<1>4. \A i \in Nodes : i # here =>
        tried'[i] = tried[i] /\ pick'[i] = pick[i] /\ EffType(i)' = EffType(i)
  BY <1>2, <1>3 DEF EffType, Unresolved
<1>5. \A i \in Nodes, k \in Kinds : i <= here /\ Refuted(i, k) => Refuted(i, k)'
  <2>1. \A i \in Nodes, j \in Nodes : i <= here /\ j < i => j # here
    BY DEF Nodes
  <2> QED
    BY <1>2, <1>4, <2>1, RefutedKept
<1>6. \A i, ks : NextToTry(i, ks)' = NextToTry(i, ks)
  BY <1>2 DEF NextToTry, PreferKind
<1>7. tried'[here] = tried[here] \cup {kind}
      /\ pick'[here] = IF Consistent(here, kind) THEN kind ELSE None
  BY <1>2, <1>3
<1>8. kind = pick'[here] \/ Refuted(here, kind)'
  <2>1. CASE ~Consistent(here, kind)
    BY <1>1, <1>2, <1>5, <2>1, InconsistentIsRefuted DEF Nodes
  <2> QED
    BY <1>7, <2>1
<1>9. TriedInOrder'
  <2> SUFFICES ASSUME NEW i \in Nodes
               PROVE  /\ tried'[i] \subseteq dom[i]
                      /\ pick'[i] # None => pick'[i] \in tried'[i]
                      /\ \A k \in tried'[i] : k = pick'[i] \/ Refuted(i, k)'
                      /\ \A k \in tried'[i], m \in dom[i] \ tried'[i] : NextToTry(i, {k, m}) = k
    BY <1>2, <1>6 DEF TriedInOrder
  <2>1. /\ tried[i] \subseteq dom[i]
        /\ pick[i] # None => pick[i] \in tried[i]
        /\ \A k \in tried[i] : k = pick[i] \/ Refuted(i, k)
        /\ \A k \in tried[i], m \in dom[i] \ tried[i] : NextToTry(i, {k, m}) = k
        /\ tried[i] \subseteq Kinds
    BY <1>3 DEF TriedInOrder
  <2>2. CASE i > here
    BY <1>3, <1>4, <2>1, <2>2 DEF Nodes
  <2>3. CASE i < here
    BY <1>4, <1>5, <2>1, <2>3 DEF Nodes
  <2>4. CASE i = here
    <3>1. ASSUME NEW k \in tried[here] PROVE Refuted(here, k)'
      <4>1. k # None /\ k \in Kinds
        BY <2>1, <2>4 DEF Kinds, None
      <4> QED
        BY <1>3, <1>5, <2>1, <2>4, <3>1, <4>1 DEF Nodes
    <3>2. ASSUME NEW m \in dom[here] \ tried'[here] PROVE NextToTry(here, {kind, m}) = kind
      <4>1. m \in Untried(here) /\ Untried(here) \in SUBSET Kinds /\ Untried(here) # {}
        BY <1>1, <1>3, <1>7, <3>2 DEF Untried
      <4> QED
        BY <1>1, <4>1, NextToTryIsFirst
    <3>3. kind \in dom[here]
      BY <1>1 DEF Untried
    <3> QED
      BY <1>7, <1>8, <2>1, <2>4, <3>1, <3>2, <3>3
  <2> QED
    BY <2>2, <2>3, <2>4 DEF Nodes
<1>10. NothingAhead'
  BY <1>1, <1>2, <1>3, <1>4 DEF NothingAhead, Unresolved, Nodes
<1> QED
  BY <1>2, <1>9, <1>10 DEF BestInv, PrimariesAreBest

LEMMA BestRetreat == SolverInv /\ BestInv /\ Retreat => BestInv'
<1> SUFFICES ASSUME SolverInv, BestInv, Retreat PROVE BestInv'
  OBVIOUS
<1> DEFINE before == {i \in 1 .. node - 1 : Unresolved(i)}
           last   == CHOOSE i \in before : \A j \in before : j <= i
<1>1. /\ TypeOK /\ pc = "pick" /\ node \in Nodes /\ node \in Nat /\ node <= NumNodes
      /\ UNCHANGED <<edges, alive, dom, conf>> /\ Untried(node) = {}
      /\ TriedInOrder /\ NothingAhead
  BY DEF Retreat, Searching, SolverInv, BestInv, TypeOK, Nodes
<1>2. before # {} => last \in before /\ \A j \in before : j <= last
  BY <1>1, LastBefore
<1>3. /\ pc' = IF before = {} THEN "defaults" ELSE pc
      /\ node' = IF before = {} THEN node ELSE last
      /\ pick' = IF before = {} THEN pick ELSE [pick EXCEPT ![last] = None]
      /\ tried' = [tried EXCEPT ![node] = {}]
  BY DEF Retreat
<1>4. \A i \in Nodes : i < node /\ Unresolved(i) <=> i \in before
  BY <1>1 DEF Nodes
<1>5. before \subseteq Nodes
  BY <1>1, NodesAssumption DEF Nodes
<1> HIDE DEF before, last
<1>6. ASSUME NEW a \in Typings PROVE ~AgreesBefore(a, node)
  <2>1. a[node] \in dom[node] /\ a[node] \in Kinds /\ a[node] # None
    BY <1>1 DEF Typings, SolverInv, NeverGuesses, Undefaulted, Kinds, None
  <2>2. a[node] \in tried[node] /\ pick[node] = None
    BY <1>1, <2>1 DEF Untried, SolverInv, PicksBehind
  <2>3. Refuted(node, a[node])
    BY <1>1, <2>1, <2>2 DEF TriedInOrder
  <2> QED
    BY <2>3 DEF Refuted
<1>7. before # {}
  <2> SUFFICES ASSUME before = {} PROVE FALSE
    OBVIOUS
  <2> DEFINE a == [j \in Nodes |-> "Event"]
  <2>1. a \in Typings
    BY <1>1, AllEventIsATyping
  <2>2. \A j \in 1 .. node - 1 : j \in Nodes /\ ~Unresolved(j)
    BY <1>1, <1>4, NodesAssumption DEF Nodes
  <2>3. AgreesBefore(a, node)
    BY <1>1, <2>2, DecidedIsEvent DEF AgreesBefore
  <2> QED
    BY <1>6, <2>1, <2>3
<1>8. PICK l \in Nodes : l = last /\ l \in before /\ l < node /\ Unresolved(l) /\ \A j \in before : j <= l
  BY <1>2, <1>4, <1>5, <1>7
<1>9. /\ pc' = "pick" /\ node' = l
      /\ \A i \in Nodes : pick'[i] = IF i = l THEN None ELSE pick[i]
      /\ \A i \in Nodes : tried'[i] = IF i = node THEN {} ELSE tried[i]
  BY <1>1, <1>3, <1>7, <1>8 DEF TypeOK
<1>10. \A i \in Nodes : l < i => tried'[i] = {}
  BY <1>1, <1>4, <1>8, <1>9 DEF NothingAhead, Nodes
<1>11. Refuted(l, pick[l])
  <2> SUFFICES ASSUME NEW a \in Typings, AgreesBefore(a, l), a[l] = pick[l]
               PROVE  AgreesBefore(a, node)
    BY <1>6 DEF Refuted
  <2> SUFFICES ASSUME NEW j \in 1 .. node - 1 PROVE a[j] = EffType(j)
    BY DEF AgreesBefore
  <2>1. j \in Nodes /\ j < node
    BY <1>1, NodesAssumption DEF Nodes
  <2>2. CASE j < l
    BY <2>1, <2>2 DEF AgreesBefore, Nodes
  <2>3. CASE j = l
    BY <1>1, <1>8, <2>3 DEF SolverInv, PicksBehind, EffType
  <2>4. CASE l < j
    <3>1. ~Unresolved(j)
      BY <1>4, <1>8, <2>1, <2>4 DEF Nodes
    <3> QED
      BY <1>1, <2>1, <3>1, DecidedIsEvent
  <2> QED
    BY <2>1, <2>2, <2>3, <2>4 DEF Nodes
<1>12. \A i \in Nodes, k \in Kinds : i <= l /\ Refuted(i, k) => Refuted(i, k)'
  <2>1. \A i \in Nodes, j \in Nodes : i <= l /\ j < i => j # l
    BY DEF Nodes
  <2>2. \A j \in Nodes : j # l => EffType(j)' = EffType(j)
    BY <1>1, <1>9 DEF EffType, Unresolved
  <2> QED
    BY <1>1, <2>1, <2>2, RefutedKept
<1>13. \A i, ks : NextToTry(i, ks)' = NextToTry(i, ks)
  BY <1>1 DEF NextToTry, PreferKind
<1>14. TriedInOrder'
  <2> SUFFICES ASSUME NEW i \in Nodes
               PROVE  /\ tried'[i] \subseteq dom[i]
                      /\ pick'[i] # None => pick'[i] \in tried'[i]
                      /\ \A k \in tried'[i] : k = pick'[i] \/ Refuted(i, k)'
                      /\ \A k \in tried'[i], m \in dom[i] \ tried'[i] : NextToTry(i, {k, m}) = k
    BY <1>1, <1>13 DEF TriedInOrder
  <2>1. /\ tried[i] \subseteq dom[i]
        /\ pick[i] # None => pick[i] \in tried[i]
        /\ \A k \in tried[i] : k = pick[i] \/ Refuted(i, k)
        /\ \A k \in tried[i], m \in dom[i] \ tried[i] : NextToTry(i, {k, m}) = k
        /\ tried[i] \subseteq Kinds
    BY <1>1 DEF TriedInOrder, TypeOK
  <2>2. CASE i > l
    <3>1. pick'[i] = None
      BY <1>1, <1>4, <1>8, <1>9, <2>2 DEF SolverInv, PicksBehind, Nodes
    <3> QED
      BY <1>10, <2>2, <3>1 DEF Nodes
  <2>3. CASE i < l
    <3>1. tried'[i] = tried[i] /\ pick'[i] = pick[i]
      BY <1>8, <1>9, <2>3 DEF Nodes
    <3> QED
      BY <1>12, <2>1, <2>3, <3>1 DEF Nodes
  <2>4. CASE i = l
    <3>1. tried'[l] = tried[l] /\ pick'[l] = None
      BY <1>8, <1>9 DEF Nodes
    <3>2. \A k \in tried[l] : Refuted(l, k)'
      BY <1>11, <1>12, <2>1, <2>4 DEF Nodes
    <3> QED
      BY <2>1, <2>4, <3>1, <3>2
  <2> QED
    BY <2>2, <2>3, <2>4 DEF Nodes
<1>15. NothingAhead'
  <2> SUFFICES ASSUME NEW i \in Nodes, i > l \/ ~Unresolved(i) PROVE tried'[i] = {}
    BY <1>1, <1>9 DEF NothingAhead, Unresolved
  <2> QED
    BY <1>1, <1>9, <1>10 DEF NothingAhead, Nodes
<1> QED
  BY <1>9, <1>14, <1>15 DEF BestInv, PrimariesAreBest

LEMMA BestPicked == SolverInv /\ BestInv /\ Picked => BestInv'
<1> SUFFICES ASSUME SolverInv, BestInv, Picked PROVE BestInv'
  OBVIOUS
<1>1. /\ pc = "pick" /\ pc' = "defaults" /\ \A i \in Nodes : i < node
      /\ UNCHANGED <<edges, alive, dom, conf, pick>> /\ TriedInOrder
  BY NodesAssumption DEF Picked, pickVars, BestInv, SolverInv, TypeOK, Nodes
<1>2. ASSUME NEW a \in Typings, NEW i \in Nodes, AgreesBefore(a, i)
      PROVE  a[i] = EffType(i) \/ NextToTry(i, {a[i], EffType(i)}) = EffType(i)
  <2>1. a[i] \in dom[i]
    BY <1>1 DEF Typings, SolverInv, NeverGuesses, Undefaulted
  <2>2. CASE ~Unresolved(i)
    BY <1>1, <2>2, DecidedIsEvent
  <2>3. CASE Unresolved(i)
    <3>1. pick[i] # None /\ EffType(i) = pick[i] /\ pick[i] \in tried[i]
      BY <1>1, <2>3 DEF SolverInv, PicksBehind, EffType, TriedInOrder
    <3>2. CASE a[i] \in tried[i]
      BY <1>1, <1>2, <3>1, <3>2 DEF TriedInOrder, Refuted
    <3>3. CASE a[i] \notin tried[i]
      <4>1. NextToTry(i, {pick[i], a[i]}) = pick[i]
        BY <1>1, <2>1, <3>1, <3>3 DEF TriedInOrder
      <4>2. {pick[i], a[i]} = {a[i], pick[i]}
        OBVIOUS
      <4> QED
        BY <3>1, <4>1, <4>2
    <3> QED
      BY <3>2, <3>3
  <2> QED
    BY <2>2, <2>3
<1>3. PrimariesAreBest'
  <2>1. \A i \in Nodes : EffType(i)' = EffType(i)
    BY <1>1 DEF EffType, Unresolved
  <2>2. \A a, i : i \in Nodes /\ AgreesBefore(a, i)' => AgreesBefore(a, i)
    BY <1>1 DEF AgreesBefore, EffType, Unresolved
  <2>3. \A i, ks : NextToTry(i, ks)' = NextToTry(i, ks)
    BY <1>1 DEF NextToTry, PreferKind
  <2> QED
    BY <1>1, <1>2, <2>1, <2>2, <2>3, TypingsKept DEF PrimariesAreBest
<1> QED
  BY <1>1, <1>3 DEF BestInv

(***************************************************************************)
(* The backtracking search of assignPrimaries ends with the typing that is *)
(* best node by node, in every graph.                                      *)
(***************************************************************************)
THEOREM PrimariesAreTheBest == Spec => []PrimariesAreBest
<1>1. SolverInv /\ BestInv /\ [Next]_vars => BestInv'
  <2> SUFFICES ASSUME SolverInv, BestInv, [Next]_vars PROVE BestInv'
    OBVIOUS
  <2>1. CASE Order
    BY <2>1, BestOrder
  <2>2. CASE Pick
    BY <2>2, BestPassOver, BestTryKind, BestRetreat, BestPicked DEF Pick
  <2>3. CASE ApplyDefaults \/ DropInvalidEdges \/ Search
    <3>1. pc' \in {"drop", "cycles", "done"}
      BY <2>3 DEF ApplyDefaults, DropInvalidEdges, Search, Root, CutBackEdge, Descend, KeepCrossEdge,
             Return, Acyclic, InCycles
    <3> QED
      BY <3>1 DEF BestInv, PrimariesAreBest
  <2>4. CASE UNCHANGED vars
    <3>1. UNCHANGED <<pc, edges, alive, dom, conf, node, pick, tried>>
      BY <2>4 DEF vars, pickVars
    <3>2. /\ Typings' = Typings
          /\ \A i : EffType(i)' = EffType(i)
          /\ \A i, ks : NextToTry(i, ks)' = NextToTry(i, ks)
      BY <3>1, TypingsKept DEF EffType, Unresolved, NextToTry, PreferKind
    <3>3. \A a, i : AgreesBefore(a, i)' <=> AgreesBefore(a, i)
      BY <3>2 DEF AgreesBefore
    <3>4. \A i, k : Refuted(i, k)' <=> Refuted(i, k)
      BY <3>2, <3>3 DEF Refuted
    <3>5. PrimariesAreBest'
      BY <3>1, <3>2, <3>3 DEF BestInv, PrimariesAreBest
    <3>6. pc = "pick" => TriedInOrder' /\ NothingAhead'
      BY <3>1, <3>2, <3>4 DEF BestInv, TriedInOrder, NothingAhead, Unresolved
    <3> QED
      BY <3>1, <3>5, <3>6 DEF BestInv
  <2> QED
    BY <2>1, <2>2, <2>3, <2>4 DEF Next
<1>2. BestInv => PrimariesAreBest
  BY DEF BestInv
<1> QED
  BY BestInit, <1>1, <1>2, SolverInvariant, PTL DEF Spec

(* ---------------------------------------------------------------------- *)
(* Breaking cycles. *)

LEMMA SearchInit == Init => SearchInv
<1> SUFFICES ASSUME Init PROVE SearchInv
  OBVIOUS
<1>1. BeforeSearch /\ cut = {} /\ path = <<>> /\ seen = {} /\ \A i \in Nodes : color[i] = "white"
  BY DEF Init, BeforeSearch
<1>2. pc # "cycles" /\ pc # "done"
  BY DEF Init
<1> QED
  BY <1>1, <1>2 DEF SearchInv, CutsCloseCycles

\* Up to the search its variables stand still; when it begins nothing was looked at.
LEMMA BeforeSearchInv ==
  SearchInv /\ (Order \/ Pick \/ ApplyDefaults \/ DropInvalidEdges) => SearchInv'
<1> SUFFICES ASSUME SearchInv, Order \/ Pick \/ ApplyDefaults \/ DropInvalidEdges PROVE SearchInv'
  OBVIOUS
<1>1. BeforeSearch /\ pc' # "done" /\ UNCHANGED dfsVars
  BY DEF Order, Pick, Dedupe, VisitNode, NextPass, LastPass, PassOver, TryKind, Retreat, Picked,
         Searching, ApplyDefaults, DropInvalidEdges, BeforeSearch
<1>2. path' = <<>> /\ seen' = {} /\ cut' = {} /\ \A i \in Nodes : color'[i] = "white"
  BY <1>1 DEF SearchInv, dfsVars
<1>3. DOMAIN path' = {}
  BY <1>2
<1>4. GrayIsTheStack' /\ StackIsLinked' /\ OneLeadsOn' /\ SeenAreReached' /\ BlackIsFinished'
  BY <1>2, <1>3 DEF GrayIsTheStack, StackIsLinked, OneLeadsOn, SeenAreReached, BlackIsFinished
<1>5. BlackIsAcyclic'
  BY <1>2 DEF BlackIsAcyclic, Black
<1>6. CutsCloseCycles'
  BY <1>1, <1>2 DEF CutsCloseCycles
<1> QED
  BY <1>2, <1>4, <1>5, <1>6 DEF SearchInv, BeforeSearch

\* The edge the search looks at next.
LEMMA LooksAt ==
  ASSUME TypeOK, SearchInv, InCycles, Unseen(Top) # {}
  PROVE  LET n == NextOut(Top)
         IN  /\ n \in Directed /\ n \notin seen /\ n \notin cut
             /\ edges[n].src = Top /\ edges[n].tgt \in Nodes
             /\ Top \in Nodes /\ color[Top] = "gray"
             /\ Len(path) \in DOMAIN path /\ path[Len(path)] = Top
<1>1. Top \in Nodes /\ Len(path) \in Nat \ {0}
  BY TopIsANode DEF InCycles
<1>2. NextOut(Top) \in Unseen(Top)
  BY <1>1, NextOutIsUnseen
<1>3. Len(path) \in DOMAIN path /\ path[Len(path)] = Top
  BY <1>1 DEF Top, TypeOK
<1>4. color[Top] = "gray"
  BY <1>1, <1>3 DEF SearchInv, GrayIsTheStack, InCycles
<1>5. edges[NextOut(Top)].tgt \in Nodes
  BY <1>2, EndsAreNodes DEF Unseen
<1> QED
  BY <1>1, <1>2, <1>3, <1>4, <1>5 DEF Unseen, Directed, TypeOK

LEMMA RootInv == SolverInv /\ SearchInv /\ Root => SearchInv'
<1> SUFFICES ASSUME TypeOK, SearchInv, Root PROVE SearchInv'
  BY DEF SolverInv
<1>1. PICK i \in Nodes : color[i] = "white" /\ path' = <<i>> /\ color' = [color EXCEPT ![i] = "gray"]
  BY DEF Root
<1>2. /\ pc = "cycles" /\ pc' = "cycles" /\ path = <<>>
      /\ UNCHANGED <<edges, alive, seen, cut>>
  BY DEF Root
<1>3. color \in [Nodes -> {"white", "gray", "black"}]
  BY DEF TypeOK
<1>4. DOMAIN path' = {1} /\ path'[1] = i /\ DOMAIN path = {} /\ Len(path') = 1
  BY <1>1, <1>2
<1>5. Kept' = Kept /\ Directed' = Directed
  BY <1>2 DEF Kept, Directed
<1>6. GrayIsTheStack'
  BY <1>1, <1>2, <1>3, <1>4 DEF SearchInv, GrayIsTheStack
<1>7. StackIsLinked'
  BY <1>4 DEF StackIsLinked
<1>8. OneLeadsOn'
  BY <1>1, <1>2, <1>4, <1>5 DEF SearchInv, OneLeadsOn, SeenAreReached, Kept
<1>9. \A j \in Nodes : (color'[j] = "black" <=> color[j] = "black") /\ (color'[j] = "white" => color[j] = "white")
  BY <1>1, <1>3
<1>10. SeenAreReached'
  <2> SUFFICES ASSUME NEW n \in seen
               PROVE  /\ n \in Directed /\ color'[edges[n].src] # "white"
                      /\ n \notin cut => color'[edges[n].tgt] # "white"
    BY <1>2, <1>5 DEF SeenAreReached
  <2>1. /\ n \in Directed /\ color[edges[n].src] # "white"
        /\ n \notin cut => color[edges[n].tgt] # "white"
    BY <1>2 DEF SearchInv, SeenAreReached
  <2>2. edges[n].src \in Nodes /\ edges[n].tgt \in Nodes
    BY <2>1, EndsAreNodes DEF Directed
  <2> QED
    BY <2>1, <2>2, <1>9
<1>11. \A j \in Nodes : Unseen(j)' = Unseen(j)
  BY <1>2 DEF Unseen
<1>12. BlackIsFinished'
  <2>1. \A n \in Kept : edges[n].tgt \in Nodes
    BY <1>2, EndsAreNodes DEF SearchInv, SeenAreReached, Kept, Directed
  <2> QED
    BY <1>2, <1>5, <1>9, <1>11, <2>1 DEF SearchInv, BlackIsFinished
<1>13. BlackIsAcyclic'
  <2>1. Black' = Black
    BY <1>9 DEF Black
  <2> QED
    BY <1>2, <1>5, <2>1 DEF SearchInv, BlackIsAcyclic, HasSink
<1>14. CutsCloseCycles'
  BY <1>2, <1>5 DEF SearchInv, CutsCloseCycles, Closed
<1> QED
  BY <1>2, <1>6, <1>7, <1>8, <1>10, <1>12, <1>13, <1>14 DEF SearchInv, BeforeSearch

\* Steps of the search that keep the colours of finished nodes and look at edges of others.
LEMMA CutBackEdgeInv == SolverInv /\ SearchInv /\ CutBackEdge => SearchInv'
<1> SUFFICES ASSUME TypeOK, SearchInv, CutBackEdge PROVE SearchInv'
  BY DEF SolverInv
<1> DEFINE n == NextOut(Top)
<1>1. /\ pc = "cycles" /\ pc' = "cycles" /\ color[edges[n].tgt] = "gray"
      /\ cut' = cut \cup {n} /\ seen' = seen \cup {n}
      /\ UNCHANGED <<edges, alive, color, path>>
  BY DEF CutBackEdge, InCycles
<1>2. /\ n \in Directed /\ n \notin seen /\ edges[n].src = Top /\ edges[n].tgt \in Nodes
      /\ Top \in Nodes /\ color[Top] = "gray" /\ Len(path) \in DOMAIN path /\ path[Len(path)] = Top
  BY LooksAt DEF CutBackEdge
<1>3. cut \subseteq seen
  BY DEF TypeOK
<1> HIDE DEF n
<1>4. Kept' = Kept /\ Directed' = Directed /\ Black' = Black
  BY <1>1, <1>2, <1>3 DEF Kept, Directed, Black
<1>5. GrayIsTheStack' /\ StackIsLinked' /\ OneLeadsOn'
  BY <1>1, <1>4 DEF SearchInv, GrayIsTheStack, StackIsLinked, OneLeadsOn, Closed
<1>6. SeenAreReached'
  BY <1>1, <1>2, <1>4 DEF SearchInv, SeenAreReached
<1>7. BlackIsFinished'
  <2>1. \A i \in Nodes : Unseen(i) = {} => Unseen(i)' = {}
    BY <1>1 DEF Unseen
  <2> QED
    BY <1>1, <1>4, <2>1 DEF SearchInv, BlackIsFinished
<1>8. BlackIsAcyclic'
  BY <1>1, <1>4 DEF SearchInv, BlackIsAcyclic, HasSink
<1>9. CutsCloseCycles'
  <2> SUFFICES ASSUME NEW c \in cut', NEW S \in SUBSET Nodes, edges[c].tgt \in S, Closed(S)
               PROVE  edges[c].src \in S
    BY <1>1, <1>4 DEF CutsCloseCycles, Closed
  <2>1. CASE c \in cut
    BY <1>1, <2>1 DEF SearchInv, CutsCloseCycles
  <2>2. CASE c = n
    <3>1. PICK k \in DOMAIN path : path[k] = edges[n].tgt
      BY <1>1, <1>2 DEF SearchInv, GrayIsTheStack
    <3>2. k <= Len(path)
      BY DEF TypeOK
    <3>3. path[Len(path)] \in S
      BY <1>1, <1>2, <2>2, <3>1, <3>2 DEF SearchInv, StackIsLinked
    <3> QED
      BY <1>2, <2>2, <3>3
  <2> QED
    BY <1>1, <2>1, <2>2
<1> QED
  BY <1>1, <1>5, <1>6, <1>7, <1>8, <1>9 DEF SearchInv, BeforeSearch

LEMMA KeepCrossEdgeInv == SolverInv /\ SearchInv /\ KeepCrossEdge => SearchInv'
<1> SUFFICES ASSUME TypeOK, SearchInv, KeepCrossEdge PROVE SearchInv'
  BY DEF SolverInv
<1> DEFINE n == NextOut(Top)
<1>1. /\ pc = "cycles" /\ pc' = "cycles" /\ color[edges[n].tgt] = "black"
      /\ seen' = seen \cup {n} /\ UNCHANGED <<edges, alive, color, path, cut>>
  BY DEF KeepCrossEdge, InCycles
<1>2. /\ n \in Directed /\ n \notin seen /\ n \notin cut /\ edges[n].src = Top /\ edges[n].tgt \in Nodes
      /\ Top \in Nodes /\ color[Top] = "gray"
  BY LooksAt DEF KeepCrossEdge
<1> HIDE DEF n
<1>3. Kept' = Kept \cup {n} /\ Directed' = Directed /\ Black' = Black
  BY <1>1, <1>2 DEF Kept, Directed, Black
<1>4. \A S : Closed(S)' => Closed(S)
  BY <1>1, <1>3 DEF Closed
<1>5. GrayIsTheStack' /\ StackIsLinked'
  BY <1>1, <1>4 DEF SearchInv, GrayIsTheStack, StackIsLinked
<1>6. OneLeadsOn' /\ SeenAreReached'
  BY <1>1, <1>2, <1>3 DEF SearchInv, OneLeadsOn, SeenAreReached
<1>7. BlackIsFinished'
  <2>1. \A i \in Nodes : Unseen(i) = {} => Unseen(i)' = {}
    BY <1>1 DEF Unseen
  <2> QED
    BY <1>1, <1>2, <1>3, <2>1 DEF SearchInv, BlackIsFinished
<1>8. BlackIsAcyclic'
  <2>1. ASSUME NEW S \in (SUBSET Black) \ {{}} PROVE HasSink(S, Kept \cup {n})
    <3>1. PICK i \in S : \A m \in Kept : edges[m].src = i => edges[m].tgt \notin S
      BY <1>1 DEF SearchInv, BlackIsAcyclic, HasSink
    <3>2. edges[n].src # i
      BY <1>2 DEF Black
    <3> QED
      BY <3>1, <3>2 DEF HasSink
  <2> QED
    BY <1>1, <1>3, <2>1 DEF BlackIsAcyclic, HasSink
<1>9. CutsCloseCycles'
  BY <1>1, <1>4 DEF SearchInv, CutsCloseCycles
<1> QED
  BY <1>1, <1>5, <1>6, <1>7, <1>8, <1>9 DEF SearchInv, BeforeSearch

LEMMA DescendInv == SolverInv /\ SearchInv /\ Descend => SearchInv'
<1> SUFFICES ASSUME TypeOK, SearchInv, Descend PROVE SearchInv'
  BY DEF SolverInv
<1> DEFINE n == NextOut(Top)
           t == edges[n].tgt
<1>1. /\ pc = "cycles" /\ pc' = "cycles" /\ color[t] = "white"
      /\ color' = [color EXCEPT ![t] = "gray"] /\ path' = Append(path, t)
      /\ seen' = seen \cup {n} /\ UNCHANGED <<edges, alive, cut>>
  BY DEF Descend, InCycles
<1>2. /\ n \in Directed /\ n \notin seen /\ n \notin cut /\ edges[n].src = Top /\ t \in Nodes
      /\ Top \in Nodes /\ color[Top] = "gray" /\ Len(path) \in DOMAIN path /\ path[Len(path)] = Top
  BY LooksAt DEF Descend
<1>3. color \in [Nodes -> {"white", "gray", "black"}] /\ path \in Seq(Nodes)
  BY DEF TypeOK
<1> DEFINE L == Len(path)
<1>4. /\ L \in Nat \ {0} /\ DOMAIN path = 1 .. L
      /\ DOMAIN path' = 1 .. L + 1 /\ Len(path') = L + 1 /\ path'[L + 1] = t
      /\ \A k \in 1 .. L : path'[k] = path[k]
  BY <1>1, <1>2, <1>3
<1>5. Kept' = Kept \cup {n} /\ Directed' = Directed
  BY <1>1, <1>2 DEF Kept, Directed
<1>6. /\ \A j \in Nodes : color'[j] = "black" <=> color[j] = "black"
      /\ \A j \in Nodes : color'[j] = "white" => color[j] = "white"
      /\ color'[t] = "gray"
  BY <1>1, <1>2, <1>3
<1>7. \A m \in Kept : edges[m].src \in Nodes /\ edges[m].tgt \in Nodes
  BY <1>1, EndsAreNodes DEF SearchInv, SeenAreReached, Kept, Directed
<1>8. n \in Directed /\ edges[n].src = Top /\ edges[n].tgt = t /\ t \in Nodes
  BY <1>2
<1> HIDE DEF n, t, L
<1>9. \A k \in 1 .. L : path[k] # t
  BY <1>1, <1>4, <1>8 DEF SearchInv, GrayIsTheStack
<1>10. GrayIsTheStack'
  <2>1. \A i \in Nodes : color'[i] = "gray" <=> \E k \in 1 .. L + 1 : path'[k] = i
    <3> SUFFICES ASSUME NEW i \in Nodes PROVE color'[i] = "gray" <=> \E k \in 1 .. L + 1 : path'[k] = i
      OBVIOUS
    <3>1. CASE i = t
      BY <1>4, <1>6, <3>1
    <3>2. CASE i # t
      <4>1. color'[i] = color[i]
        BY <1>1, <1>3, <3>2
      <4>2. color[i] = "gray" <=> \E k \in 1 .. L : path[k] = i
        BY <1>1, <1>4 DEF SearchInv, GrayIsTheStack
      <4> QED
        BY <1>4, <3>2, <4>1, <4>2
    <3> QED
      BY <3>1, <3>2
  <2>2. \A k, l \in 1 .. L + 1 : path'[k] = path'[l] => k = l
    <3>1. \A k, l \in 1 .. L : path[k] = path[l] => k = l
      BY <1>1, <1>4 DEF SearchInv, GrayIsTheStack
    <3> QED
      BY <1>4, <1>9, <3>1
  <2> QED
    BY <1>4, <2>1, <2>2 DEF GrayIsTheStack
<1>11. StackIsLinked'
  <2> SUFFICES ASSUME NEW S \in SUBSET Nodes, Closed(S)',
                      NEW k \in 1 .. L + 1, NEW l \in 1 .. L + 1, k <= l, path'[k] \in S
               PROVE  path'[l] \in S
    BY <1>4 DEF StackIsLinked
  <2>1. Closed(S) /\ (Top \in S => t \in S)
    BY <1>1, <1>5, <1>8 DEF Closed
  <2>2. \A i, j \in 1 .. L : i <= j /\ path[i] \in S => path[j] \in S
    BY <1>1, <1>4, <2>1 DEF SearchInv, StackIsLinked
  <2>3. CASE k = L + 1
    BY <1>4, <2>3
  <2>4. CASE k \in 1 .. L
    <3>1. path[k] \in S /\ L \in 1 .. L
      BY <1>4, <2>4
    <3>2. path[L] = Top
      BY <1>2 DEF L
    <3>3. Top \in S
      BY <2>2, <2>4, <3>1, <3>2
    <3> QED
      BY <1>4, <2>1, <2>2, <2>4, <3>1, <3>3
  <2> QED
    BY <1>4, <2>3, <2>4
<1>12. OneLeadsOn'
  <2> SUFFICES ASSUME NEW k \in 1 .. L + 1, NEW m \in Kept \cup {n}, edges[m].src = path'[k]
               PROVE  color'[edges[m].tgt] = "black" \/ (k < L + 1 /\ edges[m].tgt = path'[k + 1])
    BY <1>1, <1>4, <1>5 DEF OneLeadsOn
  <2>1. CASE m = n
    <3>1. path[L] = Top /\ L \in 1 .. L
      BY <1>2, <1>4 DEF L
    <3>2. k # L + 1
      BY <1>4, <1>8, <1>9, <2>1, <3>1
    <3>3. k = L
      BY <1>1, <1>4, <1>8, <2>1, <3>1, <3>2 DEF SearchInv, GrayIsTheStack
    <3> QED
      BY <1>4, <1>8, <2>1, <3>3
  <2>2. CASE m \in Kept
    <3>1. color[edges[m].src] # "white"
      BY <1>1, <2>2 DEF SearchInv, SeenAreReached, Kept
    <3>2. k \in 1 .. L
      BY <1>1, <1>4, <3>1
    <3>3. color[edges[m].tgt] = "black" \/ (k < L /\ edges[m].tgt = path[k + 1])
      BY <1>1, <1>4, <2>2, <3>2 DEF SearchInv, OneLeadsOn, L
    <3> QED
      BY <1>4, <1>6, <1>7, <2>2, <3>2, <3>3
  <2> QED
    BY <2>1, <2>2
<1>13. SeenAreReached'
  <2> SUFFICES ASSUME NEW m \in seen \cup {n}
               PROVE  /\ m \in Directed /\ color'[edges[m].src] # "white"
                      /\ m \notin cut => color'[edges[m].tgt] # "white"
    BY <1>1, <1>5 DEF SeenAreReached
  <2>1. CASE m = n
    BY <1>2, <1>6, <1>8, <2>1
  <2>2. CASE m \in seen
    <3>1. /\ m \in Directed /\ color[edges[m].src] # "white"
          /\ m \notin cut => color[edges[m].tgt] # "white"
      BY <1>1, <2>2 DEF SearchInv, SeenAreReached
    <3>2. edges[m].src \in Nodes /\ edges[m].tgt \in Nodes
      BY <3>1, EndsAreNodes DEF Directed
    <3> QED
      BY <1>6, <3>1, <3>2
  <2> QED
    BY <2>1, <2>2
<1>14. BlackIsFinished'
  <2>1. \A i \in Nodes : Unseen(i) = {} => Unseen(i)' = {}
    BY <1>1 DEF Unseen
  <2> SUFFICES ASSUME NEW i \in Nodes, color'[i] = "black"
               PROVE  /\ Unseen(i)' = {}
                      /\ \A m \in Kept \cup {n} : edges[m].src = i => color'[edges[m].tgt] = "black"
    BY <1>1, <1>5 DEF BlackIsFinished
  <2>2. /\ Unseen(i) = {} /\ i # Top
        /\ \A m \in Kept : edges[m].src = i => color[edges[m].tgt] = "black"
    BY <1>1, <1>2, <1>6 DEF SearchInv, BlackIsFinished
  <2> QED
    BY <1>6, <1>7, <1>8, <2>1, <2>2
<1>15. BlackIsAcyclic'
  <2>1. Black' = Black
    BY <1>6 DEF Black
  <2>2. ASSUME NEW S \in (SUBSET Black) \ {{}} PROVE HasSink(S, Kept \cup {n})
    <3>1. PICK i \in S : \A m \in Kept : edges[m].src = i => edges[m].tgt \notin S
      BY <1>1 DEF SearchInv, BlackIsAcyclic, HasSink
    <3>2. edges[n].src # i
      BY <1>2, <1>8 DEF Black
    <3> QED
      BY <3>1, <3>2 DEF HasSink
  <2> QED
    BY <1>1, <1>5, <2>1, <2>2 DEF BlackIsAcyclic, HasSink
<1>16. CutsCloseCycles'
  <2>1. \A S : Closed(S)' => Closed(S)
    BY <1>1, <1>5 DEF Closed
  <2> QED
    BY <1>1, <2>1 DEF SearchInv, CutsCloseCycles
<1> QED
  BY <1>1, <1>10, <1>11, <1>12, <1>13, <1>14, <1>15, <1>16 DEF SearchInv, BeforeSearch

LEMMA ReturnInv == SolverInv /\ SearchInv /\ Return => SearchInv'
<1> SUFFICES ASSUME TypeOK, NoSelfLoop, SearchInv, Return PROVE SearchInv'
  BY DEF SolverInv
<1> DEFINE L == Len(path)
<1>1. /\ pc = "cycles" /\ pc' = "cycles" /\ path # <<>> /\ Unseen(Top) = {}
      /\ color' = [color EXCEPT ![Top] = "black"] /\ path' = SubSeq(path, 1, L - 1)
      /\ UNCHANGED <<edges, alive, seen, cut>>
  BY DEF Return, InCycles
<1>2. color \in [Nodes -> {"white", "gray", "black"}] /\ path \in Seq(Nodes)
  BY DEF TypeOK
<1>3. /\ Top \in Nodes /\ L \in Nat \ {0} /\ path[L] = Top /\ DOMAIN path = 1 .. L
  BY <1>1, <1>2, TopIsANode DEF Top
<1>4. /\ DOMAIN path' = 1 .. L - 1 /\ Len(path') = L - 1
      /\ \A k \in 1 .. L - 1 : path'[k] = path[k]
  BY <1>1, <1>2, <1>3
<1>5. Kept' = Kept /\ Directed' = Directed
  BY <1>1 DEF Kept, Directed
<1>6. \A m \in Kept : edges[m].src \in Nodes /\ edges[m].tgt \in Nodes /\ edges[m].src # edges[m].tgt
  BY <1>1, EndsAreNodes DEF SearchInv, SeenAreReached, Kept, Directed, NoSelfLoop
<1>7. /\ \A j \in Nodes : color'[j] = "black" <=> color[j] = "black" \/ j = Top
      /\ \A j \in Nodes : color'[j] = "white" => color[j] = "white"
      /\ \A j \in Nodes : color'[j] = "gray" <=> color[j] = "gray" /\ j # Top
  BY <1>1, <1>2, <1>3
<1>8. color[Top] = "gray"
  BY <1>1, <1>3 DEF SearchInv, GrayIsTheStack
<1> HIDE DEF L
<1>9. GrayIsTheStack'
  <2>1. \A k, l \in 1 .. L : path[k] = path[l] => k = l
    BY <1>1, <1>3 DEF SearchInv, GrayIsTheStack
  <2>2. \A i \in Nodes : color'[i] = "gray" <=> \E k \in 1 .. L - 1 : path'[k] = i
    <3> SUFFICES ASSUME NEW i \in Nodes PROVE color'[i] = "gray" <=> \E k \in 1 .. L - 1 : path'[k] = i
      OBVIOUS
    <3>1. color[i] = "gray" <=> \E k \in 1 .. L : path[k] = i
      BY <1>1, <1>3 DEF SearchInv, GrayIsTheStack
    <3>2. \A k \in 1 .. L : path[k] # Top <=> k \in 1 .. L - 1
      BY <1>3, <2>1
    <3> QED
      BY <1>3, <1>4, <1>7, <3>1, <3>2
  <2> QED
    BY <1>3, <1>4, <2>1, <2>2 DEF GrayIsTheStack
<1>10. StackIsLinked'
  BY <1>1, <1>3, <1>4, <1>5 DEF SearchInv, StackIsLinked, Closed
<1>11. OneLeadsOn'
  <2> SUFFICES ASSUME NEW k \in 1 .. L - 1, NEW m \in Kept, edges[m].src = path'[k]
               PROVE  color'[edges[m].tgt] = "black" \/ (k < L - 1 /\ edges[m].tgt = path'[k + 1])
    BY <1>1, <1>4, <1>5 DEF OneLeadsOn
  <2>0. k \in DOMAIN path /\ edges[m].src = path[k]
    BY <1>3, <1>4
  <2>1. color[edges[m].tgt] = "black" \/ edges[m].tgt = path[k + 1]
    BY <1>1, <2>0 DEF SearchInv, OneLeadsOn
  <2>2. k = L - 1 => path[k + 1] = Top
    BY <1>3
  <2> QED
    BY <1>3, <1>4, <1>6, <1>7, <2>1, <2>2
<1>12. SeenAreReached'
  <2> SUFFICES ASSUME NEW m \in seen
               PROVE  /\ m \in Directed /\ color'[edges[m].src] # "white"
                      /\ m \notin cut => color'[edges[m].tgt] # "white"
    BY <1>1, <1>5 DEF SeenAreReached
  <2>1. /\ m \in Directed /\ color[edges[m].src] # "white"
        /\ m \notin cut => color[edges[m].tgt] # "white"
    BY <1>1 DEF SearchInv, SeenAreReached
  <2>2. edges[m].src \in Nodes /\ edges[m].tgt \in Nodes
    BY <2>1, EndsAreNodes DEF Directed
  <2> QED
    BY <1>7, <2>1, <2>2
\* What the finished node kept leads to finished nodes.
<1>13. \A m \in Kept : edges[m].src = Top => color[edges[m].tgt] = "black"
  <2>1. L \in DOMAIN path /\ ~ (L < Len(path))
    BY <1>3 DEF L
  <2> QED
    BY <1>1, <1>3, <2>1 DEF SearchInv, OneLeadsOn
<1>14. BlackIsFinished'
  <2>1. \A i \in Nodes : Unseen(i)' = Unseen(i)
    BY <1>1 DEF Unseen
  <2> SUFFICES ASSUME NEW i \in Nodes, color'[i] = "black"
               PROVE  /\ Unseen(i) = {}
                      /\ \A m \in Kept : edges[m].src = i => color'[edges[m].tgt] = "black"
    BY <1>1, <1>5, <2>1 DEF BlackIsFinished
  <2>2. CASE i = Top
    BY <1>1, <1>6, <1>7, <1>13, <2>2
  <2>3. CASE i # Top
    BY <1>1, <1>6, <1>7, <2>3 DEF SearchInv, BlackIsFinished
  <2> QED
    BY <2>2, <2>3
<1>15. BlackIsAcyclic'
  <2>1. Black' = Black \cup {Top}
    BY <1>3, <1>7 DEF Black
  <2> SUFFICES ASSUME NEW S \in (SUBSET (Black \cup {Top})) \ {{}} PROVE HasSink(S, Kept)
    BY <1>1, <1>5, <2>1 DEF BlackIsAcyclic, HasSink
  <2>2. CASE S = {Top}
    BY <1>6, <2>2 DEF HasSink
  <2>3. CASE S # {Top}
    <3> DEFINE T == S \ {Top}
    <3>1. T \in (SUBSET Black) \ {{}}
      BY <2>3
    <3>2. PICK i \in T : \A m \in Kept : edges[m].src = i => edges[m].tgt \notin T
      BY <1>1, <3>1 DEF SearchInv, BlackIsAcyclic, HasSink
    <3>3. \A m \in Kept : edges[m].src = i => edges[m].tgt # Top
      BY <1>1, <1>8, <3>1 DEF SearchInv, BlackIsFinished, Black
    <3> QED
      BY <3>2, <3>3 DEF HasSink
  <2> QED
    BY <2>2, <2>3
<1>16. CutsCloseCycles'
  BY <1>1, <1>5 DEF SearchInv, CutsCloseCycles, Closed
<1> QED
  BY <1>1, <1>9, <1>10, <1>11, <1>12, <1>14, <1>15, <1>16 DEF SearchInv, BeforeSearch

\* When all nodes are finished the edges that are left are those the search kept.
LEMMA AcyclicInv == SolverInv /\ SearchInv /\ Acyclic => SearchInv'
<1> SUFFICES ASSUME TypeOK, SearchInv, Acyclic PROVE SearchInv'
  BY DEF SolverInv
<1>1. /\ pc = "cycles" /\ pc' = "done" /\ path = <<>> /\ \A i \in Nodes : color[i] # "white"
      /\ alive' = alive \ cut /\ UNCHANGED <<edges, color, seen, cut>>
  BY DEF Acyclic, dfsVars
<1>2. \A i \in Nodes : color[i] = "black"
  <2>1. \A i \in Nodes : color[i] # "gray"
    BY <1>1 DEF SearchInv, GrayIsTheStack
  <2> QED
    BY <1>1, <2>1 DEF TypeOK
<1>3. Directed' \subseteq Kept
  <2> SUFFICES ASSUME NEW n \in alive, n \notin cut, edges[n].link # "NearTo" PROVE n \in seen
    BY <1>1 DEF Directed, Kept
  <2>1. Unseen(edges[n].src) = {}
    BY <1>1, <1>2, EndsAreNodes DEF SearchInv, BlackIsFinished
  <2> QED
    BY <2>1 DEF Unseen
<1>4. ASSUME NEW S \in (SUBSET Nodes) \ {{}} PROVE HasSink(S, Directed)'
  <2>1. S \in (SUBSET Black) \ {{}}
    BY <1>2 DEF Black
  <2>2. PICK i \in S : \A n \in Kept : edges[n].src = i => edges[n].tgt \notin S
    BY <1>1, <2>1 DEF SearchInv, BlackIsAcyclic, HasSink
  <2> QED
    BY <1>1, <1>3, <2>2 DEF HasSink
<1>5. CutsCloseCycles'
  BY <1>1, <1>4 DEF CutsCloseCycles
<1> QED
  BY <1>1, <1>5 DEF SearchInv, BeforeSearch

LEMMA SearchStutter == SearchInv /\ UNCHANGED vars => SearchInv'
<1> SUFFICES ASSUME SearchInv, UNCHANGED vars PROVE SearchInv'
  OBVIOUS
<1>1. UNCHANGED <<pc, edges, alive, color, path, seen, cut>>
  BY DEF vars, dfsVars
<1>2. Kept' = Kept /\ Directed' = Directed /\ Black' = Black /\ \A i \in Nodes : Unseen(i)' = Unseen(i)
  BY <1>1 DEF Kept, Directed, Black, Unseen
<1>3. CutsCloseCycles'
  BY <1>1, <1>2 DEF SearchInv, CutsCloseCycles, Closed, HasSink
<1>4. BeforeSearch' <=> BeforeSearch
  BY <1>1 DEF BeforeSearch
<1>5. CASE pc # "cycles"
  BY <1>1, <1>3, <1>4, <1>5 DEF SearchInv
<1>6. CASE pc = "cycles"
  <2>1. GrayIsTheStack' /\ StackIsLinked' /\ OneLeadsOn'
    BY <1>1, <1>2, <1>6 DEF SearchInv, GrayIsTheStack, StackIsLinked, OneLeadsOn, Closed
  <2>2. SeenAreReached' /\ BlackIsFinished' /\ BlackIsAcyclic'
    BY <1>1, <1>2, <1>6 DEF SearchInv, SeenAreReached, BlackIsFinished, BlackIsAcyclic, HasSink
  <2> QED
    BY <1>1, <1>3, <1>4, <1>6, <2>1, <2>2 DEF SearchInv, BeforeSearch
<1> QED
  BY <1>5, <1>6

LEMMA SearchStep == SolverInv /\ SearchInv /\ [Next]_vars => SearchInv'
  BY BeforeSearchInv, RootInv, CutBackEdgeInv, DescendInv, KeepCrossEdgeInv, ReturnInv, AcyclicInv,
     SearchStutter DEF Next, Search

(***************************************************************************)
(* breakCycles drops an edge only if it closes a cycle with edges that are *)
(* kept, and what it leaves has no cycle, for every graph.                 *)
(***************************************************************************)
THEOREM CyclesAreBroken == Spec => []CutsCloseCycles
<1>1. SearchInv => CutsCloseCycles
  BY DEF SearchInv
<1> QED
  BY SearchInit, SearchStep, <1>1, SolverInvariant, PTL DEF Spec

(* ---------------------------------------------------------------------- *)
(* The validator's recursions: pairs that are taken away until none or as  *)
(* many are left, and nodes that are added until no more are found.        *)

\* No pair of S ends where none of S begins.
Stuck(S) == S # {} /\ \A p \in S : \E q \in S : q[1] = p[2]

\* A set has more elements than a part of it.
LEMMA PartIsSmaller ==
  ASSUME NEW B, IsFiniteSet(B), NEW A \in SUBSET B, A # B
  PROVE  Cardinality(A) < Cardinality(B)
<1>1. Cardinality(A) <= Cardinality(B) /\ Cardinality(A) # Cardinality(B)
  BY FS_Subset
<1>2. Cardinality(A) \in Nat /\ Cardinality(B) \in Nat
  BY FS_Subset, FS_CardinalityType
<1> QED
  BY <1>1, <1>2

\* Pairs among which none are stuck peel off to the last.
LEMMA AcyclicPairs ==
  ASSUME NEW pairs, IsFiniteSet(pairs), \A S \in SUBSET pairs : (\A p \in S : p[1] # p[2]) => ~Stuck(S)
  PROVE  V!Acyclic(pairs)
<1> DEFINE rest(S) == {p \in S : \E q \in S : q[1] = p[2]}
           IsPeels(f) == f = [S \in SUBSET pairs |-> IF rest(S) = S THEN S = {} ELSE f[rest(S)]]
           Peels == CHOOSE f : IsPeels(f)
           free(S) == \A T \in SUBSET S : ~Stuck(T)
           h == [S \in SUBSET pairs |-> free(S)]
<1>1. V!Acyclic(pairs) = Peels[{p \in pairs : p[1] # p[2]}]
  BY DEF V!Acyclic
<1>2. IsPeels(h)
  <2>1. ASSUME NEW S \in SUBSET pairs
        PROVE  h[S] = IF rest(S) = S THEN S = {} ELSE h[rest(S)]
    <3>1. CASE rest(S) = S
      <4>1. free(S) <=> S = {}
        BY <3>1 DEF Stuck
      <4>2. h[S] = (S = {})
        BY <4>1
      <4> HIDE DEF h, rest
      <4> QED
        BY <3>1, <4>2, Zenon
    <3>2. CASE rest(S) # S
      <4>1. \A T \in SUBSET S : Stuck(T) => T \subseteq rest(S)
        BY DEF Stuck
      <4>2. free(S) <=> free(rest(S))
        BY <4>1
      <4>3. rest(S) \in SUBSET pairs
        OBVIOUS
      <4> QED
        BY <3>2, <4>2, <4>3
    <3> QED
      BY <3>1, <3>2
  <2>2. h = [S \in SUBSET pairs |-> h[S]]
    OBVIOUS
  <2> HIDE DEF h, rest
  <2> QED
    BY <2>1, <2>2
<1>3. IsPeels(Peels)
  <2> HIDE DEF h, IsPeels
  <2> QED
    BY <1>2
<1>4. \A S \in SUBSET pairs : Peels[S] = IF rest(S) = S THEN S = {} ELSE Peels[rest(S)]
  <2> HIDE DEF Peels, rest
  <2> QED
    BY <1>3
<1> HIDE DEF Peels
<1> DEFINE Bad == {S \in SUBSET pairs : free(S) /\ ~(Peels[S] = TRUE)}
<1>5. Bad = {}
  <2> SUFFICES ASSUME Bad # {} PROVE FALSE
    OBVIOUS
  <2> DEFINE sizes == {Cardinality(S) : S \in Bad}
  <2>1. \A S \in SUBSET pairs : IsFiniteSet(S) /\ Cardinality(S) \in Nat
    BY FS_Subset, FS_CardinalityType
  <2>2. sizes \in SUBSET Nat /\ sizes # {}
    BY <2>1
  <2>3. PICK S \in Bad : \A T \in Bad : Cardinality(S) <= Cardinality(T)
    <3> HIDE DEF sizes, Bad
    <3>1. PICK m \in sizes : \A k \in sizes : m <= k
      BY <2>2, LeastElement
    <3> QED
      BY <3>1 DEF sizes
  <2>4. CASE rest(S) = S
    <3>1. Peels[S] = (S = {})
      BY <1>4, <2>4
    <3>2. S = {}
      BY <2>3, <2>4 DEF Stuck
    <3> QED
      BY <2>3, <3>1, <3>2
  <2>5. CASE rest(S) # S
    <3>1. Peels[S] = Peels[rest(S)]
      BY <1>4, <2>5
    <3>2. rest(S) \in Bad
      BY <2>3, <3>1
    <3>3. rest(S) \subseteq S /\ rest(S) # S
      BY <2>5
    <3>4. Cardinality(rest(S)) < Cardinality(S)
      <4> HIDE DEF rest
      <4> QED
        BY <2>1, <3>3, PartIsSmaller
    <3>5. Cardinality(S) \in Nat /\ Cardinality(rest(S)) \in Nat
      BY <2>1, <3>2
    <3> HIDE DEF rest, Bad
    <3> QED
      BY <2>3, <3>2, <3>4, <3>5
  <2> QED
    BY <2>4, <2>5
<1>6. {p \in pairs : p[1] # p[2]} \notin Bad
  BY <1>5
<1>7. free({p \in pairs : p[1] # p[2]})
  OBVIOUS
<1> QED
  BY <1>1, <1>6, <1>7

\* What holds of the nodes a node leads to directly, and of the next if of one, holds of all that come after.
LEMMA AfterIsIn ==
  ASSUME NEW pairs, NEW n, NEW W, IsFiniteSet(V!Ends(pairs)),
         \A p \in pairs : p[1] = n \/ p[1] \in W => p[2] \in W
  PROVE  V!After(pairs, n) \subseteq W
<1> DEFINE Ends == V!Ends(pairs)
           more(S) == S \cup {p[2] : p \in {q \in pairs : q[1] \in S}}
           IsReach(f) == f = [S \in SUBSET Ends |-> IF more(S) = S THEN S ELSE f[more(S)]]
           Reach == CHOOSE f : IsReach(f)
           closed(U) == \A p \in pairs : p[1] \in U => p[2] \in U
           h == [S \in SUBSET Ends |-> {x \in Ends : \A U \in SUBSET Ends : S \subseteq U /\ closed(U) => x \in U}]
           direct == {p[2] : p \in {q \in pairs : q[1] = n}}
<1>0. \A p \in pairs : p[2] \in Ends
  BY DEF V!Ends
<1>1. V!After(pairs, n) = Reach[direct]
  BY DEF V!After
<1> HIDE DEF Ends
<1>2. IsReach(h)
  <2>1. ASSUME NEW S \in SUBSET Ends
        PROVE  h[S] = IF more(S) = S THEN S ELSE h[more(S)]
    <3>0. more(S) \in SUBSET Ends
      BY <1>0
    <3>1. CASE more(S) = S
      <4>1. closed(S)
        BY <3>1
      <4> QED
        BY <3>1, <4>1
    <3>2. CASE more(S) # S
      <4>1. \A U \in SUBSET Ends : closed(U) => (S \subseteq U <=> more(S) \subseteq U)
        OBVIOUS
      <4>2. h[S] = h[more(S)]
        BY <3>0, <4>1
      <4> QED
        BY <3>2, <4>2
    <3> QED
      BY <3>1, <3>2
  <2>2. h = [S \in SUBSET Ends |-> h[S]]
    OBVIOUS
  <2> HIDE DEF h, more
  <2> QED
    BY <2>1, <2>2
<1>3. IsReach(Reach)
  <2> HIDE DEF h, IsReach
  <2> QED
    BY <1>2
<1>4. \A S \in SUBSET Ends : Reach[S] = IF more(S) = S THEN S ELSE Reach[more(S)]
  <2> HIDE DEF Reach, more
  <2> QED
    BY <1>3
<1> HIDE DEF Reach
<1> DEFINE Bad == {S \in SUBSET Ends : S \subseteq W /\ ~(Reach[S] \subseteq W)}
<1>5. Bad = {}
  <2> SUFFICES ASSUME Bad # {} PROVE FALSE
    OBVIOUS
  <2> DEFINE left == {Cardinality(Ends \ S) : S \in Bad}
  <2>1. \A S : IsFiniteSet(Ends \ S) /\ Cardinality(Ends \ S) \in Nat
    BY FS_Difference, FS_CardinalityType DEF Ends
  <2>2. left \in SUBSET Nat /\ left # {}
    BY <2>1
  <2>3. PICK S \in Bad : \A T \in Bad : Cardinality(Ends \ S) <= Cardinality(Ends \ T)
    <3> HIDE DEF left, Bad
    <3>1. PICK m \in left : \A k \in left : m <= k
      BY <2>2, LeastElement
    <3> QED
      BY <3>1 DEF left
  <2>4. more(S) # S /\ Reach[S] = Reach[more(S)]
    BY <1>4, <2>3
  <2>5. more(S) \in SUBSET Ends /\ more(S) \subseteq W
    BY <1>0, <2>3
  <2>6. more(S) \in Bad
    BY <2>3, <2>4, <2>5
  <2>7. Ends \ more(S) \subseteq Ends \ S /\ Ends \ more(S) # Ends \ S
    BY <2>4, <2>5
  <2> HIDE DEF more, Bad
  <2>8. Cardinality(Ends \ more(S)) < Cardinality(Ends \ S)
    BY <2>1, <2>7, PartIsSmaller
  <2>9. Cardinality(Ends \ S) <= Cardinality(Ends \ more(S))
    BY <2>3, <2>6
  <2> QED
    BY <2>1, <2>8, <2>9
<1>6. direct \in SUBSET Ends /\ direct \subseteq W
  BY <1>0
<1> QED
  BY <1>1, <1>5, <1>6

(* ---------------------------------------------------------------------- *)
(* The graph that is left.                                                 *)

\* The pairs of a directed link are those of directed edges that are left.
LEMMA PairsAreDirected ==
  ASSUME TypeOK, NEW link, link # "NearTo", NEW p \in V!Pairs(KeptEdges, link)
  PROVE  /\ p \in Nodes \X Nodes
         /\ \E n \in Directed : edges[n].src = p[1] /\ edges[n].tgt = p[2]
<1>1. PICK n \in alive : edges[n].link = link /\ p = <<edges[n].src, edges[n].tgt>>
  BY DEF V!Pairs, KeptEdges
<1>2. edges[n].src \in Nodes /\ edges[n].tgt \in Nodes
  BY <1>1, EndsAreNodes
<1> QED
  BY <1>1, <1>2 DEF Directed

\* Some node of every set leads out of it, so no directed pairs are stuck.
Sinks == \A S \in (SUBSET Nodes) \ {{}} : HasSink(S, Directed)
LEMMA DirectedAreNotStuck ==
  ASSUME TypeOK, Sinks, NEW T,
         \A p \in T : p[1] \in Nodes /\ \E n \in Directed : edges[n].src = p[1] /\ edges[n].tgt = p[2]
  PROVE  ~Stuck(T)
<1> SUFFICES ASSUME Stuck(T) PROVE FALSE
  OBVIOUS
<1> DEFINE S == {p[1] : p \in T}
<1>1. S \in (SUBSET Nodes) \ {{}}
  <2>1. T # {} /\ \A p \in T : p[1] \in Nodes
    BY DEF Stuck
  <2> QED
    BY <2>1
<1>2. PICK i \in S : \A n \in Directed : edges[n].src = i => edges[n].tgt \notin S
  BY <1>1 DEF Sinks, HasSink
<1>3. PICK p \in T, q \in T : p[1] = i /\ q[1] = p[2]
  BY DEF Stuck
<1> QED
  BY <1>2, <1>3

LEMMA PairsAreFinite == \A P \in SUBSET (Nodes \X Nodes) : IsFiniteSet(P)
<1>1. IsFiniteSet(Nodes)
  BY NodesAssumption, FS_Interval DEF Nodes
<1> QED
  BY <1>1, FS_Product, FS_Subset

LEMMA LinksAreAcyclic ==
  ASSUME TypeOK, Sinks, NEW link, link # "NearTo"
  PROVE  V!Acyclic(V!Pairs(KeptEdges, link))
<1> DEFINE P == V!Pairs(KeptEdges, link)
<1>1. \A p \in P : p \in Nodes \X Nodes /\ \E n \in Directed : edges[n].src = p[1] /\ edges[n].tgt = p[2]
  BY PairsAreDirected
<1> HIDE DEF P
<1>2. \A T \in SUBSET P : ~Stuck(T)
  BY <1>1, DirectedAreNotStuck
<1>3. P \in SUBSET (Nodes \X Nodes)
  BY <1>1
<1>4. IsFiniteSet(P)
  BY <1>3, PairsAreFinite
<1>5. V!Acyclic(P)
  BY <1>2, <1>4, AcyclicPairs
<1> QED
  BY <1>5 DEF P

\* The parts of a node are nodes, and whatever holds of its direct parts and of theirs.
LEMMA PartsAreIn ==
  ASSUME TypeOK, NEW c, NEW W,
         \A n \in Directed : edges[n].tgt = c \/ edges[n].tgt \in W => edges[n].src \in W
  PROVE  V!PartsOf(KeptEdges, c) \subseteq W
<1> DEFINE P == V!Pairs(KeptEdges, "PartOf")
           Q == V!Turned(P)
<1>1. \A p \in P : p \in Nodes \X Nodes /\ \E n \in Directed : edges[n].src = p[1] /\ edges[n].tgt = p[2]
  BY PairsAreDirected
<1> HIDE DEF P
<1>2. ASSUME NEW q \in Q
      PROVE  q \in Nodes \X Nodes /\ \E n \in Directed : edges[n].src = q[2] /\ edges[n].tgt = q[1]
  <2>1. PICK p \in P : q = <<p[2], p[1]>>
    BY DEF V!Turned
  <2> QED
    BY <1>1, <2>1
<1> HIDE DEF Q
<1>3. IsFiniteSet(V!Ends(Q))
  <2>1. V!Ends(Q) \subseteq Nodes
    BY <1>2 DEF V!Ends
  <2>2. IsFiniteSet(Nodes)
    BY NodesAssumption, FS_Interval DEF Nodes
  <2> QED
    BY <2>1, <2>2, FS_Subset
<1>4. V!After(Q, c) \subseteq W
  BY <1>2, <1>3, AfterIsIn
<1>5. V!PartsOf(KeptEdges, c) \subseteq V!After(Q, c)
  BY DEF V!PartsOf, Q, P
<1> QED
  BY <1>4, <1>5

LEMMA HappensBeforeIsAcyclic ==
  ASSUME TypeOK, Sinks
  PROVE  V!Acyclic(V!HappensBefore(KeptEdges))
<1> DEFINE leads == V!Pairs(KeptEdges, "LeadsTo")
           before == V!HappensBefore(KeptEdges)
<1>0. \A p \in leads : p \in Nodes \X Nodes /\ \E n \in Directed : edges[n].src = p[1] /\ edges[n].tgt = p[2]
  BY PairsAreDirected
<1>1. \A p \in before : \/ p \in leads
                        \/ \E l \in leads : p \in V!PartsOf(KeptEdges, l[1]) \X {l[2]}
  BY DEF V!HappensBefore
<1>2. \A c : V!PartsOf(KeptEdges, c) \subseteq Nodes
  <2>1. \A n \in Directed : edges[n].src \in Nodes
    BY EndsAreNodes DEF Directed
  <2> QED
    BY <2>1, PartsAreIn
<1> HIDE DEF before, leads
<1>3. \A p \in before : p \in Nodes \X Nodes
  BY <1>0, <1>1, <1>2
<1>4. ASSUME NEW T \in SUBSET before, Stuck(T) PROVE FALSE
  <2> DEFINE X == {p[1] : p \in T}
             back(U) == \A n \in Directed : edges[n].tgt \in U => edges[n].src \in U
             S == {i \in Nodes : \A U \in SUBSET Nodes : X \subseteq U /\ back(U) => i \in U}
  <2>1. X # {} /\ X \subseteq Nodes
    <3>1. T # {} /\ \A p \in T : p[1] \in Nodes
      BY <1>3, <1>4 DEF Stuck
    <3> QED
      BY <3>1
  <2>2. X \subseteq S
    BY <2>1
  <2>3. back(S)
    <3> SUFFICES ASSUME NEW n \in Directed, edges[n].tgt \in S PROVE edges[n].src \in S
      OBVIOUS
    <3>1. edges[n].src \in Nodes
      BY EndsAreNodes DEF Directed
    <3> QED
      BY <3>1
  <2>4. S \in (SUBSET Nodes) \ {{}}
    BY <2>1, <2>2
  <2> HIDE DEF X
  <2>5. PICK i \in S : \A n \in Directed : edges[n].src = i => edges[n].tgt \notin S
    <3> HIDE DEF S
    <3> QED
      BY <2>4 DEF Sinks, HasSink
  <2>6. CASE i \notin X
    <3> DEFINE U == S \ {i}
    <3>1. X \subseteq U /\ U \in SUBSET Nodes
      BY <2>2, <2>4, <2>6
    <3>2. back(U)
      <4> HIDE DEF S
      <4> QED
        BY <2>3, <2>5
    <3>3. i \in U
      BY <2>5, <3>1, <3>2
    <3> QED
      BY <3>3
  <2>7. CASE i \in X
    <3>1. PICK p \in T : p[1] = i /\ p[2] \in X
      BY <1>4, <2>7 DEF Stuck, X
    <3>2. p[2] \in S
      BY <2>2, <3>1
    <3> HIDE DEF S
    <3>3. CASE p \in leads
      BY <1>0, <2>5, <3>1, <3>2, <3>3
    <3>4. ASSUME NEW l \in leads, p \in V!PartsOf(KeptEdges, l[1]) \X {l[2]} PROVE FALSE
      <4> DEFINE W == {j \in Nodes : \E n \in Directed : edges[n].src = j /\ edges[n].tgt \in S}
      <4>1. l[2] = p[2] /\ i \in V!PartsOf(KeptEdges, l[1])
        BY <3>1, <3>4
      <4>2. l[1] \in S
        BY <1>0, <2>3, <3>2, <4>1
      <4>3. ASSUME NEW n \in Directed, edges[n].tgt = l[1] \/ edges[n].tgt \in W PROVE edges[n].src \in W
        <5>1. edges[n].tgt \in S
          BY <2>3, <4>2, <4>3
        <5>2. edges[n].src \in Nodes
          BY EndsAreNodes DEF Directed
        <5> QED
          BY <5>1, <5>2
      <4> HIDE DEF W
      <4>4. i \in W
        BY <4>1, <4>3, PartsAreIn
      <4> QED
        BY <2>5, <4>4 DEF W
    <3> QED
      BY <1>1, <1>4, <3>3, <3>4
  <2> QED
    BY <2>6, <2>7
<1>5. before \in SUBSET (Nodes \X Nodes)
  BY <1>3
<1>6. IsFiniteSet(before)
  BY <1>5, PairsAreFinite
<1>7. V!Acyclic(before)
  BY <1>4, <1>6, AcyclicPairs
<1> QED
  BY <1>7 DEF before

(* ---------------------------------------------------------------------- *)
(* The validator on the solver's output.                                   *)

LEMMA OutputInit == Init => OutputInv
  BY DEF Init, OutputInv

LEMMA OutputStep == SolverInv /\ OutputInv /\ [Next]_vars => OutputInv'
<1> SUFFICES ASSUME TypeOK, OutputInv, [Next]_vars PROVE OutputInv'
  BY DEF SolverInv
<1>1. CASE Dedupe
  <2>1. pc' = "order" /\ edges' = edges /\ alive' = {n \in DOMAIN edges : FirstOfPair(n)}
    BY <1>1 DEF Dedupe
  <2>2. ASSUME NEW n \in alive', NEW m \in alive', {edges[n].src, edges[n].tgt} = {edges[m].src, edges[m].tgt}
        PROVE  n = m
    <3>1. n \in Nat /\ m \in Nat /\ n >= 1 /\ m >= 1
      BY <2>1 DEF TypeOK
    <3>2. ~(n < m) /\ ~(m < n)
      BY <2>1, <2>2, <3>1 DEF FirstOfPair
    <3> QED
      BY <3>1, <3>2
  <2> QED
    BY <2>1, <2>2 DEF OutputInv
<1>2. ASSUME pc # "dedupe", pc' \notin {"drop", "cycles", "done"}, UNCHANGED <<edges, alive>> PROVE OutputInv'
  BY <1>2 DEF OutputInv
<1>3. CASE VisitNode \/ NextPass \/ LastPass \/ Pick
  <2>1. pc # "dedupe" /\ pc' \notin {"drop", "cycles", "done"} /\ UNCHANGED <<edges, alive>>
    BY <1>3 DEF VisitNode, NextPass, LastPass, Pick, PassOver, TryKind, Retreat, Picked, Searching
  <2> QED
    BY <1>2, <2>1
<1>4. CASE ApplyDefaults
  <2>1. pc = "defaults" /\ pc' = "drop" /\ UNCHANGED <<edges, alive, defaults>>
    BY <1>4 DEF ApplyDefaults
  <2>2. ASSUME defaults, NEW i \in Nodes PROVE ~Unresolved(i)'
    <3>1. conf'[i] = IF Unresolved(i) THEN "Default" ELSE conf[i]
      BY <1>4, <2>2 DEF ApplyDefaults
    <3> QED
      BY <3>1 DEF Unresolved
  <2> QED
    BY <2>1, <2>2 DEF OutputInv
<1>5. ASSUME pc \in {"drop", "cycles"}, edges' = edges, alive' \subseteq alive,
             UNCHANGED <<dom, conf, pick, defaults>>, \A n \in alive' : InTable(n)
      PROVE  OutputInv'
  BY <1>5 DEF OutputInv, InTable, EffType, Unresolved
<1>6. CASE DropInvalidEdges
  BY <1>5, <1>6 DEF DropInvalidEdges, pickVars, InTable
<1>7. CASE Search
  <2>1. pc = "cycles" /\ edges' = edges /\ alive' \subseteq alive /\ UNCHANGED <<dom, conf, pick, defaults>>
    BY <1>7 DEF Search, Root, CutBackEdge, Descend, KeepCrossEdge, Return, Acyclic, InCycles, pickVars
  <2> QED
    BY <1>5, <2>1 DEF OutputInv
<1>8. CASE UNCHANGED vars
  BY <1>8 DEF vars, pickVars, OutputInv, InTable, EffType, Unresolved
<1> QED
  BY <1>1, <1>3, <1>4, <1>6, <1>7, <1>8 DEF Next, Order

\* The solver's table and the validator's are the same.
LEMMA TablesAgree ==
  ASSUME NEW link \in Links, NEW s \in Kinds, NEW t \in Kinds, TypePairValid(link, s, t)
  PROVE  <<s, t>> \in V!TypePairs(link)
  BY DEF Links, Kinds, TypePairValid, V!TypePairs

LEMMA EffTypeIsAKind == ASSUME TypeOK, NEW i \in Nodes PROVE EffType(i) \in Kinds
<1>1. FirstKind(dom[i]) \in Kinds
  BY DEF FirstKind, Kinds
<1>2. pick[i] \in Kinds \cup {None}
  BY DEF TypeOK
<1> QED
  BY <1>1, <1>2 DEF EffType

\* A graph in which the six checks that find errors find none is refused for its grey nodes
\* alone, and for those under the gate alone.
LEMMA OnlyGreyIsAnError ==
  ASSUME NEW g, NEW strict \in BOOLEAN,
         V!SelfLoopCheck(g.edges), V!DuplicatePairCheck(g.edges), V!TypePairCheck(g.edges, g.eff),
         V!PartOfDagCheck(g.edges), V!LeadsToDagCheck(g.edges), V!HappensBeforeCheck(g.edges)
  PROVE  V!HasErrors(V!RunChecks(g, strict)) <=>
           strict /\ \E n \in DOMAIN g.stored : g.stored[n] = "Unresolved"
<1> DEFINE severity == IF strict THEN "error" ELSE "warning"
           grey     == V!Listed("IPMV1.5", severity, V!Singly(V!UndecidedKinds(g.stored)))
           Warns(S) == \A f \in S : f.severity # "error"
<1>1. ASSUME NEW code PROVE V!Errors(code, TRUE) = {}
  BY DEF V!Errors
<1>2. ASSUME NEW code, NEW found, NEW sev \in {"warning", "info"} PROVE Warns(V!Listed(code, sev, found))
  BY <1>2 DEF V!Listed, V!Finding
<1>3. /\ Warns(V!Listed("IPMV1.4", "warning", V!RedundantParents(g.edges, g.stored)))
      /\ Warns(V!Listed("IPMV2.7", "warning", V!UnorderedSiblings(g.edges, g.eff)))
      /\ Warns(V!Listed("IPMV2.8", "warning", V!ContainerCrossings(g.edges)))
      /\ Warns(V!Listed("IPMV2.9", "warning", V!SubPartEndpoints(g.edges, g.eff)))
      /\ Warns(V!Listed("IPMV4.5.3", "info", V!Singly(V!StrandedThings(g.edges, g.stored))))
      /\ Warns(V!Listed("IPMV4.5.4", "info", V!Singly(V!StrandedEvents(g.edges, g.stored))))
  BY <1>2
<1>4. ASSUME NEW f \in V!RunChecks(g, strict), f.severity = "error" PROVE f \in grey
  <2> HIDE DEF Warns
  <2>1. \/ f \in V!Errors("IPMV1.1", V!SelfLoopCheck(g.edges))
        \/ f \in V!Errors("IPMV1.2", V!DuplicatePairCheck(g.edges))
        \/ f \in V!Errors("IPMV1.3", V!TypePairCheck(g.edges, g.eff))
        \/ f \in V!Errors("IPMV2.1", V!PartOfDagCheck(g.edges))
        \/ f \in V!Errors("IPMV2.2", V!LeadsToDagCheck(g.edges))
        \/ f \in V!Errors("IPMV2.6", V!HappensBeforeCheck(g.edges))
        \/ f \in V!Listed("IPMV1.4", "warning", V!RedundantParents(g.edges, g.stored))
        \/ f \in V!Listed("IPMV2.7", "warning", V!UnorderedSiblings(g.edges, g.eff))
        \/ f \in V!Listed("IPMV2.8", "warning", V!ContainerCrossings(g.edges))
        \/ f \in V!Listed("IPMV2.9", "warning", V!SubPartEndpoints(g.edges, g.eff))
        \/ f \in V!Listed("IPMV4.5.3", "info", V!Singly(V!StrandedThings(g.edges, g.stored)))
        \/ f \in V!Listed("IPMV4.5.4", "info", V!Singly(V!StrandedEvents(g.edges, g.stored)))
        \/ f \in grey
    BY <1>4 DEF V!RunChecks
  <2>2. ASSUME NEW S, Warns(S) PROVE f \notin S
    BY <1>4, <2>2 DEF Warns
  <2>3. /\ V!Errors("IPMV1.1", V!SelfLoopCheck(g.edges)) = {}
        /\ V!Errors("IPMV1.2", V!DuplicatePairCheck(g.edges)) = {}
        /\ V!Errors("IPMV1.3", V!TypePairCheck(g.edges, g.eff)) = {}
        /\ V!Errors("IPMV2.1", V!PartOfDagCheck(g.edges)) = {}
        /\ V!Errors("IPMV2.2", V!LeadsToDagCheck(g.edges)) = {}
        /\ V!Errors("IPMV2.6", V!HappensBeforeCheck(g.edges)) = {}
    BY DEF V!Errors
  <2> HIDE DEF grey
  <2> QED
    BY <2>1, <2>2, <2>3, <1>3
<1>5. grey \subseteq V!RunChecks(g, strict)
  BY DEF V!RunChecks
<1>6. grey = {[code |-> "IPMV1.5", severity |-> severity, about |-> <<n>>] : n \in V!UndecidedKinds(g.stored)}
  BY DEF V!Listed, V!Singly, V!Finding
<1>7. ASSUME V!HasErrors(V!RunChecks(g, strict))
      PROVE  strict /\ \E n \in DOMAIN g.stored : g.stored[n] = "Unresolved"
  <2>1. PICK f \in grey : f.severity = "error"
    BY <1>4, <1>7 DEF V!HasErrors
  <2>2. severity = "error" /\ V!UndecidedKinds(g.stored) # {}
    BY <1>6, <2>1
  <2> QED
    BY <2>2 DEF V!UndecidedKinds
<1>8. ASSUME strict, NEW n \in DOMAIN g.stored, g.stored[n] = "Unresolved"
      PROVE  V!HasErrors(V!RunChecks(g, strict))
  <2>1. n \in V!UndecidedKinds(g.stored)
    BY <1>8 DEF V!UndecidedKinds
  <2>2. [code |-> "IPMV1.5", severity |-> "error", about |-> <<n>>] \in grey
    BY <1>6, <1>8, <2>1
  <2> QED
    BY <1>5, <2>2 DEF V!HasErrors
<1> QED
  BY <1>7, <1>8

LEMMA OneLine == ASSUME NEW x, NEW s, s = <<x>> PROVE DOMAIN s = {1} /\ s[1] = x
  OBVIOUS

LEMMA ThreeLines ==
  ASSUME NEW x, NEW y, NEW z, NEW s, s = <<x, y, z>>
  PROVE  DOMAIN s = {1, 2, 3} /\ s[1] = x /\ s[2] = y /\ s[3] = z
  OBVIOUS

\* The flags of a fence, and the flags of a pragma on the first line that is not blank, are the
\* flags of the block.
LEMMA FenceIsRead ==
  ASSUME NEW b, NEW flags \in SUBSET V!KnownFlags, b.fence = flags, b.source = <<V!OtherLine>>
  PROVE  V!EffectiveMeta(b) = flags /\ V!MetaIsValid(b)
<1>1. DOMAIN b.source = {1} /\ b.source[1] = V!OtherLine
  BY OneLine
<1>2. b.source[1].k = "other" /\ b.source[1].flags = {}
  BY <1>1 DEF V!OtherLine
<1>3. UNION {b.source[i].flags : i \in DOMAIN b.source} = {}
  BY <1>1, <1>2
<1>4. V!EffectiveMeta(b) = flags
  BY <1>3 DEF V!EffectiveMeta
<1> QED
  BY <1>1, <1>2, <1>4 DEF V!MetaIsValid

LEMMA PragmaIsRead ==
  ASSUME NEW b, NEW flags \in SUBSET V!KnownFlags, b.fence = {},
         b.source = <<V!BlankLine, V!Pragma(flags), V!OtherLine>>
  PROVE  V!EffectiveMeta(b) = flags /\ V!MetaIsValid(b)
<1>1. /\ DOMAIN b.source = {1, 2, 3}
      /\ b.source[1] = V!BlankLine /\ b.source[2] = V!Pragma(flags) /\ b.source[3] = V!OtherLine
  BY ThreeLines
<1>2. /\ b.source[1].k = "blank" /\ b.source[1].flags = {}
      /\ b.source[2].k = "pragma" /\ b.source[2].flags = flags
      /\ b.source[3].k = "other" /\ b.source[3].flags = {}
  BY <1>1 DEF V!BlankLine, V!Pragma, V!OtherLine
<1>3. UNION {b.source[i].flags : i \in DOMAIN b.source} = flags
  BY <1>1, <1>2
<1>4. V!EffectiveMeta(b) = flags
  BY <1>3 DEF V!EffectiveMeta
<1>5. ASSUME NEW i \in DOMAIN b.source, b.source[i].k = "pragma", NEW j \in DOMAIN b.source, j < i
      PROVE  b.source[j].k = "blank"
  BY <1>1, <1>2, <1>5
<1> QED
  BY <1>4, <1>5 DEF V!MetaIsValid

(***************************************************************************)
(* What the solver returns passes the rules of ipm-validate                *)
(* (solve.go:277-330 against structural.go, dag.go, happens_before.go,     *)
(* undecided.go and main.go), for every graph, with and without defaults,  *)
(* and whichever way its flags are given.                                  *)
(***************************************************************************)
THEOREM TheOutputIsValid == Spec => []OutputIsValid
<1>1. ASSUME SolverInv, SearchInv, OutputInv, pc = "done" PROVE OutputIsValid
  <2>1. TypeOK /\ Sinks
    BY <1>1 DEF SolverInv, SearchInv, CutsCloseCycles, Sinks
  <2>2. V!SelfLoopCheck(KeptEdges) /\ V!DuplicatePairCheck(KeptEdges)
    BY <1>1 DEF SolverInv, NoSelfLoop, OutputInv, KeptEdges, V!SelfLoopCheck, V!DuplicatePairCheck
  <2>3. V!TypePairCheck(KeptEdges, [i \in Nodes |-> EffType(i)])
    <3>1. ASSUME NEW n \in alive
          PROVE  /\ edges[n].src \in Nodes /\ edges[n].tgt \in Nodes
                 /\ <<EffType(edges[n].src), EffType(edges[n].tgt)>> \in V!TypePairs(edges[n].link)
      <4>1. edges[n].src \in Nodes /\ edges[n].tgt \in Nodes /\ edges[n].link \in Links
        BY <2>1, EndsAreNodes
      <4>2. TypePairValid(edges[n].link, EffType(edges[n].src), EffType(edges[n].tgt))
        BY <1>1 DEF OutputInv, InTable
      <4>3. EffType(edges[n].src) \in Kinds /\ EffType(edges[n].tgt) \in Kinds
        BY <2>1, <4>1, EffTypeIsAKind
      <4> QED
        BY <4>1, <4>2, <4>3, TablesAgree
    <3> QED
      BY <3>1 DEF V!TypePairCheck, KeptEdges
  <2>4. V!PartOfDagCheck(KeptEdges) /\ V!LeadsToDagCheck(KeptEdges)
    BY <2>1, LinksAreAcyclic DEF V!PartOfDagCheck, V!LeadsToDagCheck
  <2>5. V!HappensBeforeCheck(KeptEdges)
    BY <2>1, HappensBeforeIsAcyclic DEF V!HappensBeforeCheck
  <2>6. Output.edges = KeptEdges /\ Output.eff = [i \in Nodes |-> EffType(i)]
        /\ Output.stored = [i \in Nodes |-> StoredType(i)]
    BY DEF Output
  <2>7. ASSUME NEW i \in Nodes PROVE Output.stored[i] = "Unresolved" <=> Unresolved(i)
    BY <2>6 DEF StoredType, FirstKind
  <2>8. ASSUME NEW strict \in BOOLEAN
        PROVE  V!HasErrors(V!RunChecks(Output, strict)) <=> strict /\ \E i \in Nodes : Unresolved(i)
    <3>1. DOMAIN Output.stored = Nodes
      BY <2>6
    <3>2. V!HasErrors(V!RunChecks(Output, strict)) <=>
            strict /\ \E i \in DOMAIN Output.stored : Output.stored[i] = "Unresolved"
      BY <2>2, <2>3, <2>4, <2>5, <2>6, OnlyGreyIsAnError
    <3> QED
      BY <3>1, <3>2, <2>7
  <2>9. ASSUME NEW strict \in BOOLEAN, NEW flags \in SUBSET {"unresolved", "defaults"}
        PROVE  LET fenced == V!SourceBlock(flags, <<V!OtherLine>>, TRUE, Output)
                   alone  == V!SourceBlock({}, <<V!BlankLine, V!Pragma(flags), V!OtherLine>>, TRUE, Output)
                   gated  == strict /\ flags = {} /\ \E i \in Nodes : Unresolved(i)
               IN  /\ V!HasErrors(V!ValidateMarkdown({fenced}, strict)) <=> gated
                   /\ V!ExitOfIPMT(alone, strict) = 3 <=> gated
                   /\ gated => ~defaults
    <3> DEFINE fenced == V!SourceBlock(flags, <<V!OtherLine>>, TRUE, Output)
               alone  == V!SourceBlock({}, <<V!BlankLine, V!Pragma(flags), V!OtherLine>>, TRUE, Output)
               found  == V!RunChecks(Output, strict /\ flags = {})
               gated  == strict /\ flags = {} /\ \E i \in Nodes : Unresolved(i)
    <3>1. V!HasErrors(found) <=> gated
      <4>1. (strict /\ flags = {}) \in BOOLEAN
        OBVIOUS
      <4> QED
        BY <4>1, <2>8
    <3>2. (flags \cap {"unresolved", "defaults"} = {}) <=> flags = {}
      OBVIOUS
    <3>3. V!EffectiveMeta(fenced) = flags /\ V!MetaIsValid(fenced) /\ fenced.parses /\ fenced.graph = Output
      <4>1. /\ fenced.fence = flags /\ fenced.source = <<V!OtherLine>>
            /\ fenced.parses /\ fenced.graph = Output
        BY DEF V!SourceBlock
      <4> HIDE DEF fenced
      <4>2. flags \in SUBSET V!KnownFlags
        BY DEF V!KnownFlags
      <4> QED
        BY <4>1, <4>2, FenceIsRead
    <3>4. V!EffectiveMeta(alone) = flags /\ V!MetaIsValid(alone) /\ alone.parses /\ alone.graph = Output
      <4>1. /\ alone.fence = {} /\ alone.source = <<V!BlankLine, V!Pragma(flags), V!OtherLine>>
            /\ alone.parses /\ alone.graph = Output
        BY DEF V!SourceBlock
      <4> HIDE DEF alone
      <4>2. flags \in SUBSET V!KnownFlags
        BY DEF V!KnownFlags
      <4> QED
        BY <4>1, <4>2, PragmaIsRead
    <3> HIDE DEF fenced, alone
    <3>5. V!BlockFindings(fenced, strict) = found /\ V!BlockFindings(alone, strict) = found
      <4>1. (strict /\ flags \cap {"unresolved", "defaults"} = {}) = (strict /\ flags = {})
        BY <3>2
      <4> QED
        BY <3>3, <3>4, <4>1 DEF V!BlockFindings
    <3>6. V!ValidateMarkdown({fenced}, strict) = found
      BY <3>3, <3>5 DEF V!ValidateMarkdown
    <3>7. V!ExitOfIPMT(alone, strict) = V!ExitCode(found)
      BY <3>4, <3>5 DEF V!ExitOfIPMT
    <3>8. V!ExitCode(found) = 3 <=> V!HasErrors(found)
      BY DEF V!ExitCode, V!HasErrors
    <3>9. gated => ~defaults
      BY <1>1 DEF OutputInv
    <3> HIDE DEF found
    <3> QED
      BY <3>1, <3>6, <3>7, <3>8, <3>9 DEF fenced, alone
  <2> QED
    BY <2>9 DEF OutputIsValid
<1>2. SolverInv /\ SearchInv /\ OutputInv => OutputIsValid
  BY <1>1 DEF OutputIsValid
<1> QED
  BY SearchInit, SearchStep, OutputInit, OutputStep, <1>2, SolverInvariant, PTL DEF Spec

-----------------------------------------------------------------------------
(* The result as text: what is written for it, and what is read of that. *)

\* The numbers up to one, and the sets of them.
LEMMA OneIsMax == I!Max({1}) = 1
BY DEF I!Max

\* A fold over one element is one step.
LEMMA MentionOne ==
  ASSUME NEW nodes, NEW w
  PROVE  I!Mention(nodes, <<w>>) = I!LookupOrCreate(nodes, w)
<1> DEFINE IsIter(f) == f = [s \in SUBSET {1} |-> IF s = {} THEN nodes
                                ELSE LET x == I!Max(s) IN I!LookupOrCreate(f[s \ {x}], <<w>>[x])]
           iter == CHOOSE f : IsIter(f)
           h == [s \in SUBSET {1} |-> IF s = {} THEN nodes ELSE I!LookupOrCreate(nodes, w)]
<1>1. DOMAIN <<w>> = {1} /\ <<w>>[1] = w
  OBVIOUS
<1>2. I!Mention(nodes, <<w>>) = iter[{1}]
  BY <1>1 DEF I!Mention, I!FoldLeft, I!MapThenFoldSet
<1>3. \A s \in SUBSET {1} : s = {} \/ (s = {1} /\ I!Max(s) = 1 /\ s \ {I!Max(s)} = {})
  BY OneIsMax
<1>4. IsIter(h)
  BY <1>1, <1>3
<1>5. IsIter(iter)
  <2> HIDE DEF h, IsIter
  <2> QED
    BY <1>4
<1>6. iter[{1}] = I!LookupOrCreate(iter[{}], w) /\ iter[{}] = nodes
  <2> HIDE DEF iter
  <2>1. {1} \in SUBSET {1} /\ {} \in SUBSET {1} /\ {1} \ {I!Max({1})} = {} /\ I!Max({1}) = 1
    BY <1>3
  <2> QED
    BY <1>5, <1>1, <2>1
<1> QED
  BY <1>2, <1>6

\* One sequence laid flat, and two.
LEMMA FlatOne == ASSUME NEW s PROVE I!FlattenSeq(<<s>>) = s
<1> DEFINE IsFlat(f) == f = [i \in 1 .. 1 |-> IF i = 1 THEN <<s>>[i] ELSE f[i-1] \o <<s>>[i]]
           flat == CHOOSE f : IsFlat(f)
           h == [i \in 1 .. 1 |-> s]
<1>1. I!FlattenSeq(<<s>>) = flat[1]
  BY DEF I!FlattenSeq
<1>2. IsFlat(h)
  OBVIOUS
<1>3. IsFlat(flat)
  <2> HIDE DEF h, IsFlat
  <2> QED
    BY <1>2
<1>4. flat[1] = s
  <2> HIDE DEF flat
  <2> QED
    BY <1>3
<1> QED
  BY <1>1, <1>4

LEMMA FlatTwo == ASSUME NEW s, NEW t PROVE I!FlattenSeq(<<s, t>>) = s \o t
<1> DEFINE IsFlat(f) == f = [i \in 1 .. 2 |-> IF i = 1 THEN <<s, t>>[i] ELSE f[i-1] \o <<s, t>>[i]]
           flat == CHOOSE f : IsFlat(f)
           h == [i \in 1 .. 2 |-> IF i = 1 THEN s ELSE s \o t]
<1>1. I!FlattenSeq(<<s, t>>) = flat[2]
  BY DEF I!FlattenSeq
<1>2. IsFlat(h)
  OBVIOUS
<1>3. IsFlat(flat)
  <2> HIDE DEF h, IsFlat
  <2> QED
    BY <1>2
<1>4. flat[2] = s \o t
  <2> HIDE DEF flat
  <2>1. flat[1] = s
    BY <1>3
  <2>2. flat[2] = IF 2 = 1 THEN <<s, t>>[2] ELSE flat[2 - 1] \o <<s, t>>[2]
    <3>1. 2 \in 1 .. 2
      OBVIOUS
    <3> QED
      BY <1>3, <3>1, Zenon
  <2>3. 2 # 1 /\ 2 - 1 = 1 /\ <<s, t>>[2] = t
    OBVIOUS
  <2> QED
    BY <2>1, <2>2, <2>3
<1> QED
  BY <1>1, <1>4

\* An arrow between two single nodes: both are mentioned, then connected.
LEMMA ArrowOne ==
  ASSUME NEW st, NEW arrow, NEW w, NEW v, NEW nodes, nodes = I!Mention(I!Mention(st.nodes, <<w>>), <<v>>)
  PROVE  I!ParseArrow(st, arrow, <<w>>, <<v>>)
           = I!Connect([st EXCEPT !.nodes = nodes], arrow, I!Lookup(nodes, w), I!Lookup(nodes, v))
<1> DEFINE from == [st EXCEPT !.nodes = nodes]
           ids(specs) == [i \in DOMAIN specs |-> I!Lookup(nodes, specs[i])]
           l == I!Lookup(nodes, w)
           r == I!Lookup(nodes, v)
           Each(acc, x) == I!FoldLeft(LAMBDA a, y : I!Connect(a, arrow, x, y), acc, ids(<<v>>))
           IsInner(f, acc, k) == f = [s \in SUBSET {1} |-> IF s = {} THEN acc
                                       ELSE LET x == I!Max(s) IN I!Connect(f[s \ {x}], arrow, k, ids(<<v>>)[x])]
           inner(acc, k) == CHOOSE f : IsInner(f, acc, k)
<1>1. ids(<<w>>) = [i \in {1} |-> l] /\ ids(<<v>>) = [i \in {1} |-> r]
  OBVIOUS
<1>2. \A s \in SUBSET {1} : s = {} \/ (s = {1} /\ I!Max(s) = 1 /\ s \ {I!Max(s)} = {})
  BY OneIsMax
<1>3. {1} \in SUBSET {1} /\ {} \in SUBSET {1} /\ {1} \ {I!Max({1})} = {} /\ I!Max({1}) = 1
  BY <1>2
<1>4. ASSUME NEW acc, NEW k PROVE Each(acc, k) = I!Connect(acc, arrow, k, r)
  <2> DEFINE h == [s \in SUBSET {1} |-> IF s = {} THEN acc ELSE I!Connect(acc, arrow, k, r)]
  <2>0. DOMAIN ids(<<v>>) = {1} /\ ids(<<v>>)[1] = r
    BY <1>1
  <2>1. Each(acc, k) = inner(acc, k)[{1}]
    <3> HIDE DEF ids
    <3> QED
      BY <2>0 DEF I!FoldLeft, I!MapThenFoldSet
  <2> HIDE DEF ids, r
  <2>2. IsInner(h, acc, k)
    BY <2>0, <1>2
  <2>3. IsInner(inner(acc, k), acc, k)
    <3> HIDE DEF h, IsInner
    <3> QED
      BY <2>2
  <2>4. inner(acc, k)[{1}] = I!Connect(inner(acc, k)[{}], arrow, k, r) /\ inner(acc, k)[{}] = acc
    <3> HIDE DEF inner
    <3> QED
      BY <2>3, <2>0, <1>3
  <2> QED
    BY <2>1, <2>4
<1> DEFINE IsOuter(f) == f = [s \in SUBSET {1} |-> IF s = {} THEN from
                                ELSE LET x == I!Max(s) IN Each(f[s \ {x}], ids(<<w>>)[x])]
           outer == CHOOSE f : IsOuter(f)
           g == [s \in SUBSET {1} |-> IF s = {} THEN from ELSE Each(from, l)]
<1>5. DOMAIN ids(<<w>>) = {1} /\ ids(<<w>>)[1] = l
  BY <1>1
<1>6. I!ParseArrow(st, arrow, <<w>>, <<v>>) = outer[{1}]
  <2>1. I!ParseArrow(st, arrow, <<w>>, <<v>>) = I!FoldLeft(Each, from, ids(<<w>>))
    BY DEF I!ParseArrow
  <2> HIDE DEF ids, Each, from
  <2> QED
    BY <2>1, <1>5 DEF I!FoldLeft, I!MapThenFoldSet
<1> HIDE DEF ids, Each, from, l, r
<1>7. IsOuter(g)
  BY <1>5, <1>2
<1>8. IsOuter(outer)
  <2> HIDE DEF g, IsOuter
  <2> QED
    BY <1>7
<1>9. outer[{1}] = Each(outer[{}], l) /\ outer[{}] = from
  <2> HIDE DEF outer
  <2> QED
    BY <1>8, <1>5, <1>3
<1> QED
  BY <1>4, <1>6, <1>9 DEF l, r, from

\* A line that names one node.
LEMMA NodeLine ==
  ASSUME NEW st, st.ok = TRUE, NEW w, I!SpecIsValid(w), NEW line, line = I!Line(<< <<w>> >>, <<>>)
  PROVE  I!ParseLine(st, line) = [st EXCEPT !.nodes = I!LookupOrCreate(@, w)]
<1>1. line.segs = << <<w>> >> /\ line.arrows = <<>>
  BY DEF I!Line
<1>2. line # I!Unreadable
  BY <1>1 DEF I!Unreadable, I!Line
<1>3. I!CommasAreClear(line)
  BY <1>1 DEF I!CommasAreClear
<1>4. I!FlattenSeq(line.segs) = <<w>>
  BY <1>1, FlatOne
<1>5. I!ToSet(<<w>>) = {w}
  BY DEF I!ToSet
<1>6. ~\E v \in I!ToSet(I!FlattenSeq(line.segs)) : ~I!SpecIsValid(v)
  BY <1>4, <1>5
<1>7. I!ParseLine(st, line) = [st EXCEPT !.nodes = I!Mention(@, line.segs[1])]
  BY <1>1, <1>2, <1>3, <1>6 DEF I!ParseLine
<1> QED
  BY <1>1, <1>7, MentionOne

\* And one that draws an arrow between two.
LEMMA ArrowLine ==
  ASSUME NEW st, st.ok = TRUE, NEW w, NEW v, I!SpecIsValid(w), I!SpecIsValid(v), NEW arrow,
         NEW line, line = I!Line(<< <<w>>, <<v>> >>, <<arrow>>)
  PROVE  I!ParseLine(st, line) = I!ParseArrow(st, arrow, <<w>>, <<v>>)
<1>1. line.segs = << <<w>>, <<v>> >> /\ line.arrows = <<arrow>>
  BY DEF I!Line
<1>2. line # I!Unreadable /\ line.arrows # <<>>
  BY <1>1 DEF I!Unreadable, I!Line
<1>3. I!CommasAreClear(line)
  BY <1>1 DEF I!CommasAreClear
<1>4. I!FlattenSeq(line.segs) = <<w, v>>
  <2>1. <<w>> \o <<v>> = <<w, v>>
    <3>1. <<w>> \in Seq({w, v}) /\ <<v>> \in Seq({w, v}) /\ <<w, v>> \in Seq({w, v})
      OBVIOUS
    <3>2. Len(<<w>>) = 1 /\ Len(<<v>>) = 1 /\ Len(<<w, v>>) = 2
      OBVIOUS
    <3>3. /\ <<w>> \o <<v>> \in Seq({w, v}) /\ Len(<<w>> \o <<v>>) = 2
          /\ \A i \in 1 .. 2 : (<<w>> \o <<v>>)[i] = IF i <= 1 THEN <<w>>[i] ELSE <<v>>[i - 1]
      BY <3>1, <3>2, ConcatProperties
    <3>4. \A i \in 1 .. 2 : (<<w>> \o <<v>>)[i] = <<w, v>>[i]
      BY <3>3
    <3> QED
      BY <3>1, <3>2, <3>3, <3>4, SeqEqual
  <2> QED
    BY <1>1, <2>1, FlatTwo
<1>5. I!ToSet(<<w, v>>) = {w, v}
  BY DEF I!ToSet
<1>6. ~\E x \in I!ToSet(I!FlattenSeq(line.segs)) : ~I!SpecIsValid(x)
  BY <1>4, <1>5
<1> DEFINE Each(a, i) == I!ParseArrow(a, line.arrows[i], line.segs[i], line.segs[i + 1])
           ids == [i \in DOMAIN line.arrows |-> i]
           IsIter(f) == f = [s \in SUBSET {1} |-> IF s = {} THEN st
                                ELSE LET x == I!Max(s) IN Each(f[s \ {x}], ids[x])]
           iter == CHOOSE f : IsIter(f)
           h == [s \in SUBSET {1} |-> IF s = {} THEN st ELSE Each(st, 1)]
<1>7. I!ParseLine(st, line) = I!FoldLeft(LAMBDA a, i : Each(a, i), st, ids)
  BY <1>2, <1>3, <1>6 DEF I!ParseLine
<1>8. DOMAIN ids = {1} /\ ids[1] = 1
  BY <1>1
<1>9. Each(st, 1) = I!ParseArrow(st, arrow, <<w>>, <<v>>)
  BY <1>1
<1> HIDE DEF ids, Each
<1>10. I!ParseLine(st, line) = iter[{1}]
  BY <1>7, <1>8 DEF I!FoldLeft, I!MapThenFoldSet
<1>11. \A s \in SUBSET {1} : s = {} \/ (s = {1} /\ I!Max(s) = 1 /\ s \ {I!Max(s)} = {})
  BY OneIsMax
<1>12. {1} \in SUBSET {1} /\ {} \in SUBSET {1} /\ {1} \ {I!Max({1})} = {} /\ I!Max({1}) = 1
  BY <1>11
<1>13. IsIter(h)
  BY <1>8, <1>11
<1>14. IsIter(iter)
  <2> HIDE DEF h, IsIter
  <2> QED
    BY <1>13
<1>15. iter[{1}] = Each(iter[{}], 1) /\ iter[{}] = st
  <2> HIDE DEF iter
  <2> QED
    BY <1>14, <1>8, <1>12
<1> QED
  BY <1>9, <1>10, <1>15

\* The lines of a text are read one after the other.
LEMMA LinesAreSteps ==
  ASSUME NEW lines, NEW n \in Nat, DOMAIN lines = 1 .. n
  PROVE  \E acc : /\ acc[0] = I!NothingRead
                  /\ \A k \in 1 .. n : acc[k] = I!ParseLine(acc[k - 1], lines[k])
                  /\ acc[n] = I!ParseLines(lines)
<1> DEFINE IsIter(f, m) == f = [s \in SUBSET (1 .. m) |-> IF s = {} THEN I!NothingRead
                                   ELSE LET x == I!Max(s) IN I!ParseLine(f[s \ {x}], lines[x])]
           iter == CHOOSE f : IsIter(f, n)
           Without == {m \in 0 .. n : ~\E f : IsIter(f, m)}
<1>1. I!ParseLines(lines) = iter[1 .. n]
  BY DEF I!ParseLines, I!FoldLeft, I!MapThenFoldSet
<1>2. ASSUME NEW m \in Nat, NEW s \in SUBSET (1 .. m), s # {}
      PROVE  I!Max(s) \in s /\ \A y \in s : y <= I!Max(s)
  <2>1. PICK x \in s : \A y \in s : y <= x
    BY <1>2, GreatestElement
  <2>2. s \subseteq Int
    OBVIOUS
  <2> QED
    BY <2>1, <2>2 DEF I!Max
<1>3. \E f : IsIter(f, n)
  <2> HIDE DEF IsIter
  <2>0. n \in 0 .. n
    OBVIOUS
  <2> SUFFICES ASSUME Without # {} PROVE FALSE
    BY <2>0
  <2> USE DEF IsIter
  <2>1. PICK m \in Without : \A k \in Without : m <= k
    <3> HIDE DEF IsIter
    <3>1. Without \in SUBSET Nat
      OBVIOUS
    <3> HIDE DEF Without
    <3> QED
      BY <3>1, LeastElement
  <2>2. m # 0
    <3> DEFINE f == [s \in SUBSET (1 .. 0) |-> I!NothingRead]
    <3>1. SUBSET (1 .. 0) = {{}}
      <4>1. 1 .. 0 = {}
        OBVIOUS
      <4> QED
        BY <4>1
    <3>2. IsIter(f, 0)
      BY <3>1
    <3> QED
      BY <2>1, <3>2
  <2>3. m \in 1 .. n /\ m - 1 \in 0 .. n
    <3> HIDE DEF IsIter
    <3>1. m \in 0 .. n
      BY <2>1
    <3> QED
      BY <2>2, <3>1
  <2>4. PICK f : IsIter(f, m - 1)
    <3> HIDE DEF IsIter
    <3>1. m - 1 \notin Without
      BY <2>1, <2>3
    <3> QED
      BY <2>3, <3>1
  <2> DEFINE g == [s \in SUBSET (1 .. m) |-> IF m \in s THEN I!ParseLine(f[s \ {m}], lines[m]) ELSE f[s]]
  <2>5. ASSUME NEW s \in SUBSET (1 .. m), s # {}
        PROVE  g[s] = I!ParseLine(g[s \ {I!Max(s)}], lines[I!Max(s)])
    <3> DEFINE x == I!Max(s)
    <3>1. x \in s /\ \A y \in s : y <= x
      BY <1>2, <2>3, <2>5
    <3>2. s \ {x} \in SUBSET (1 .. m)
      OBVIOUS
    <3> HIDE DEF x
    <3>3. CASE m \in s
      <4>1. x = m
        BY <3>1, <3>3, <2>3
      <4>2. g[s] = I!ParseLine(f[s \ {m}], lines[m]) /\ g[s \ {m}] = f[s \ {m}]
        BY <3>2, <3>3, <4>1
      <4> QED
        BY <4>1, <4>2 DEF x
    <3>4. CASE m \notin s
      <4>1. s \in SUBSET (1 .. m - 1)
        BY <3>4, <2>3
      <4>2. g[s] = f[s] /\ g[s \ {x}] = f[s \ {x}]
        BY <3>2, <3>4
      <4>3. f[s] = I!ParseLine(f[s \ {x}], lines[x])
        BY <2>4, <2>5, <4>1 DEF x
      <4> QED
        BY <4>2, <4>3 DEF x
    <3> QED
      BY <3>3, <3>4
  <2>6. g[{}] = I!NothingRead
    BY <2>3, <2>4
  <2>7. IsIter(g, m)
    <3>1. \A s \in SUBSET (1 .. m) : g[s] = IF s = {} THEN I!NothingRead
                                            ELSE LET x == I!Max(s) IN I!ParseLine(g[s \ {x}], lines[x])
      BY <2>5, <2>6
    <3>2. g = [s \in SUBSET (1 .. m) |-> g[s]]
      OBVIOUS
    <3> HIDE DEF g
    <3> QED
      BY <3>1, <3>2
  <2> QED
    BY <2>1, <2>7
<1>4. IsIter(iter, n)
  <2> HIDE DEF IsIter
  <2> QED
    BY <1>3
<1> DEFINE acc == [k \in 0 .. n |-> iter[1 .. k]]
<1>5. ASSUME NEW k \in 1 .. n PROVE acc[k] = I!ParseLine(acc[k - 1], lines[k])
  <2>1. 1 .. k \in SUBSET (1 .. n) /\ 1 .. k # {}
    <3>1. \A i \in 1 .. k : i \in 1 .. n
      BY <1>5
    <3>2. 1 \in 1 .. k
      BY <1>5
    <3> QED
      BY <3>1, <3>2
  <2> HIDE DEF iter, IsIter, Without, acc
  <2>2. I!Max(1 .. k) = k
    <3>1. I!Max(1 .. k) \in 1 .. k /\ \A y \in 1 .. k : y <= I!Max(1 .. k)
      BY <1>2, <2>1
    <3>2. k \in 1 .. k
      OBVIOUS
    <3> QED
      BY <3>1, <3>2
  <2>3. (1 .. k) \ {k} = 1 .. k - 1
    <3>1. k \in Nat
      BY <1>5
    <3>2. \A i : i \in (1 .. k) \ {k} <=> i \in 1 .. k - 1
      BY <3>1
    <3> QED
      BY <3>2, Zenon
  <2> USE DEF IsIter, acc
  <2>4. iter[1 .. k] = I!ParseLine(iter[1 .. k - 1], lines[k])
    BY <1>4, <2>1, <2>2, <2>3
  <2> QED
    BY <2>4
<1>6. acc[0] = I!NothingRead
  <2>1. 1 .. 0 = {} /\ {} \in SUBSET (1 .. n)
    OBVIOUS
  <2> HIDE DEF iter
  <2>2. iter[{}] = I!NothingRead
    BY <1>4, <2>1
  <2> QED
    BY <2>1, <2>2
<1>7. acc[n] = iter[1 .. n]
  OBVIOUS
<1> QED
  BY <1>1, <1>5, <1>6, <1>7

\* The numbers of a set are listed once each.
LEMMA InOrderLists ==
  ASSUME NEW S \in SUBSET Nat, IsFiniteSet(S)
  PROVE  /\ Cardinality(S) \in Nat /\ DOMAIN InOrder(S) = 1 .. Cardinality(S)
         /\ \A k \in 1 .. Cardinality(S) : InOrder(S)[k] \in S
         /\ \A k, l \in 1 .. Cardinality(S) : InOrder(S)[k] = InOrder(S)[l] => k = l
         /\ \A i \in S : \E k \in 1 .. Cardinality(S) : InOrder(S)[k] = i
<1> DEFINE upTo(i) == {j \in S : j <= i}
           rank == [i \in S |-> Cardinality(upTo(i))]
           n == Cardinality(S)
<1>0. n \in Nat
  BY FS_CardinalityType
<1>1. ASSUME NEW i \in S PROVE rank[i] \in 1 .. n /\ IsFiniteSet(upTo(i))
  <2>1. upTo(i) \in SUBSET S /\ i \in upTo(i)
    OBVIOUS
  <2> HIDE DEF upTo
  <2>2. IsFiniteSet(upTo(i)) /\ Cardinality(upTo(i)) <= n /\ Cardinality(upTo(i)) # 0
    BY <2>1, FS_Subset, FS_EmptySet
  <2> QED
    BY <1>0, <2>2, FS_CardinalityType
<1>2. ASSUME NEW i \in S, NEW j \in S, i < j PROVE rank[i] # rank[j]
  <2>1. upTo(i) \subseteq upTo(j) /\ upTo(i) # upTo(j)
    <3>1. i \in Nat /\ j \in Nat /\ \A k \in S : k \in Nat
      OBVIOUS
    <3>2. j \in upTo(j) /\ j \notin upTo(i)
      BY <1>2, <3>1
    <3>3. \A k \in S : k <= i => k <= j
      BY <1>2, <3>1
    <3> QED
      BY <3>2, <3>3
  <2> HIDE DEF upTo
  <2>2. Cardinality(upTo(i)) < Cardinality(upTo(j))
    BY <1>1, <2>1, PartIsSmaller
  <2>3. Cardinality(upTo(i)) \in Nat /\ Cardinality(upTo(j)) \in Nat
    BY <1>1, FS_CardinalityType
  <2> QED
    BY <2>2, <2>3
<1>3. rank \in [S -> 1 .. n] /\ \A i, j \in S : rank[i] = rank[j] => i = j
  <2> HIDE DEF rank, n
  <2>1. \A i, j \in S : i < j \/ j < i \/ i = j
    OBVIOUS
  <2>2. rank = [i \in S |-> rank[i]]
    BY DEF rank
  <2> QED
    BY <1>1, <1>2, <2>1, <2>2
<1>4. \A k \in 1 .. n : \E i \in S : rank[i] = k
  <2>1. IsFiniteSet(1 .. n) /\ Cardinality(1 .. n) = n
    <3>1. IsFiniteSet(1 .. n) /\ Cardinality(1 .. n) = IF 1 > n THEN 0 ELSE n - 1 + 1
      BY <1>0, FS_Interval
    <3> QED
      BY <1>0, <3>1
  <2> HIDE DEF rank
  <2>2. rank \in Injection(S, 1 .. n)
    BY <1>3 DEF Injection, IsInjective
  <2>3. rank \in Surjection(S, 1 .. n)
    BY <2>1, <2>2, FS_Injection
  <2> QED
    BY <2>3 DEF Surjection
<1>5. ASSUME NEW k \in 1 .. n PROVE InOrder(S)[k] \in S /\ rank[InOrder(S)[k]] = k
  <2>1. \E i \in S : Cardinality(upTo(i)) = k
    BY <1>4
  <2>2. InOrder(S)[k] = CHOOSE i \in S : Cardinality(upTo(i)) = k
    BY DEF InOrder
  <2> QED
    BY <2>1, <2>2
<1>6. DOMAIN InOrder(S) = 1 .. n
  BY DEF InOrder
<1> HIDE DEF rank, n
<1>7. \A i \in S : \E k \in 1 .. n : InOrder(S)[k] = i
  BY <1>3, <1>5
<1> QED
  BY <1>0, <1>3, <1>5, <1>6, <1>7 DEF n

\* The alias Serialize makes up for node i.
Alias(i) == I!GeneratedAlias(GraphNodes, i)
\* The node that is read from the line of node i.
Aliased(i) == [GraphNodes[i] EXCEPT !.alias = Alias(i)]

\* The type a node has in the result tells whether it is grey.
LEMMA StoredTypes == ASSUME TypeOK, GreyIsOpen, NEW i \in Nodes
                     PROVE  /\ StoredType(i) \in Kinds \cup {"Unresolved"}
                            /\ StoredType(i) = "Unresolved" <=> Unresolved(i)
<1>1. dom[i] = {} => FirstKind(dom[i]) = "Concept"
  BY DEF FirstKind
<1>2. FirstKind(dom[i]) \in Kinds
  BY DEF FirstKind, Kinds
<1> QED
  BY <1>2 DEF StoredType, Kinds

\* A node of the graph, and what is read of its line, field by field.
LEMMA NodesHaveFields ==
  ASSUME NEW i \in Nodes
  PROVE  /\ GraphNodes[i] = [name |-> <<"n", i>>, alias |-> I!NoName, kind |-> StoredType(i),
                             cands |-> IF Unresolved(i) THEN CandidatesOf(i) ELSE <<>>]
         /\ Aliased(i) = [name |-> <<"n", i>>, alias |-> Alias(i), kind |-> StoredType(i),
                          cands |-> IF Unresolved(i) THEN CandidatesOf(i) ELSE <<>>]
<1>1. GraphNodes[i] = [name |-> <<"n", i>>, alias |-> I!NoName, kind |-> StoredType(i),
                       cands |-> IF Unresolved(i) THEN CandidatesOf(i) ELSE <<>>]
  BY DEF GraphNodes
<1> QED
  BY <1>1 DEF Aliased

LEMMA TheirFields ==
  \A i \in Nodes :
     /\ GraphNodes[i].name = <<"n", i>> /\ GraphNodes[i].kind = StoredType(i)
     /\ GraphNodes[i].cands = IF Unresolved(i) THEN CandidatesOf(i) ELSE <<>>
     /\ Aliased(i).name = <<"n", i>> /\ Aliased(i).alias = Alias(i) /\ Aliased(i).kind = StoredType(i)
     /\ Aliased(i).cands = IF Unresolved(i) THEN CandidatesOf(i) ELSE <<>>
<1> TAKE i \in Nodes
<1> DEFINE c == IF Unresolved(i) THEN CandidatesOf(i) ELSE <<>>
<1>1. GraphNodes[i] = [name |-> <<"n", i>>, alias |-> I!NoName, kind |-> StoredType(i), cands |-> c]
  BY NodesHaveFields
<1>2. Aliased(i) = [name |-> <<"n", i>>, alias |-> Alias(i), kind |-> StoredType(i), cands |-> c]
  BY NodesHaveFields
<1> HIDE DEF c
<1>3. GraphNodes[i].name = <<"n", i>> /\ GraphNodes[i].kind = StoredType(i) /\ GraphNodes[i].cands = c
  BY <1>1
<1>4. Aliased(i).name = <<"n", i>> /\ Aliased(i).alias = Alias(i) /\ Aliased(i).kind = StoredType(i)
      /\ Aliased(i).cands = c
  BY <1>2
<1> QED
  BY <1>3, <1>4 DEF c

\* The candidates of a grey node are two at least, and its primary is the first.
LEMMA CandidatesAreFine ==
  ASSUME TypeOK, GreyIsOpen, NEW i \in Nodes, Unresolved(i)
  PROVE  /\ I!CandidatesAreValid(CandidatesOf(i)) /\ CandidatesOf(i) # <<>>
         /\ CandidatesOf(i) \in Seq(Kinds) /\ Head(CandidatesOf(i)) = EffType(i)
         /\ Len(CandidatesOf(i)) >= 2
<1> DEFINE rest == {k \in DOMAIN Canonical : Canonical[k] \in dom[i] \ {EffType(i)}}
           others == InOrder(rest)
           tail == [n \in DOMAIN others |-> Canonical[others[n]]]
<1>0. DOMAIN Canonical = 1 .. 3 /\ Canonical[1] = "Event" /\ Canonical[2] = "Thing" /\ Canonical[3] = "Concept"
  BY DEF Canonical
<1>1. rest \in SUBSET Nat /\ IsFiniteSet(rest)
  <2>0. IsFiniteSet(1 .. 3)
    <3>1. 1 \in Int /\ 3 \in Int
      OBVIOUS
    <3> QED
      BY <3>1, FS_Interval, Zenon
  <2>1. rest \in SUBSET (1 .. 3)
    BY <1>0
  <2> HIDE DEF rest
  <2>2. IsFiniteSet(rest)
    BY <2>0, <2>1, FS_Subset
  <2>3. \A x \in 1 .. 3 : x \in Nat
    OBVIOUS
  <2> QED
    BY <2>1, <2>2, <2>3
<1>2. rest # {}
  <2>1. PICK k \in dom[i] : k # EffType(i)
    BY DEF GreyIsOpen
  <2>2. k \in Kinds
    BY <2>1 DEF TypeOK
  <2>3. \E n \in 1 .. 3 : Canonical[n] = k
    BY <1>0, <2>2 DEF Kinds
  <2> QED
    BY <1>0, <2>1, <2>3
<1>3. /\ Cardinality(rest) \in Nat /\ DOMAIN others = 1 .. Cardinality(rest)
      /\ \A n \in 1 .. Cardinality(rest) : others[n] \in rest
      /\ \A n, m \in 1 .. Cardinality(rest) : others[n] = others[m] => n = m
  <2> HIDE DEF rest
  <2> QED
    BY <1>1, InOrderLists
<1>4. Cardinality(rest) >= 1
  <2> HIDE DEF rest
  <2>1. Cardinality(rest) # 0
    BY <1>1, <1>2, FS_EmptySet
  <2> QED
    BY <1>3, <2>1
<1>5. \A n \in 1 .. Cardinality(rest) : tail[n] \in Kinds \ {EffType(i)}
  <2>1. \A x \in rest : Canonical[x] \in Kinds \ {EffType(i)}
    BY <1>0 DEF Kinds
  <2> HIDE DEF rest, others
  <2> QED
    BY <1>3, <2>1
<1>6. \A n, m \in 1 .. Cardinality(rest) : tail[n] = tail[m] => n = m
  <2>1. \A x, y \in rest : Canonical[x] = Canonical[y] => x = y
    BY <1>0
  <2> HIDE DEF rest, others
  <2> QED
    BY <1>3, <2>1
<1> DEFINE c == Cardinality(rest)
<1>7. tail \in Seq(Kinds) /\ Len(tail) = c /\ DOMAIN tail = 1 .. c
  <2> HIDE DEF rest, others
  <2>1. tail \in [1 .. c -> Kinds] 
    BY <1>3, <1>5
  <2> QED
    BY <1>3, <2>1
<1>8. EffType(i) \in Kinds /\ <<EffType(i)>> \in Seq(Kinds) /\ Len(<<EffType(i)>>) = 1
  BY EffTypeIsAKind
<1> DEFINE all == <<EffType(i)>> \o tail
<1>9. CandidatesOf(i) = all
  BY DEF CandidatesOf
<1> HIDE DEF c, tail, others, rest
<1>10. /\ all \in Seq(Kinds) /\ Len(all) = c + 1
       /\ \A n \in 1 .. c + 1 : all[n] = IF n = 1 THEN EffType(i) ELSE tail[n - 1]
  <2>1. /\ all \in Seq(Kinds) /\ Len(all) = 1 + c
        /\ \A n \in 1 .. 1 + c : all[n] = IF n <= 1 THEN <<EffType(i)>>[n] ELSE tail[n - 1]
    BY <1>7, <1>8, ConcatProperties
  <2>2. c \in Nat
    BY <1>3 DEF c
  <2> HIDE DEF all
  <2>3. 1 + c = c + 1 /\ \A n \in 1 .. c + 1 : n <= 1 <=> n = 1
    BY <2>2
  <2> QED
    BY <2>1, <2>3
<1> HIDE DEF all
<1>11. c \in Nat /\ c >= 1
  BY <1>3, <1>4 DEF c
<1>12. \A n, m \in 1 .. c + 1 : all[n] = all[m] => n = m
  <2>1. \A n \in 2 .. c + 1 : n - 1 \in 1 .. c
    BY <1>11
  <2>2. \A n \in 2 .. c + 1 : all[n] # EffType(i)
    BY <1>5, <1>10, <1>11, <2>1 DEF c
  <2>3. \A n, m \in 2 .. c + 1 : all[n] = all[m] => n - 1 = m - 1
    BY <1>6, <1>10, <1>11, <2>1 DEF c
  <2>4. all[1] = EffType(i)
    BY <1>10, <1>11
  <2>5. \A n \in 1 .. c + 1 : n = 1 \/ n \in 2 .. c + 1
    BY <1>11
  <2>6. \A n, m \in 2 .. c + 1 : n - 1 = m - 1 => n = m
    BY <1>11
  <2> QED
    BY <2>2, <2>3, <2>4, <2>5, <2>6
<1>13. DOMAIN all = 1 .. c + 1 /\ Len(all) >= 2 /\ Head(all) = all[1] /\ all # <<>>
  BY <1>10, <1>11
<1>14. all[1] = EffType(i)
  BY <1>10, <1>11
<1> QED
  BY <1>9, <1>10, <1>12, <1>13, <1>14 DEF I!CandidatesAreValid, I!IsInjective

\* A function on an interval is a sequence, and one more value is appended to it.
LEMMA OneAppended ==
  ASSUME NEW m \in Nat, NEW s, DOMAIN s = 1 .. m, s = [k \in 1 .. m |-> s[k]], NEW x
  PROVE  /\ Len(s) = m
         /\ Append(s, x) = [k \in 1 .. m + 1 |-> IF k = m + 1 THEN x ELSE s[k]]
<1> DEFINE V0 == {s[k] : k \in 1 .. m} \cup {x}
           t == [k \in 1 .. m + 1 |-> IF k = m + 1 THEN x ELSE s[k]]
<1>1. s \in [1 .. m -> V0]
  OBVIOUS
<1>2. s \in Seq(V0) /\ Len(s) = m
  <2> HIDE DEF V0
  <2> QED
    BY <1>1
<1>3. t \in [1 .. m + 1 -> V0]
  <2>1. \A k \in 1 .. m + 1 : k = m + 1 \/ k \in 1 .. m
    OBVIOUS
  <2> QED
    BY <2>1
<1>4. t \in Seq(V0) /\ Len(t) = m + 1
  <2> HIDE DEF V0, t
  <2>1. m + 1 \in Nat
    OBVIOUS
  <2> QED
    BY <1>3, <2>1
<1>5. x \in V0
  OBVIOUS
<1> HIDE DEF V0
<1>6. Append(s, x) \in Seq(V0) /\ Len(Append(s, x)) = m + 1 /\ \A k \in 1 .. m : Append(s, x)[k] = s[k]
  BY <1>2, <1>5, AppendProperties
<1>7. Append(s, x)[m + 1] = x
  BY <1>2, <1>5, AppendProperties
<1>8. \A k \in 1 .. m + 1 : Append(s, x)[k] = t[k]
  <2>1. \A k \in 1 .. m + 1 : k = m + 1 \/ k \in 1 .. m
    OBVIOUS
  <2>2. \A k \in 1 .. m : t[k] = s[k]
    OBVIOUS
  <2>3. t[m + 1] = x
    OBVIOUS
  <2> HIDE DEF t
  <2> QED
    BY <1>6, <1>7, <2>1, <2>2, <2>3
<1>9. Append(s, x) = t
  <2> HIDE DEF t
  <2> QED
    BY <1>4, <1>6, <1>8, SeqEqual
<1> QED
  BY <1>2, <1>9

\* Names and aliases are different from each other.
LEMMA AliasesAreNew ==
  ASSUME NEW i \in Nodes, NEW j \in Nodes, TypeOK, GreyIsOpen
  PROVE  /\ Alias(i) # I!NoName /\ <<"n", i>> # I!NoName
         /\ Alias(i) # <<"n", j>> 
         /\ Alias(i) = Alias(j) => i = j
         /\ <<"n", i>> = <<"n", j>> => i = j
<1> DEFINE letters == [Event |-> "e", Thing |-> "t", Concept |-> "c", Unresolved |-> "u"]
<1>1. /\ Alias(i) = <<letters[StoredType(i)], i>> /\ Alias(j) = <<letters[StoredType(j)], j>>
  BY TheirFields DEF Alias, I!GeneratedAlias
<1>2. letters[StoredType(i)] # "n"
  BY StoredTypes DEF Kinds
<1> HIDE DEF letters
<1> QED
  BY <1>1, <1>2 DEF I!NoName

\* The line of a node gives it back.
LEMMA NodeIsWritten ==
  ASSUME TypeOK, GreyIsOpen, NEW i \in Nodes
  PROVE  \E w : /\ I!FormatNodeLine(GraphNodes, i) = I!Line(<< <<w>> >>, <<>>)
                /\ I!SpecIsValid(w) /\ I!NodeOf(w) = Aliased(i)
                /\ w.name = <<"n", i>> /\ w.alias = Alias(i)
<1> DEFINE grey == StoredType(i) = "Unresolved"
           marks == IF grey THEN <<>> ELSE <<StoredType(i)>>
           cands == IF grey THEN CandidatesOf(i) ELSE <<>>
           w == [name |-> <<"n", i>>, alias |-> Alias(i), marks |-> marks, cands |-> cands]
<1>1. grey <=> Unresolved(i)
  BY StoredTypes
<1>2. grey => I!CandidatesAreValid(CandidatesOf(i)) /\ CandidatesOf(i) # <<>> /\ Len(CandidatesOf(i)) >= 2
              /\ CandidatesOf(i) \in Seq(Kinds)
  BY <1>1, CandidatesAreFine
<1>3. GraphNodes[i].name = <<"n", i>> /\ GraphNodes[i].kind = StoredType(i)
      /\ GraphNodes[i].cands = IF Unresolved(i) THEN CandidatesOf(i) ELSE <<>>
  BY TheirFields
<1>4. grey => I!CandidateLetters(GraphNodes[i].cands) = CandidatesOf(i)
  <2> HIDE DEF grey
  <2> SUFFICES ASSUME grey PROVE I!CandidateLetters(CandidatesOf(i)) = CandidatesOf(i)
    BY <1>1, <1>3
  <2>1. Len(CandidatesOf(i)) \in Nat
    BY <1>2, LenProperties
  <2> QED
    BY <1>2, <2>1 DEF I!CandidateLetters
<1>5. I!FormatNodeLine(GraphNodes, i) = I!Line(<< <<w>> >>, <<>>)
  BY <1>3, <1>4 DEF I!FormatNodeLine, I!Written, Alias
<1>6. I!SpecIsValid(w)
  <2>1. cands = <<>> <=> ~grey
    BY <1>2
  <2>2. Len(marks) <= 1
    OBVIOUS
  <2>3. <<"n", i>> # I!NoName
    BY DEF I!NoName
  <2> HIDE DEF grey, marks
  <2> QED
    BY <1>2, <2>1, <2>2, <2>3 DEF I!SpecIsValid
<1>7. I!NodeOf(w) = Aliased(i)
  <2>1. Aliased(i) = [name |-> <<"n", i>>, alias |-> Alias(i), kind |-> StoredType(i), cands |-> cands]
    BY <1>1, NodesHaveFields
  <2>2. (IF cands # <<>> THEN "Unresolved" ELSE IF marks = <<>> THEN "Thing" ELSE marks[1]) = StoredType(i)
    <3>1. <<StoredType(i)>> # <<>> /\ <<StoredType(i)>>[1] = StoredType(i)
      OBVIOUS
    <3> QED
      BY <1>2, <3>1
  <2> HIDE DEF cands, marks
  <2>3. I!NodeOf(w) = [name |-> <<"n", i>>, alias |-> Alias(i), cands |-> cands, kind |-> StoredType(i)]
    BY <2>2 DEF I!NodeOf
  <2> QED
    BY <2>1, <2>3
<1>8. w.name = <<"n", i>> /\ w.alias = Alias(i)
  OBVIOUS
<1> HIDE DEF w
<1> QED
  BY <1>5, <1>6, <1>7, <1>8

\* Among the nodes so far the next one is not, and each is found by its alias.
LEMMA LookupsFind ==
  ASSUME TypeOK, GreyIsOpen, NEW m \in 0 .. NumNodes, NEW w
  PROVE  LET nodes == [k \in 1 .. m |-> Aliased(k)]
         IN  /\ \A i \in Nodes : i > m /\ w.name = <<"n", i>> /\ w.alias = Alias(i) => I!Lookup(nodes, w) = 0
             /\ \A i \in 1 .. m : w.name = Alias(i) /\ w.alias = I!NoName => I!Lookup(nodes, w) = i
<1> DEFINE nodes == [k \in 1 .. m |-> Aliased(k)]
           hits == {k \in 1 .. m : I!Identities(nodes[k]) \cap {w.name, w.alias} # {}}
<1>0. m \in Nat /\ \A k \in 1 .. m : k \in Nodes
  BY NodesAssumption DEF Nodes
<1>1. Len(nodes) = m
  <2> HIDE DEF nodes
  <2>1. DOMAIN nodes = 1 .. m /\ nodes = [k \in 1 .. m |-> nodes[k]]
    BY DEF nodes
  <2> QED
    BY <1>0, <2>1, OneAppended
<1>2. I!Lookup(nodes, w) = IF hits # {} THEN I!Min(hits) ELSE 0
  <2> HIDE DEF nodes
  <2> QED
    BY <1>1 DEF I!Lookup, I!SelectInSeq
<1>3. \A k \in 1 .. m : I!Identities(nodes[k]) = {<<"n", k>>, Alias(k)}
  <2> TAKE k \in 1 .. m
  <2>1. k \in Nodes /\ nodes[k] = Aliased(k)
    BY <1>0
  <2>2. nodes[k].name = <<"n", k>> /\ nodes[k].alias = Alias(k)
    BY <2>1, TheirFields
  <2>3. Alias(k) # I!NoName /\ <<"n", k>> # I!NoName
    BY <2>1, AliasesAreNew
  <2> HIDE DEF nodes
  <2> QED
    BY <2>2, <2>3 DEF I!Identities
<1> HIDE DEF nodes
<1>4. ASSUME NEW i \in Nodes, i > m, w.name = <<"n", i>>, w.alias = Alias(i) PROVE I!Lookup(nodes, w) = 0
  <2>1. \A k \in 1 .. m : k \in Nodes /\ k # i
    BY <1>0, <1>4 DEF Nodes
  <2>2. \A k \in 1 .. m : {<<"n", k>>, Alias(k)} \cap {<<"n", i>>, Alias(i)} = {}
    BY <2>1, AliasesAreNew
  <2>3. hits = {}
    BY <1>3, <1>4, <2>2
  <2> QED
    BY <1>2, <2>3
<1>5. ASSUME NEW i \in 1 .. m, w.name = Alias(i), w.alias = I!NoName PROVE I!Lookup(nodes, w) = i
  <2>1. \A k \in 1 .. m : k \in Nodes
    BY <1>0
  <2>2. \A k \in 1 .. m : {<<"n", k>>, Alias(k)} \cap {Alias(i), I!NoName} # {} <=> k = i
    BY <2>1, AliasesAreNew
  <2>3. hits = {i}
    BY <1>3, <1>5, <2>2
  <2>4. I!Min({i}) = i
    BY DEF I!Min
  <2> QED
    BY <1>2, <2>3, <2>4
<1> QED
  BY <1>4, <1>5 DEF nodes

\* The nodes of the first m lines.
NodesRead(m) == [k \in 1 .. m |-> Aliased(k)]
\* What is read of m nodes and l edges.
IsRead(st, m, es, l) ==
  /\ DOMAIN st = {"nodes", "edges", "ok"}
  /\ st.nodes = NodesRead(m) /\ st.edges = [k \in 1 .. l |-> es[k]] /\ st.ok = TRUE

\* The line of node i adds it to the nodes before it.
LEMMA NodeRead ==
  ASSUME TypeOK, GreyIsOpen, NEW i \in Nodes, NEW es, NEW st, IsRead(st, i - 1, es, 0)
  PROVE  IsRead(I!ParseLine(st, I!FormatNodeLine(GraphNodes, i)), i, es, 0)
<1>0. i \in Nat /\ i - 1 \in Nat /\ i - 1 \in 0 .. NumNodes /\ i > i - 1 /\ i - 1 + 1 = i
  BY NodesAssumption DEF Nodes
<1>1. PICK w : /\ I!FormatNodeLine(GraphNodes, i) = I!Line(<< <<w>> >>, <<>>)
               /\ I!SpecIsValid(w) /\ I!NodeOf(w) = Aliased(i)
               /\ w.name = <<"n", i>> /\ w.alias = Alias(i)
  BY NodeIsWritten
<1>2. st.ok = TRUE /\ st.nodes = NodesRead(i - 1)
  BY DEF IsRead
<1>3. I!ParseLine(st, I!Line(<< <<w>> >>, <<>>)) = [st EXCEPT !.nodes = I!LookupOrCreate(@, w)]
  BY <1>1, <1>2, NodeLine
<1>4. I!Lookup(NodesRead(i - 1), w) = 0
  BY <1>0, <1>1, LookupsFind DEF NodesRead
<1>5. I!LookupOrCreate(NodesRead(i - 1), w) = Append(NodesRead(i - 1), Aliased(i))
  BY <1>1, <1>4 DEF I!LookupOrCreate
<1>6. Append(NodesRead(i - 1), Aliased(i)) = NodesRead(i)
  <2> DEFINE s == NodesRead(i - 1)
  <2>1. DOMAIN s = 1 .. i - 1 /\ s = [k \in 1 .. i - 1 |-> s[k]] /\ \A k \in 1 .. i - 1 : s[k] = Aliased(k)
    BY DEF NodesRead
  <2> HIDE DEF s
  <2>2. Append(s, Aliased(i)) = [k \in 1 .. i - 1 + 1 |-> IF k = i - 1 + 1 THEN Aliased(i) ELSE s[k]]
    BY <1>0, <2>1, OneAppended
  <2>3. Append(s, Aliased(i)) = [k \in 1 .. i |-> IF k = i THEN Aliased(i) ELSE s[k]]
    BY <1>0, <2>2
  <2>4. \A k \in 1 .. i : (IF k = i THEN Aliased(i) ELSE s[k]) = Aliased(k)
    BY <1>0, <2>1
  <2> QED
    BY <2>3, <2>4 DEF NodesRead, s
<1> DEFINE next == [st EXCEPT !.nodes = NodesRead(i)]
<1>7. I!ParseLine(st, I!FormatNodeLine(GraphNodes, i)) = next
  BY <1>1, <1>2, <1>3, <1>5, <1>6
<1>8. IsRead(next, i, es, 0)
  <2>1. DOMAIN next = DOMAIN st /\ next.nodes = NodesRead(i) /\ next.edges = st.edges /\ next.ok = st.ok
    BY DEF IsRead
  <2> HIDE DEF next
  <2> QED
    BY <2>1 DEF IsRead
<1> QED
  BY <1>7, <1>8

\* What was read of a node goes by the kind the solver gave it.
LEMMA EffTypesAreRead ==
  ASSUME TypeOK, GreyIsOpen, NEW i \in Nodes
  PROVE  I!EffEdgeType(Aliased(i)) = EffType(i)
<1>1. Aliased(i).kind = StoredType(i) /\ Aliased(i).cands = IF Unresolved(i) THEN CandidatesOf(i) ELSE <<>>
  BY TheirFields
<1>2. CASE Unresolved(i)
  BY <1>1, <1>2, StoredTypes, CandidatesAreFine DEF I!EffEdgeType
<1>3. CASE ~Unresolved(i)
  BY <1>1, <1>3, StoredTypes DEF I!EffEdgeType, EffType, StoredType
<1> QED
  BY <1>2, <1>3

\* The two tables of type pairs say the same.
LEMMA ParserAgrees ==
  ASSUME NEW l \in Links, NEW s \in Kinds, NEW t \in Kinds, TypePairValid(l, s, t)
  PROVE  I!ValidateExplicitEdge(s, t, l)
BY DEF Links, Kinds, TypePairValid, I!ValidateExplicitEdge

\* An edge between nodes the validator lets pass, and of which no other is between the same two.
EdgesAreFine(es, l) ==
  /\ \A k \in 1 .. l : es[k] \in Edge /\ TypePairValid(es[k].link, EffType(es[k].src), EffType(es[k].tgt))
  /\ \A j, k \in 1 .. l : {es[j].src, es[j].tgt} = {es[k].src, es[k].tgt} => j = k

\* An alias stands for its node, and brings no new one.
LEMMA AliasLookedUp ==
  ASSUME TypeOK, GreyIsOpen, NEW i \in Nodes, NEW w, w.name = Alias(i), w.alias = I!NoName
  PROVE  /\ I!Lookup(NodesRead(NumNodes), w) = i
         /\ I!Mention(NodesRead(NumNodes), <<w>>) = NodesRead(NumNodes)
<1>1. NumNodes \in 0 .. NumNodes /\ i \in 1 .. NumNodes
  BY NodesAssumption DEF Nodes
<1>2. I!Lookup(NodesRead(NumNodes), w) = i
  BY <1>1, LookupsFind DEF NodesRead
<1>3. i # 0
  BY <1>1
<1>4. I!LookupOrCreate(NodesRead(NumNodes), w) = NodesRead(NumNodes)
  BY <1>2, <1>3 DEF I!LookupOrCreate
<1> QED
  BY <1>2, <1>4, MentionOne

\* The line of an edge adds it to the edges before it, and no node.
LEMMA EdgeRead ==
  ASSUME TypeOK, GreyIsOpen, NEW es, NEW l \in Nat, NEW m \in 1 .. l, EdgesAreFine(es, l),
         NEW st, IsRead(st, NumNodes, es, m - 1)
  PROVE  IsRead(I!ParseLine(st, I!FormatEdgeLine(GraphNodes, es[m])), NumNodes, es, m)
<1> DEFINE e == es[m]
           nodes == NodesRead(NumNodes)
           arrow == I!Arrow("fwd", e.link)
           by(i) == I!Written(Alias(i), I!NoName, <<>>, <<>>)
           w == by(e.src)
           v == by(e.tgt)
<1>0. m \in Nat /\ m - 1 \in Nat /\ m - 1 + 1 = m /\ \A k \in 1 .. m - 1 : k \in 1 .. l /\ k # m
  OBVIOUS
<1>1. e \in Edge /\ TypePairValid(e.link, EffType(e.src), EffType(e.tgt))
  BY DEF EdgesAreFine
<1>2. e.src \in Nodes /\ e.tgt \in Nodes /\ e.link \in Links /\ e = [src |-> e.src, tgt |-> e.tgt, link |-> e.link]
  <2> HIDE DEF e
  <2> QED
    BY <1>1 DEF Edge
<1>3. st.ok = TRUE /\ st.nodes = nodes /\ st.edges = [k \in 1 .. m - 1 |-> es[k]] /\ DOMAIN st = {"nodes", "edges", "ok"}
  BY DEF IsRead
<1>4. I!FormatEdgeLine(GraphNodes, e) = I!Line(<< <<w>>, <<v>> >>, <<arrow>>)
  BY DEF I!FormatEdgeLine, Alias
<1>5. /\ w.name = Alias(e.src) /\ w.alias = I!NoName /\ w.marks = <<>> /\ w.cands = <<>>
      /\ v.name = Alias(e.tgt) /\ v.alias = I!NoName /\ v.marks = <<>> /\ v.cands = <<>>
  BY DEF I!Written
<1>6. arrow.dir = "fwd" /\ arrow.link = e.link
  BY DEF I!Arrow
<1> HIDE DEF e, nodes, arrow, by, w, v
<1>7. Alias(e.src) # I!NoName /\ Alias(e.tgt) # I!NoName
  BY <1>2, AliasesAreNew
<1>8. I!SpecIsValid(w) /\ I!SpecIsValid(v)
  <2>1. Len(<<>>) <= 1
    OBVIOUS
  <2> QED
    BY <1>5, <1>7, <2>1 DEF I!SpecIsValid
<1>9. I!ParseLine(st, I!FormatEdgeLine(GraphNodes, e)) = I!ParseArrow(st, arrow, <<w>>, <<v>>)
  <2>1. st.ok = TRUE /\ I!SpecIsValid(w) /\ I!SpecIsValid(v)
    BY <1>3, <1>8
  <2>2. I!ParseLine(st, I!Line(<< <<w>>, <<v>> >>, <<arrow>>)) = I!ParseArrow(st, arrow, <<w>>, <<v>>)
    BY <2>1, ArrowLine, ZenonT(60)
  <2> QED
    BY <1>4, <2>2
<1>10. /\ I!Lookup(nodes, w) = e.src /\ I!Mention(nodes, <<w>>) = nodes
       /\ I!Lookup(nodes, v) = e.tgt /\ I!Mention(nodes, <<v>>) = nodes
  BY <1>2, <1>5, AliasLookedUp DEF nodes
<1> DEFINE same == [st EXCEPT !.nodes = nodes]
<1>11. I!ParseArrow(st, arrow, <<w>>, <<v>>) = I!Connect(same, arrow, e.src, e.tgt)
  <2>1. nodes = I!Mention(I!Mention(st.nodes, <<w>>), <<v>>)
    BY <1>3, <1>10
  <2> QED
    BY <1>10, <2>1, ArrowOne
<1>12. DOMAIN same = {"nodes", "edges", "ok"} /\ same.ok = TRUE /\ same.nodes = nodes /\ same.edges = st.edges
  BY <1>3
<1> HIDE DEF same
<1>13. nodes[e.src] = Aliased(e.src) /\ nodes[e.tgt] = Aliased(e.tgt)
  BY <1>2 DEF nodes, NodesRead, Nodes
<1>14. I!EffEdgeType(nodes[e.src]) = EffType(e.src) /\ I!EffEdgeType(nodes[e.tgt]) = EffType(e.tgt)
  BY <1>2, <1>13, EffTypesAreRead
<1>15. I!ValidateExplicitEdge(EffType(e.src), EffType(e.tgt), e.link)
  BY <1>1, <1>2, EffTypeIsAKind, ParserAgrees
<1>16. e.link # "inferred"
  BY <1>2 DEF Links
<1>17. I!Connect(same, arrow, e.src, e.tgt) = I!AddEdge(same, e)
  BY <1>2, <1>6, <1>12, <1>14, <1>15, <1>16 DEF I!Connect
<1> DEFINE next == [same EXCEPT !.edges = Append(@, e), !.ok = TRUE]
<1>18. I!AddEdge(same, e) = next
  <2>1. \A k \in 1 .. m - 1 : {es[k].src, es[k].tgt} # {e.src, e.tgt}
    BY <1>0 DEF EdgesAreFine, e
  <2>2. DOMAIN same.edges = 1 .. m - 1 /\ \A k \in DOMAIN same.edges : same.edges[k] = es[k]
    BY <1>3, <1>12
  <2>3. ~\E k \in DOMAIN same.edges : same.edges[k] = e
    BY <2>1, <2>2
  <2>4. ~\E k \in DOMAIN same.edges :
           {same.edges[k].src, same.edges[k].tgt} = {e.src, e.tgt} /\ same.edges[k].link # e.link
    BY <2>1, <2>2
  <2> QED
    BY <1>12, <2>3, <2>4 DEF I!AddEdge
<1>19. Append(st.edges, e) = [k \in 1 .. m |-> es[k]]
  <2> DEFINE s == st.edges
  <2>1. DOMAIN s = 1 .. m - 1 /\ s = [k \in 1 .. m - 1 |-> s[k]] /\ \A k \in 1 .. m - 1 : s[k] = es[k]
    BY <1>3
  <2> HIDE DEF s
  <2>2. Append(s, e) = [k \in 1 .. m - 1 + 1 |-> IF k = m - 1 + 1 THEN e ELSE s[k]]
    BY <1>0, <2>1, OneAppended
  <2>3. Append(s, e) = [k \in 1 .. m |-> IF k = m THEN e ELSE s[k]]
    BY <1>0, <2>2
  <2>4. \A k \in 1 .. m : (IF k = m THEN e ELSE s[k]) = es[k]
    BY <1>0, <2>1 DEF e
  <2> QED
    BY <2>3, <2>4 DEF s
<1>20. /\ DOMAIN next = {"nodes", "edges", "ok"} /\ next.ok = TRUE /\ next.nodes = nodes
       /\ next.edges = Append(same.edges, e)
  BY <1>12
<1> HIDE DEF next
<1>21. IsRead(next, NumNodes, es, m)
  BY <1>12, <1>19, <1>20 DEF IsRead, nodes
<1> QED
  BY <1>9, <1>11, <1>17, <1>18, <1>21 DEF e

\* The lines of the graph's nodes, and of l edges es.
AreLines(lines, es, l) ==
  /\ DOMAIN lines = 1 .. NumNodes + l
  /\ \A i \in Nodes : lines[i] = I!FormatNodeLine(GraphNodes, i)
  /\ \A k \in 1 .. l : lines[NumNodes + k] = I!FormatEdgeLine(GraphNodes, es[k])

\* They are read as what they were written for.
LEMMA TextIsRead ==
  ASSUME TypeOK, GreyIsOpen, NEW es, NEW l \in Nat, EdgesAreFine(es, l), NEW lines, AreLines(lines, es, l)
  PROVE  IsRead(I!ParseLines(lines), NumNodes, es, l)
<1> DEFINE n == NumNodes + l
<1>0. NumNodes \in Nat /\ NumNodes > 0 /\ n \in Nat /\ Nodes = 1 .. NumNodes /\ DOMAIN lines = 1 .. n
  BY NodesAssumption DEF Nodes, AreLines
<1>1. PICK acc : /\ acc[0] = I!NothingRead
                 /\ \A k \in 1 .. n : acc[k] = I!ParseLine(acc[k - 1], lines[k])
                 /\ acc[n] = I!ParseLines(lines)
  <2> HIDE DEF n
  <2> QED
    BY <1>0, LinesAreSteps
<1> DEFINE fine(k) == IF k <= NumNodes THEN IsRead(acc[k], k, es, 0) ELSE IsRead(acc[k], NumNodes, es, k - NumNodes)
           bad == {k \in 0 .. n : ~fine(k)}
<1>2. fine(0)
  <2> DEFINE none == [k \in 1 .. 0 |-> es[k]]
  <2>1. NodesRead(0) = <<>> /\ none = <<>>
    BY DEF NodesRead
  <2>2. /\ DOMAIN I!NothingRead = {"nodes", "edges", "ok"} /\ I!NothingRead.nodes = <<>>
        /\ I!NothingRead.edges = <<>> /\ I!NothingRead.ok = TRUE
    BY DEF I!NothingRead
  <2> HIDE DEF none
  <2>3. IsRead(I!NothingRead, 0, es, 0)
    BY <2>1, <2>2 DEF IsRead, none
  <2> QED
    BY <1>0, <1>1, <2>3
<1>3. ASSUME NEW k \in 1 .. n, fine(k - 1) PROVE fine(k)
  <2>1. CASE k <= NumNodes
    <3>1. k \in Nodes /\ k - 1 <= NumNodes
      BY <1>0, <2>1
    <3>2. IsRead(acc[k - 1], k - 1, es, 0)
      BY <1>3, <3>1
    <3>3. acc[k] = I!ParseLine(acc[k - 1], I!FormatNodeLine(GraphNodes, k))
      BY <1>1, <3>1 DEF AreLines
    <3>4. IsRead(acc[k], k, es, 0)
      BY <3>1, <3>2, <3>3, NodeRead
    <3> QED
      BY <2>1, <3>4
  <2>2. CASE k = NumNodes + 1
    <3>1. k - 1 = NumNodes /\ 1 \in 1 .. l /\ 1 - 1 = 0 /\ k - NumNodes = 1 /\ ~(k <= NumNodes)
      BY <1>0, <2>2
    <3>2. IsRead(acc[k - 1], NumNodes, es, 1 - 1)
      BY <1>0, <1>3, <3>1
    <3>3. acc[k] = I!ParseLine(acc[k - 1], I!FormatEdgeLine(GraphNodes, es[1]))
      BY <1>1, <2>2, <3>1 DEF AreLines
    <3>4. IsRead(acc[k], NumNodes, es, 1)
      <4> HIDE DEF fine
      <4> QED
        BY <3>1, <3>2, <3>3, EdgeRead
    <3> QED
      BY <3>1, <3>4
  <2>3. CASE k > NumNodes + 1
    <3> DEFINE m == k - NumNodes
    <3>1. m \in 1 .. l /\ ~(k - 1 <= NumNodes) /\ k - 1 - NumNodes = m - 1 /\ k = NumNodes + m /\ ~(k <= NumNodes)
      BY <1>0, <2>3
    <3> HIDE DEF m
    <3>2. IsRead(acc[k - 1], NumNodes, es, m - 1)
      BY <1>3, <3>1
    <3>3. lines[k] = I!FormatEdgeLine(GraphNodes, es[m])
      BY <3>1 DEF AreLines
    <3>4. acc[k] = I!ParseLine(acc[k - 1], I!FormatEdgeLine(GraphNodes, es[m]))
      BY <1>1, <3>3
    <3>5. IsRead(acc[k], NumNodes, es, m)
      <4> HIDE DEF fine
      <4> QED
        BY <3>1, <3>2, <3>4, EdgeRead
    <3> QED
      BY <3>1, <3>5 DEF m
  <2>4. k \in Nat
    BY <1>0
  <2> QED
    BY <1>0, <2>1, <2>2, <2>3, <2>4
<1> HIDE DEF fine
<1>4. bad = {}
  <2> SUFFICES ASSUME bad # {} PROVE FALSE
    OBVIOUS
  <2>1. bad \in SUBSET Nat
    OBVIOUS
  <2>2. PICK k \in bad : \A m \in bad : k <= m
    <3> HIDE DEF bad
    <3> QED
      BY <2>1, LeastElement
  <2>3. k # 0 /\ k \in 0 .. n
    BY <1>2, <2>2
  <2>4. k \in 1 .. n /\ k - 1 \in 0 .. n /\ k - 1 < k
    BY <1>0, <2>3
  <2>5. k - 1 \notin bad
    <3> HIDE DEF bad, n
    <3> QED
      BY <1>0, <2>2, <2>4
  <2> QED
    BY <1>3, <2>2, <2>4, <2>5
<1>5. fine(n)
  <2>1. n \in 0 .. n
    BY <1>0
  <2> QED
    BY <1>4, <2>1
<1>6. IsRead(acc[n], NumNodes, es, l)
  <2>1. CASE l = 0
    BY <1>0, <1>5, <2>1 DEF fine
  <2>2. CASE l # 0
    <3>1. ~(n <= NumNodes) /\ n - NumNodes = l
      BY <1>0, <2>2
    <3> HIDE DEF n
    <3> QED
      BY <1>5, <3>1 DEF fine
  <2> QED
    BY <2>1, <2>2
<1> QED
  BY <1>1, <1>6

\* A stretch of a sequence.
LEMMA PartOfIt ==
  ASSUME NEW V0, NEW s, NEW m \in Int, NEW n \in Int, m <= n + 1, \A j \in m .. n : s[j] \in V0
  PROVE  /\ SubSeq(s, m, n) \in Seq(V0) /\ Len(SubSeq(s, m, n)) = n - m + 1
         /\ \A j \in 1 .. n - m + 1 : SubSeq(s, m, n)[j] = s[m + j - 1]
<1>1. /\ SubSeq(s, m, n) \in Seq(V0)
      /\ Len(SubSeq(s, m, n)) = IF m <= n THEN n - m + 1 ELSE 0
      /\ \A j \in 1 .. n - m + 1 : SubSeq(s, m, n)[j] = s[m + j - 1]
  BY SubSeqProperties
<1>2. ~(m <= n) => n - m + 1 = 0
  OBVIOUS
<1> QED
  BY <1>1, <1>2

\* A sequence without its k-th element.
LEMMA OneRemoved ==
  ASSUME NEW n \in Nat, NEW s, DOMAIN s = 1 .. n, s = [k \in 1 .. n |-> s[k]], NEW k \in 1 .. n
  PROVE  /\ DOMAIN I!RemoveAt(s, k) = 1 .. n - 1
         /\ \A j \in 1 .. n - 1 : I!RemoveAt(s, k)[j] = IF j < k THEN s[j] ELSE s[j + 1]
<1> DEFINE V0 == {s[j] : j \in 1 .. n}
           a == SubSeq(s, 1, k - 1)
           b == SubSeq(s, k + 1, n)
<1>1. Len(s) = n
  BY OneAppended
<1>2. I!RemoveAt(s, k) = a \o b
  BY <1>1 DEF I!RemoveAt
<1> HIDE DEF V0
<1>p. \A p, q \in Int : p <= q + 1 /\ (\A j \in p .. q : s[j] \in V0)
        => /\ SubSeq(s, p, q) \in Seq(V0) /\ Len(SubSeq(s, p, q)) = q - p + 1
           /\ \A j \in 1 .. q - p + 1 : SubSeq(s, p, q)[j] = s[p + j - 1]
  <2> TAKE p, q \in Int
  <2> HAVE p <= q + 1 /\ (\A j \in p .. q : s[j] \in V0)
  <2> QED
    BY PartOfIt
<1> USE DEF V0
<1>3. /\ a \in Seq(V0) /\ Len(a) = k - 1 /\ \A j \in 1 .. k - 1 : a[j] = s[j]
  <2>1. \A j \in 1 .. k - 1 : s[j] \in V0
    OBVIOUS
  <2>2. 1 \in Int /\ k - 1 \in Int
    OBVIOUS
  <2> HIDE DEF V0
  <2> DEFINE u == k - 1
  <2>3. u \in Int /\ 1 <= u + 1 /\ \A j \in 1 .. u : s[j] \in V0
    BY <2>1
  <2>4. u - 1 + 1 = u /\ \A j \in 1 .. u : 1 + j - 1 = j
    OBVIOUS
  <2> HIDE DEF u
  <2>5. /\ SubSeq(s, 1, u) \in Seq(V0) /\ Len(SubSeq(s, 1, u)) = u - 1 + 1
        /\ \A j \in 1 .. u - 1 + 1 : SubSeq(s, 1, u)[j] = s[1 + j - 1]
    BY <2>2, <2>3, <1>p
  <2> QED
    BY <2>4, <2>5 DEF u
<1>4. /\ b \in Seq(V0) /\ Len(b) = n - k /\ \A j \in 1 .. n - k : b[j] = s[k + j]
  <2>1. \A j \in k + 1 .. n : s[j] \in V0
    OBVIOUS
  <2>2. k + 1 \in Int /\ n \in Int
    OBVIOUS
  <2> HIDE DEF V0
  <2> DEFINE u == k + 1
  <2>3. u \in Int /\ u <= n + 1 /\ \A j \in u .. n : s[j] \in V0
    <3>1. u \in Int /\ u <= n + 1
      OBVIOUS
    <3>2. \A j \in u .. n : s[j] \in V0
      BY <2>1, Zenon DEF u
    <3> QED
      BY <3>1, <3>2
  <2>4. n - u + 1 = n - k /\ \A j \in 1 .. n - k : u + j - 1 = k + j
    OBVIOUS
  <2> HIDE DEF u
  <2>5. /\ SubSeq(s, u, n) \in Seq(V0) /\ Len(SubSeq(s, u, n)) = n - u + 1
        /\ \A j \in 1 .. n - u + 1 : SubSeq(s, u, n)[j] = s[u + j - 1]
    BY <2>2, <2>3, <1>p
  <2> QED
    BY <2>4, <2>5 DEF u
<1> HIDE DEF a, b, V0
<1>5. /\ a \o b \in Seq(V0) /\ Len(a \o b) = k - 1 + (n - k)
      /\ \A j \in 1 .. k - 1 + (n - k) : (a \o b)[j] = IF j <= k - 1 THEN a[j] ELSE b[j - (k - 1)]
  <2>1. /\ a \o b \in Seq(V0) /\ Len(a \o b) = Len(a) + Len(b)
        /\ \A j \in 1 .. Len(a) + Len(b) : (a \o b)[j] = IF j <= Len(a) THEN a[j] ELSE b[j - Len(a)]
    BY <1>3, <1>4, ConcatProperties
  <2> QED
    BY <1>3, <1>4, <2>1
<1> DEFINE c == a \o b
<1> HIDE DEF c
<1>6. k - 1 + (n - k) = n - 1 /\ n - 1 \in Nat
  OBVIOUS
<1>7. DOMAIN c = 1 .. n - 1
  <2>1. c \in Seq(V0) /\ Len(c) = n - 1
    BY <1>5, <1>6 DEF c
  <2> QED
    BY <2>1, LenProperties
<1>8. \A j \in 1 .. n - 1 : c[j] = IF j < k THEN s[j] ELSE s[j + 1]
  <2> TAKE j \in 1 .. n - 1
  <2>1. c[j] = IF j <= k - 1 THEN a[j] ELSE b[j - (k - 1)]
    BY <1>5, <1>6 DEF c
  <2>2. CASE j < k
    <3>1. j <= k - 1 /\ j \in 1 .. k - 1
      BY <2>2
    <3> QED
      BY <1>3, <2>1, <2>2, <3>1
  <2>3. CASE ~(j < k)
    <3>1. ~(j <= k - 1) /\ j - (k - 1) \in 1 .. n - k /\ k + (j - (k - 1)) = j + 1
      BY <2>3
    <3> QED
      BY <1>4, <2>1, <2>3, <3>1
  <2> QED
    BY <2>2, <2>3
<1> QED
  BY <1>2, <1>7, <1>8 DEF c

\* Two functions on intervals, one behind the other.
LEMMA OneBehind ==
  ASSUME NEW n \in Nat, NEW p, DOMAIN p = 1 .. n, p = [k \in 1 .. n |-> p[k]],
         NEW l \in Nat, NEW q, DOMAIN q = 1 .. l, q = [k \in 1 .. l |-> q[k]]
  PROVE  /\ DOMAIN (p \o q) = 1 .. n + l
         /\ p \o q = [k \in 1 .. n + l |-> (p \o q)[k]]
         /\ \A k \in 1 .. n : (p \o q)[k] = p[k]
         /\ \A k \in 1 .. l : (p \o q)[n + k] = q[k]
<1> DEFINE V0 == {p[k] : k \in 1 .. n} \cup {q[k] : k \in 1 .. l}
           c == p \o q
<1>1. p \in [1 .. n -> V0] /\ q \in [1 .. l -> V0]
  OBVIOUS
<1> HIDE DEF V0
<1>2. p \in Seq(V0) /\ Len(p) = n /\ q \in Seq(V0) /\ Len(q) = l
  BY <1>1
<1>3. /\ c \in Seq(V0) /\ Len(c) = n + l
      /\ \A k \in 1 .. n + l : c[k] = IF k <= n THEN p[k] ELSE q[k - n]
  BY <1>2, ConcatProperties
<1> HIDE DEF c
<1>4. DOMAIN c = 1 .. n + l /\ c = [k \in 1 .. n + l |-> c[k]]
  <2>1. c \in [1 .. Len(c) -> V0]
    BY <1>3, LenProperties
  <2> QED
    BY <1>3, <2>1
<1>5. \A k \in 1 .. n : c[k] = p[k]
  <2> TAKE k \in 1 .. n
  <2>1. k \in 1 .. n + l /\ k <= n
    OBVIOUS
  <2> QED
    BY <1>3, <2>1
<1>6. \A k \in 1 .. l : c[n + k] = q[k]
  <2> TAKE k \in 1 .. l
  <2> DEFINE j == n + k
  <2>1. j \in 1 .. n + l /\ ~(j <= n) /\ j - n = k
    OBVIOUS
  <2> HIDE DEF j
  <2>2. c[j] = q[k]
    BY <1>3, <2>1
  <2> QED
    BY <2>2 DEF j
<1> QED
  BY <1>4, <1>5, <1>6 DEF c

\* What Serialize writes are the lines of the nodes and of the edges.
LEMMA LinesAreWritten ==
  ASSUME NEW es, NEW l \in Nat, DOMAIN es = 1 .. l
  PROVE  LET written == I!Serialize(GraphNodes, es)
         IN  AreLines(written, es, l) /\ written = [k \in 1 .. NumNodes + l |-> written[k]]
<1> DEFINE p == [i \in DOMAIN GraphNodes |-> I!FormatNodeLine(GraphNodes, i)]
           q == [i \in DOMAIN es |-> I!FormatEdgeLine(GraphNodes, es[i])]
<1>0. NumNodes \in Nat /\ Nodes = 1 .. NumNodes
  BY NodesAssumption DEF Nodes
<1>1. /\ DOMAIN p = 1 .. NumNodes /\ p = [k \in 1 .. NumNodes |-> p[k]]
      /\ \A i \in Nodes : p[i] = I!FormatNodeLine(GraphNodes, i)
  <2>1. DOMAIN GraphNodes = Nodes
    BY DEF GraphNodes
  <2> QED
    BY <1>0, <2>1
<1>2. /\ DOMAIN q = 1 .. l /\ q = [k \in 1 .. l |-> q[k]]
      /\ \A k \in 1 .. l : q[k] = I!FormatEdgeLine(GraphNodes, es[k])
  OBVIOUS
<1>3. I!Serialize(GraphNodes, es) = p \o q
  BY DEF I!Serialize
<1> HIDE DEF p, q
<1>4. /\ DOMAIN (p \o q) = 1 .. NumNodes + l
      /\ p \o q = [k \in 1 .. NumNodes + l |-> (p \o q)[k]]
      /\ \A k \in 1 .. NumNodes : (p \o q)[k] = p[k]
      /\ \A k \in 1 .. l : (p \o q)[NumNodes + k] = q[k]
  BY <1>0, <1>1, <1>2, OneBehind
<1> QED
  BY <1>0, <1>1, <1>2, <1>3, <1>4 DEF AreLines

\* What an edge is in a comparison of graphs.
EdgeSeen(e) ==
  [link |-> e.link, ends |-> { <<"n", e.src>>, <<"n", e.tgt>> },
   from |-> IF e.link = "NearTo" THEN I!NoName ELSE <<"n", e.src>>]
\* And what the nodes are.
NodesSeen == { <<GraphNodes[i].name, GraphNodes[i].kind, I!ToSet(GraphNodes[i].cands)>> : i \in Nodes }

\* What these nodes and l edges are.
AllSeen(es, l) == [nodes |-> NodesSeen, edges |-> {EdgeSeen(es[k]) : k \in 1 .. l}]

\* With aliases or without, the nodes are compared by their names.
LEMMA GraphIsSeen ==
  ASSUME NEW es, NEW l \in Nat, \A k \in 1 .. l : es[k] \in Edge,
         NEW nodes, DOMAIN nodes = Nodes,
         \A i \in Nodes : /\ nodes[i].name = <<"n", i>> /\ nodes[i].kind = GraphNodes[i].kind
                          /\ nodes[i].cands = GraphNodes[i].cands
  PROVE  Canonicalize(nodes, [k \in 1 .. l |-> es[k]]) = AllSeen(es, l)
<1> DEFINE all == [k \in 1 .. l |-> es[k]]
           named(nd) == <<nd.name, nd.kind, I!ToSet(nd.cands)>>
           seenAs(e) == [link |-> e.link,
                         ends |-> {nodes[e.src].name, nodes[e.tgt].name},
                         from |-> IF e.link = "NearTo" THEN I!NoName ELSE nodes[e.src].name]
<1>1. {named(nd) : nd \in I!ToSet(nodes)} = NodesSeen
  <2>1. I!ToSet(nodes) = {nodes[i] : i \in Nodes}
    BY DEF I!ToSet
  <2>2. \A i \in Nodes : GraphNodes[i].name = <<"n", i>>
    BY TheirFields
  <2>3. \A i \in Nodes : named(nodes[i]) = named(GraphNodes[i])
    BY <2>2
  <2>4. NodesSeen = {named(GraphNodes[i]) : i \in Nodes}
    BY DEF NodesSeen
  <2> HIDE DEF named
  <2> QED
    BY <2>1, <2>3, <2>4
<1>2. \A k \in 1 .. l : seenAs(es[k]) = EdgeSeen(es[k])
  <2> TAKE k \in 1 .. l
  <2>1. es[k].src \in Nodes /\ es[k].tgt \in Nodes
    BY DEF Edge
  <2>2. nodes[es[k].src].name = <<"n", es[k].src>> /\ nodes[es[k].tgt].name = <<"n", es[k].tgt>>
    BY <2>1
  <2> QED
    BY <2>2 DEF EdgeSeen
<1>3. I!ToSet(all) = {es[k] : k \in 1 .. l}
  BY DEF I!ToSet
<1>4. Canonicalize(nodes, all) = [nodes |-> {named(nd) : nd \in I!ToSet(nodes)},
                                  edges |-> {seenAs(e) : e \in I!ToSet(all)}]
  BY DEF Canonicalize
<1> HIDE DEF named, seenAs, all
<1>5. {seenAs(e) : e \in I!ToSet(all)} = {EdgeSeen(es[k]) : k \in 1 .. l}
  BY <1>2, <1>3
<1> QED
  BY <1>1, <1>4, <1>5 DEF all, AllSeen

\* No two edges of it look the same.
LEMMA EdgesSeenDiffer ==
  ASSUME NEW es, NEW l \in Nat, EdgesAreFine(es, l), NEW j \in 1 .. l, NEW k \in 1 .. l,
         EdgeSeen(es[j]) = EdgeSeen(es[k])
  PROVE  j = k
<1>1. EdgeSeen(es[j]).ends = EdgeSeen(es[k]).ends
  OBVIOUS
<1>2. { <<"n", es[j].src>>, <<"n", es[j].tgt>> } = { <<"n", es[k].src>>, <<"n", es[k].tgt>> }
  BY <1>1 DEF EdgeSeen
<1>3. \A x, y : <<"n", x>> = <<"n", y>> => x = y
  OBVIOUS
<1>4. {es[j].src, es[j].tgt} = {es[k].src, es[k].tgt}
  <2> DEFINE a == es[j].src
             b == es[j].tgt
             c == es[k].src
             d == es[k].tgt
  <2>1. { <<"n", a>>, <<"n", b>> } = { <<"n", c>>, <<"n", d>> }
    BY <1>2
  <2> HIDE DEF a, b, c, d
  <2>2. (a = c \/ a = d) /\ (b = c \/ b = d) /\ (c = a \/ c = b) /\ (d = a \/ d = b)
    BY <1>3, <2>1
  <2>3. {a, b} = {c, d}
    BY <2>2
  <2> QED
    BY <2>3 DEF a, b, c, d
<1> QED
  BY <1>4 DEF EdgesAreFine

\* The nodes that are read are those of the graph, as far as it is compared.
LEMMA ReadNodesAreSeen ==
  /\ DOMAIN NodesRead(NumNodes) = Nodes
  /\ \A i \in Nodes : /\ NodesRead(NumNodes)[i].name = <<"n", i>>
                      /\ NodesRead(NumNodes)[i].kind = GraphNodes[i].kind
                      /\ NodesRead(NumNodes)[i].cands = GraphNodes[i].cands
<1>1. NodesRead(NumNodes) = [i \in Nodes |-> Aliased(i)]
  BY DEF NodesRead, Nodes
<1>2. DOMAIN NodesRead(NumNodes) = Nodes /\ \A i \in Nodes : NodesRead(NumNodes)[i] = Aliased(i)
  BY <1>1
<1> QED
  BY <1>2, TheirFields

\* Lines of all its nodes and of l edges are read, and what they are read as is what these look like.
LEMMA ReadIsSeen ==
  ASSUME TypeOK, GreyIsOpen, NEW es, NEW l \in Nat, EdgesAreFine(es, l), NEW lines, AreLines(lines, es, l)
  PROVE  LET want == I!ParseLines(lines)
         IN  /\ want.ok = TRUE /\ want.nodes = NodesRead(NumNodes) /\ want.edges = [k \in 1 .. l |-> es[k]]
             /\ Canonicalize(want.nodes, want.edges) = AllSeen(es, l)
<1> DEFINE want == I!ParseLines(lines)
           nodes == NodesRead(NumNodes)
<1>1. want.ok = TRUE /\ want.nodes = nodes /\ want.edges = [k \in 1 .. l |-> es[k]]
  BY TextIsRead DEF IsRead
<1>2. /\ DOMAIN nodes = Nodes
      /\ \A i \in Nodes : /\ nodes[i].name = <<"n", i>> /\ nodes[i].kind = GraphNodes[i].kind
                          /\ nodes[i].cands = GraphNodes[i].cands
  BY ReadNodesAreSeen
<1> HIDE DEF want, nodes
<1>3. \A k \in 1 .. l : es[k] \in Edge
  BY DEF EdgesAreFine
<1>4. Canonicalize(nodes, [k \in 1 .. l |-> es[k]]) = AllSeen(es, l)
  BY <1>2, <1>3, GraphIsSeen
<1>5. /\ want.ok = TRUE /\ want.nodes = nodes /\ want.edges = [k \in 1 .. l |-> es[k]]
      /\ Canonicalize(want.nodes, want.edges) = AllSeen(es, l)
  BY <1>1, <1>4
<1> QED
  BY <1>5 DEF want, nodes

\* The edges of the graph at the end, as the text has them.
LEMMA OutputEdges ==
  ASSUME TypeOK, OutputInv, pc = "done"
  PROVE  \E l \in Nat : /\ DOMAIN GraphEdges = 1 .. l /\ GraphEdges = [k \in 1 .. l |-> GraphEdges[k]]
                        /\ EdgesAreFine(GraphEdges, l)
<1> DEFINE kept == InOrder(alive)
           l == Cardinality(alive)
<1>1. edges \in Seq(Edge) /\ alive \subseteq DOMAIN edges /\ DOMAIN edges = 1 .. Len(edges) /\ Len(edges) \in Nat
  BY DEF TypeOK
<1>2. alive \in SUBSET Nat /\ IsFiniteSet(alive)
  <2>1. IsFiniteSet(1 .. Len(edges))
    BY <1>1, FS_Interval
  <2> QED
    BY <1>1, <2>1, FS_Subset
<1>3. /\ l \in Nat /\ DOMAIN kept = 1 .. l
      /\ \A k \in 1 .. l : kept[k] \in alive
      /\ \A j, k \in 1 .. l : kept[j] = kept[k] => j = k
  BY <1>2, InOrderLists
<1>4. GraphEdges = [n \in DOMAIN kept |-> edges[kept[n]]]
  BY DEF GraphEdges
<1> HIDE DEF kept, l
<1>5. /\ DOMAIN GraphEdges = 1 .. l /\ GraphEdges = [k \in 1 .. l |-> GraphEdges[k]]
      /\ \A k \in 1 .. l : GraphEdges[k] = edges[kept[k]]
  BY <1>3, <1>4
<1>6. \A k \in 1 .. l : GraphEdges[k] \in Edge
  BY <1>1, <1>3, <1>5
<1>7. \A k \in 1 .. l : TypePairValid(GraphEdges[k].link, EffType(GraphEdges[k].src), EffType(GraphEdges[k].tgt))
  <2>1. \A n \in alive : InTable(n)
    BY DEF OutputInv
  <2> QED
    BY <1>3, <1>5, <2>1 DEF InTable
<1>8. \A j, k \in 1 .. l :
        {GraphEdges[j].src, GraphEdges[j].tgt} = {GraphEdges[k].src, GraphEdges[k].tgt} => j = k
  <2>1. \A n, m \in alive : {edges[n].src, edges[n].tgt} = {edges[m].src, edges[m].tgt} => n = m
    BY DEF OutputInv
  <2> TAKE j, k \in 1 .. l
  <2> HAVE {GraphEdges[j].src, GraphEdges[j].tgt} = {GraphEdges[k].src, GraphEdges[k].tgt}
  <2>2. kept[j] \in alive /\ kept[k] \in alive /\ GraphEdges[j] = edges[kept[j]] /\ GraphEdges[k] = edges[kept[k]]
    BY <1>3, <1>5
  <2>3. {edges[kept[j]].src, edges[kept[j]].tgt} = {edges[kept[k]].src, edges[kept[k]].tgt}
    BY <2>2
  <2>4. kept[j] = kept[k]
    BY <2>1, <2>2, <2>3, Zenon
  <2> QED
    BY <1>3, <2>4
<1> QED
  BY <1>3, <1>5, <1>6, <1>7, <1>8 DEF EdgesAreFine

\* The graph itself.
LEMMA ResultIsSeen ==
  ASSUME NEW l \in Nat, GraphEdges = [k \in 1 .. l |-> GraphEdges[k]], EdgesAreFine(GraphEdges, l)
  PROVE  Canonicalize(GraphNodes, GraphEdges) = AllSeen(GraphEdges, l)
<1>1. /\ DOMAIN GraphNodes = Nodes
      /\ \A i \in Nodes : /\ GraphNodes[i].name = <<"n", i>> /\ GraphNodes[i].kind = GraphNodes[i].kind
                          /\ GraphNodes[i].cands = GraphNodes[i].cands
  <2>1. DOMAIN GraphNodes = Nodes
    BY DEF GraphNodes
  <2> QED
    BY <2>1, TheirFields
<1>2. \A k \in 1 .. l : GraphEdges[k] \in Edge
  BY DEF EdgesAreFine
<1> DEFINE nodes == GraphNodes
           es == GraphEdges
<1>3. Canonicalize(nodes, [k \in 1 .. l |-> es[k]]) = AllSeen(es, l)
  <2>1. /\ DOMAIN nodes = Nodes
        /\ \A i \in Nodes : /\ nodes[i].name = <<"n", i>> /\ nodes[i].kind = GraphNodes[i].kind
                            /\ nodes[i].cands = GraphNodes[i].cands
    BY <1>1
  <2>2. \A k \in 1 .. l : es[k] \in Edge
    BY <1>2
  <2> HIDE DEF nodes, es
  <2> QED
    BY <2>1, <2>2, GraphIsSeen
<1> QED
  BY <1>3

\* Without the line of an edge the text says of one edge less.
LEMMA EdgeLineMatters ==
  ASSUME TypeOK, GreyIsOpen, NEW l \in Nat, DOMAIN GraphEdges = 1 .. l,
         GraphEdges = [k \in 1 .. l |-> GraphEdges[k]], EdgesAreFine(GraphEdges, l), NEW m \in 1 .. l
  PROVE  ~Verifies(I!RemoveAt(I!Serialize(GraphNodes, GraphEdges), NumNodes + m))
<1> DEFINE es == GraphEdges
           written == I!Serialize(GraphNodes, es)
           n == NumNodes + l
           c == NumNodes + m
           rest == I!RemoveAt(written, c)
           fs == [k \in 1 .. l - 1 |-> IF k < m THEN es[k] ELSE es[k + 1]]
<1>0. /\ NumNodes \in Nat /\ Nodes = 1 .. NumNodes /\ n \in Nat /\ c \in 1 .. n /\ l - 1 \in Nat
      /\ n - 1 = NumNodes + (l - 1)
  BY NodesAssumption DEF Nodes
<1>1. DOMAIN es = 1 .. l /\ EdgesAreFine(es, l)
  OBVIOUS
<1>2. Canonicalize(GraphNodes, es) = AllSeen(es, l)
  BY ResultIsSeen
<1>3. \A k \in 1 .. l - 1 : IF k < m THEN k \in 1 .. l /\ k # m /\ fs[k] = es[k]
                                     ELSE k + 1 \in 1 .. l /\ k + 1 # m /\ fs[k] = es[k + 1]
  OBVIOUS
<1> HIDE DEF es, fs
<1>4. AreLines(written, es, l) /\ written = [k \in 1 .. n |-> written[k]]
  BY <1>1, LinesAreWritten
<1> HIDE DEF written
<1>5. /\ DOMAIN rest = 1 .. n - 1
      /\ \A j \in 1 .. n - 1 : rest[j] = IF j < c THEN written[j] ELSE written[j + 1]
  <2>1. DOMAIN written = 1 .. n
    BY <1>4 DEF AreLines
  <2> HIDE DEF n, c
  <2> QED
    BY <1>0, <1>4, <2>1, OneRemoved
<1> HIDE DEF rest
<1>6. AreLines(rest, fs, l - 1)
  <2>1. \A i \in Nodes : rest[i] = I!FormatNodeLine(GraphNodes, i)
    <3> TAKE i \in Nodes
    <3>1. i \in 1 .. n - 1 /\ i < c
      BY <1>0
    <3>2. rest[i] = written[i]
      BY <1>5, <3>1
    <3> QED
      BY <1>4, <3>2 DEF AreLines
  <2>2. \A k \in 1 .. l - 1 : rest[NumNodes + k] = I!FormatEdgeLine(GraphNodes, fs[k])
    <3> TAKE k \in 1 .. l - 1
    <3>0. NumNodes + k \in 1 .. n - 1 /\ (NumNodes + k < c <=> k < m) /\ NumNodes + k + 1 = NumNodes + (k + 1)
      BY <1>0
    <3> DEFINE q == NumNodes + k
    <3>1. rest[q] = IF q < c THEN written[q] ELSE written[q + 1]
      <4> HIDE DEF q, c, n
      <4> QED
        BY <1>5, <3>0 DEF q
    <3>2. CASE k < m
      <4>1. rest[q] = written[q]
        BY <3>0, <3>1, <3>2
      <4>2. written[NumNodes + k] = I!FormatEdgeLine(GraphNodes, es[k])
        BY <1>3, <1>4, <3>2 DEF AreLines
      <4> QED
        BY <1>3, <3>2, <4>1, <4>2
    <3>3. CASE ~(k < m)
      <4> DEFINE p == k + 1
      <4>1. rest[q] = written[NumNodes + p]
        BY <3>0, <3>1, <3>3
      <4>2. p \in 1 .. l /\ fs[k] = es[p]
        BY <1>3, <3>3
      <4> HIDE DEF p
      <4>3. written[NumNodes + p] = I!FormatEdgeLine(GraphNodes, es[p])
        BY <1>4, <4>2 DEF AreLines
      <4> QED
        BY <4>1, <4>2, <4>3
    <3> QED
      BY <3>2, <3>3
  <2> QED
    BY <1>0, <1>5, <2>1, <2>2 DEF AreLines
<1>7. \A k \in 1 .. l - 1 : \E p \in 1 .. l : p # m /\ fs[k] = es[p]
  BY <1>3
<1>8. EdgesAreFine(fs, l - 1)
  <2>1. \A k \in 1 .. l - 1 : fs[k] \in Edge /\ TypePairValid(fs[k].link, EffType(fs[k].src), EffType(fs[k].tgt))
    BY <1>1, <1>7 DEF EdgesAreFine
  <2>2. ASSUME NEW j \in 1 .. l - 1, NEW k \in 1 .. l - 1, {fs[j].src, fs[j].tgt} = {fs[k].src, fs[k].tgt}
        PROVE  j = k
    <3> DEFINE at(i) == IF i < m THEN i ELSE i + 1
    <3>1. /\ at(j) \in 1 .. l /\ fs[j] = es[at(j)]
          /\ at(k) \in 1 .. l /\ fs[k] = es[at(k)]
      BY <1>3
    <3>2. at(j) = at(k) => j = k
      OBVIOUS
    <3> DEFINE a == at(j)
               b == at(k)
    <3> HIDE DEF at, a, b
    <3>3. a \in 1 .. l /\ fs[j] = es[a] /\ b \in 1 .. l /\ fs[k] = es[b]
      BY <3>1 DEF a, b
    <3>4. {es[a].src, es[a].tgt} = {es[b].src, es[b].tgt}
      BY <2>2, <3>3
    <3>5. a = b
      BY <1>1, <3>3, <3>4, Zenon DEF EdgesAreFine
    <3> QED
      BY <3>2, <3>5 DEF a, b
  <2> QED
    BY <2>1, <2>2 DEF EdgesAreFine
<1>9. LET want == I!ParseLines(rest)
      IN  Canonicalize(want.nodes, want.edges) = AllSeen(fs, l - 1)
  <2> DEFINE d == l - 1
  <2>1. d \in Nat /\ AreLines(rest, fs, d) /\ EdgesAreFine(fs, d)
    BY <1>0, <1>6, <1>8
  <2> HIDE DEF d
  <2>2. LET want == I!ParseLines(rest)
        IN  Canonicalize(want.nodes, want.edges) = AllSeen(fs, d)
    BY <2>1, ReadIsSeen
  <2> QED
    BY <2>2 DEF d
<1>10. {EdgeSeen(fs[k]) : k \in 1 .. l - 1} # {EdgeSeen(es[k]) : k \in 1 .. l}
  <2>1. EdgeSeen(es[m]) \in {EdgeSeen(es[k]) : k \in 1 .. l}
    OBVIOUS
  <2>2. ASSUME NEW k \in 1 .. l - 1, EdgeSeen(es[m]) = EdgeSeen(fs[k]) PROVE FALSE
    <3>1. PICK p \in 1 .. l : p # m /\ fs[k] = es[p]
      BY <1>7
    <3>2. EdgeSeen(es[m]) = EdgeSeen(es[p])
      BY <2>2, <3>1
    <3>3. m = p
      BY <1>1, <3>2, EdgesSeenDiffer
    <3> QED
      BY <3>1, <3>3
  <2> QED
    BY <2>1, <2>2
<1>11. ~Verifies(rest)
  <2> DEFINE fewer == {EdgeSeen(fs[k]) : k \in 1 .. l - 1}
             all == {EdgeSeen(es[k]) : k \in 1 .. l}
  <2>1. fewer # all
    BY <1>10
  <2>2. AllSeen(fs, l - 1).edges = fewer /\ AllSeen(es, l).edges = all
    BY DEF AllSeen
  <2> HIDE DEF fewer, all
  <2>3. AllSeen(fs, l - 1) # AllSeen(es, l)
    BY <2>1, <2>2
  <2>4. Canonicalize(GraphNodes, GraphEdges) = AllSeen(es, l)
    BY <1>2 DEF es
  <2> QED
    BY <1>9, <2>3, <2>4 DEF Verifies
<1> QED
  BY <1>11 DEF rest, written, es

\* No node of a graph being read is named x.
NodesKeepOut(nodes, x) ==
  \E m \in Nat : /\ DOMAIN nodes = 1 .. m /\ nodes = [j \in 1 .. m |-> nodes[j]]
                 /\ \A j \in 1 .. m : nodes[j].name # x
\* The same of what is read up to some line.
KeepsOut(st, x) ==
  /\ DOMAIN st = {"nodes", "edges", "ok"} /\ st.ok \in BOOLEAN /\ NodesKeepOut(st.nodes, x)

\* Nor is one after another is mentioned.
LEMMA MentionKeepsOut ==
  ASSUME NEW nodes, NEW x, NodesKeepOut(nodes, x), NEW w, w.name # x
  PROVE  NodesKeepOut(I!Mention(nodes, <<w>>), x)
<1>1. I!Mention(nodes, <<w>>) = I!LookupOrCreate(nodes, w)
  BY MentionOne
<1>2. CASE I!Lookup(nodes, w) # 0
  BY <1>1, <1>2 DEF I!LookupOrCreate
<1>3. CASE I!Lookup(nodes, w) = 0
  <2>1. I!Mention(nodes, <<w>>) = Append(nodes, I!NodeOf(w))
    BY <1>1, <1>3 DEF I!LookupOrCreate
  <2>2. I!NodeOf(w).name = w.name
    BY DEF I!NodeOf
  <2>3. PICK m \in Nat : /\ DOMAIN nodes = 1 .. m /\ nodes = [j \in 1 .. m |-> nodes[j]]
                         /\ \A j \in 1 .. m : nodes[j].name # x
    BY DEF NodesKeepOut
  <2> DEFINE nd == I!NodeOf(w)
             more == [k \in 1 .. m + 1 |-> IF k = m + 1 THEN nd ELSE nodes[k]]
  <2> HIDE DEF nd
  <2>4. Append(nodes, nd) = more
    BY <2>3, OneAppended
  <2>5. m + 1 \in Nat /\ DOMAIN more = 1 .. m + 1 /\ more = [j \in 1 .. m + 1 |-> more[j]]
    OBVIOUS
  <2>6. \A j \in 1 .. m + 1 : more[j].name # x
    <3>1. \A j \in 1 .. m + 1 : j = m + 1 \/ j \in 1 .. m
      OBVIOUS
    <3> QED
      BY <2>2, <2>3, <3>1 DEF nd
  <2> HIDE DEF more
  <2>7. NodesKeepOut(more, x)
    <3> DEFINE d == m + 1
    <3>1. d \in Nat /\ DOMAIN more = 1 .. d /\ more = [j \in 1 .. d |-> more[j]] /\ \A j \in 1 .. d : more[j].name # x
      BY <2>5, <2>6
    <3> HIDE DEF d
    <3> QED
      BY <3>1 DEF NodesKeepOut
  <2> QED
    BY <2>1, <2>4, <2>7 DEF nd
<1> QED
  BY <1>2, <1>3

\* An edge brings no node.
LEMMA ConnectKeepsOut ==
  ASSUME NEW st, NEW x, KeepsOut(st, x), NEW arrow, NEW l, NEW r
  PROVE  KeepsOut(I!Connect(st, arrow, l, r), x)
<1>1. DOMAIN st = {"nodes", "edges", "ok"} /\ st.ok \in BOOLEAN /\ NodesKeepOut(st.nodes, x)
  BY DEF KeepsOut
<1>2. \A es, b : b \in BOOLEAN => KeepsOut([st EXCEPT !.edges = es, !.ok = b], x)
  <2> TAKE es, b
  <2> HAVE b \in BOOLEAN
  <2> DEFINE next == [st EXCEPT !.edges = es, !.ok = b]
  <2>1. DOMAIN next = DOMAIN st /\ next.nodes = st.nodes /\ next.ok = b
    BY <1>1
  <2> HIDE DEF next
  <2>2. KeepsOut(next, x)
    BY <1>1, <2>1 DEF KeepsOut
  <2> QED
    BY <2>2 DEF next
<1>3. KeepsOut([st EXCEPT !.ok = FALSE], x)
  <2> DEFINE next == [st EXCEPT !.ok = FALSE]
  <2>1. DOMAIN next = DOMAIN st /\ next.nodes = st.nodes /\ next.ok = FALSE
    BY <1>1
  <2> HIDE DEF next
  <2>2. KeepsOut(next, x)
    BY <1>1, <2>1 DEF KeepsOut
  <2> QED
    BY <2>2 DEF next
<1>4. ASSUME NEW e PROVE KeepsOut(I!AddEdge(st, e), x)
  <2> DEFINE twice == \E i \in DOMAIN st.edges : st.edges[i] = e
             conflict == \E i \in DOMAIN st.edges :
                           {st.edges[i].src, st.edges[i].tgt} = {e.src, e.tgt} /\ st.edges[i].link # e.link
             b == st.ok /\ ~twice /\ ~conflict
  <2>1. b \in BOOLEAN
    BY <1>1
  <2>2. I!AddEdge(st, e) = [st EXCEPT !.edges = Append(@, e), !.ok = b]
    BY DEF I!AddEdge
  <2> HIDE DEF b
  <2> DEFINE es == Append(st.edges, e)
  <2>3. I!AddEdge(st, e) = [st EXCEPT !.edges = es, !.ok = b]
    BY <2>2
  <2> HIDE DEF es
  <2> QED
    BY <1>2, <2>1, <2>3
<1>5. \/ \E e : I!Connect(st, arrow, l, r) = I!AddEdge(st, e)
      \/ I!Connect(st, arrow, l, r) = [st EXCEPT !.ok = FALSE]
  BY Zenon DEF I!Connect
<1> QED
  BY <1>3, <1>4, <1>5

\* No line but that of node k brings a node of its name.
LEMMA LineKeepsOut ==
  ASSUME TypeOK, GreyIsOpen, NEW k \in Nodes, NEW st, KeepsOut(st, <<"n", k>>), NEW line,
         \/ \E i \in Nodes : i # k /\ line = I!FormatNodeLine(GraphNodes, i)
         \/ \E e \in Edge : line = I!FormatEdgeLine(GraphNodes, e)
  PROVE  KeepsOut(I!ParseLine(st, line), <<"n", k>>)
<1> DEFINE x == <<"n", k>>
           with(nodes) == [st EXCEPT !.nodes = nodes]
<1>0. DOMAIN st = {"nodes", "edges", "ok"} /\ st.ok \in BOOLEAN /\ NodesKeepOut(st.nodes, x)
  BY DEF KeepsOut
<1>1. ASSUME NEW nodes, NodesKeepOut(nodes, x) PROVE KeepsOut(with(nodes), x)
  <2> DEFINE next == with(nodes)
  <2>1. DOMAIN next = DOMAIN st /\ next.nodes = nodes /\ next.ok = st.ok
    BY <1>0
  <2> HIDE DEF next
  <2>2. KeepsOut(next, x)
    BY <1>0, <1>1, <2>1 DEF KeepsOut
  <2> QED
    BY <2>2 DEF next
<1>2. CASE st.ok = FALSE
  BY <1>2, Zenon DEF I!ParseLine
<1>3. ASSUME st.ok = TRUE, NEW i \in Nodes, i # k, line = I!FormatNodeLine(GraphNodes, i)
      PROVE  KeepsOut(I!ParseLine(st, line), x)
  <2>1. PICK w : /\ I!FormatNodeLine(GraphNodes, i) = I!Line(<< <<w>> >>, <<>>)
                 /\ I!SpecIsValid(w) /\ I!NodeOf(w) = Aliased(i)
                 /\ w.name = <<"n", i>> /\ w.alias = Alias(i)
    BY NodeIsWritten
  <2>2. w.name # x
    BY <1>3, <2>1, AliasesAreNew
  <2>3. I!ParseLine(st, line) = [st EXCEPT !.nodes = I!LookupOrCreate(@, w)]
    BY <1>3, <2>1, NodeLine
  <2>4. I!ParseLine(st, line) = with(I!Mention(st.nodes, <<w>>))
    <3>1. I!Mention(st.nodes, <<w>>) = I!LookupOrCreate(st.nodes, w)
      BY MentionOne
    <3> QED
      BY <2>3, <3>1
  <2> HIDE DEF x, with
  <2>5. NodesKeepOut(I!Mention(st.nodes, <<w>>), x)
    BY <1>0, <2>2, MentionKeepsOut
  <2> QED
    BY <1>1, <2>4, <2>5
<1>4. ASSUME st.ok = TRUE, NEW e \in Edge, line = I!FormatEdgeLine(GraphNodes, e)
      PROVE  KeepsOut(I!ParseLine(st, line), x)
  <2> DEFINE arrow == I!Arrow("fwd", e.link)
             by(i) == I!Written(Alias(i), I!NoName, <<>>, <<>>)
             w == by(e.src)
             v == by(e.tgt)
  <2>1. e.src \in Nodes /\ e.tgt \in Nodes
    BY DEF Edge
  <2>2. I!FormatEdgeLine(GraphNodes, e) = I!Line(<< <<w>>, <<v>> >>, <<arrow>>)
    BY DEF I!FormatEdgeLine, Alias
  <2>3. /\ w.name = Alias(e.src) /\ w.alias = I!NoName /\ w.marks = <<>> /\ w.cands = <<>>
        /\ v.name = Alias(e.tgt) /\ v.alias = I!NoName /\ v.marks = <<>> /\ v.cands = <<>>
    BY DEF I!Written
  <2> HIDE DEF arrow, by, w, v
  <2>4. /\ Alias(e.src) # I!NoName /\ Alias(e.tgt) # I!NoName
        /\ w.name # x /\ v.name # x
    BY <2>1, <2>3, AliasesAreNew
  <2>5. I!SpecIsValid(w) /\ I!SpecIsValid(v)
    <3>1. Len(<<>>) <= 1
      OBVIOUS
    <3> QED
      BY <2>3, <2>4, <3>1 DEF I!SpecIsValid
  <2>6. I!ParseLine(st, I!Line(<< <<w>>, <<v>> >>, <<arrow>>)) = I!ParseArrow(st, arrow, <<w>>, <<v>>)
    BY <1>4, <2>5, ArrowLine, ZenonT(60)
  <2> DEFINE nodes == I!Mention(I!Mention(st.nodes, <<w>>), <<v>>)
             l == I!Lookup(nodes, w)
             r == I!Lookup(nodes, v)
             next == with(nodes)
  <2>7. I!ParseArrow(st, arrow, <<w>>, <<v>>) = I!Connect(next, arrow, l, r)
    <3> DEFINE all == nodes
    <3>1. all = I!Mention(I!Mention(st.nodes, <<w>>), <<v>>)
      OBVIOUS
    <3> HIDE DEF all
    <3>2. I!ParseArrow(st, arrow, <<w>>, <<v>>)
            = I!Connect([st EXCEPT !.nodes = all], arrow, I!Lookup(all, w), I!Lookup(all, v))
      BY <3>1, ArrowOne
    <3> QED
      BY <3>2 DEF all
  <2> HIDE DEF x, with
  <2>8. NodesKeepOut(I!Mention(st.nodes, <<w>>), x)
    BY <1>0, <2>4, MentionKeepsOut
  <2>9. NodesKeepOut(nodes, x)
    BY <2>4, <2>8, MentionKeepsOut
  <2>10. KeepsOut(next, x)
    BY <1>1, <2>9
  <2> HIDE DEF nodes, next, l, r
  <2>11. KeepsOut(I!Connect(next, arrow, l, r), x)
    BY <2>10, ConnectKeepsOut
  <2> QED
    BY <1>4, <2>2, <2>6, <2>7, <2>11
<1> QED
  BY <1>0, <1>2, <1>3, <1>4

\* Nor do any number of such lines.
LEMMA LinesKeepOut ==
  ASSUME TypeOK, GreyIsOpen, NEW k \in Nodes, NEW n \in Nat, NEW lines, DOMAIN lines = 1 .. n,
         \A j \in 1 .. n : \/ \E i \in Nodes : i # k /\ lines[j] = I!FormatNodeLine(GraphNodes, i)
                           \/ \E e \in Edge : lines[j] = I!FormatEdgeLine(GraphNodes, e)
  PROVE  KeepsOut(I!ParseLines(lines), <<"n", k>>)
<1> DEFINE x == <<"n", k>>
<1>1. PICK acc : /\ acc[0] = I!NothingRead
                 /\ \A j \in 1 .. n : acc[j] = I!ParseLine(acc[j - 1], lines[j])
                 /\ acc[n] = I!ParseLines(lines)
  BY LinesAreSteps
<1> DEFINE bad == {j \in 0 .. n : ~KeepsOut(acc[j], x)}
<1>2. KeepsOut(acc[0], x)
  <2>1. /\ DOMAIN I!NothingRead = {"nodes", "edges", "ok"} /\ I!NothingRead.nodes = <<>>
        /\ I!NothingRead.ok = TRUE
    BY DEF I!NothingRead
  <2>2. NodesKeepOut(<<>>, x)
    <3> DEFINE none == <<>>
               m == 0
    <3>1. DOMAIN none = 1 .. m /\ none = [j \in 1 .. m |-> none[j]] /\ (\A j \in 1 .. m : none[j].name # x) /\ m \in Nat
      OBVIOUS
    <3> HIDE DEF none, m
    <3>2. NodesKeepOut(none, x)
      BY <3>1 DEF NodesKeepOut
    <3> QED
      BY <3>2 DEF none
  <2> HIDE DEF x
  <2>3. KeepsOut(I!NothingRead, x)
    BY <2>1, <2>2 DEF KeepsOut
  <2> QED
    BY <1>1, <2>3
<1>3. ASSUME NEW j \in 1 .. n, KeepsOut(acc[j - 1], x) PROVE KeepsOut(acc[j], x)
  <2> DEFINE st == acc[j - 1]
             line == lines[j]
  <2>1. acc[j] = I!ParseLine(st, line)
    BY <1>1
  <2>2. \/ \E i \in Nodes : i # k /\ line = I!FormatNodeLine(GraphNodes, i)
        \/ \E e \in Edge : line = I!FormatEdgeLine(GraphNodes, e)
    OBVIOUS
  <2>3. KeepsOut(st, <<"n", k>>)
    BY <1>3
  <2> HIDE DEF st, line
  <2>4. KeepsOut(I!ParseLine(st, line), <<"n", k>>)
    BY <2>2, <2>3, LineKeepsOut
  <2> QED
    BY <2>1, <2>4
<1> HIDE DEF x
<1>4. bad = {}
  <2> SUFFICES ASSUME bad # {} PROVE FALSE
    OBVIOUS
  <2>1. bad \in SUBSET Nat
    OBVIOUS
  <2>2. PICK j \in bad : \A m \in bad : j <= m
    <3> HIDE DEF bad
    <3> QED
      BY <2>1, LeastElement
  <2>3. j # 0 /\ j \in 0 .. n
    BY <1>2, <2>2
  <2>4. j \in 1 .. n /\ j - 1 \in 0 .. n /\ j - 1 < j
    BY <2>3
  <2>5. j - 1 \notin bad
    <3> HIDE DEF bad
    <3> QED
      BY <2>2, <2>4
  <2> QED
    BY <1>3, <2>2, <2>4, <2>5
<1>5. n \in 0 .. n
  OBVIOUS
<1> QED
  BY <1>1, <1>4, <1>5 DEF x

\* Without the line of a node the text says nothing of its name.
LEMMA NodeLineMatters ==
  ASSUME TypeOK, GreyIsOpen, NEW l \in Nat, DOMAIN GraphEdges = 1 .. l,
         GraphEdges = [k \in 1 .. l |-> GraphEdges[k]], EdgesAreFine(GraphEdges, l), NEW k \in Nodes
  PROVE  ~Verifies(I!RemoveAt(I!Serialize(GraphNodes, GraphEdges), k))
<1> DEFINE es == GraphEdges
           written == I!Serialize(GraphNodes, es)
           n == NumNodes + l
           rest == I!RemoveAt(written, k)
           x == <<"n", k>>
           want == I!ParseLines(rest)
           seenAs(nd) == <<nd.name, nd.kind, I!ToSet(nd.cands)>>
<1>0. NumNodes \in Nat /\ Nodes = 1 .. NumNodes /\ n \in Nat /\ k \in 1 .. n /\ n - 1 \in Nat
  BY NodesAssumption DEF Nodes
<1>1. DOMAIN es = 1 .. l /\ EdgesAreFine(es, l)
  OBVIOUS
<1>2. Canonicalize(GraphNodes, es) = AllSeen(es, l)
  BY ResultIsSeen
<1> HIDE DEF es
<1>3. AreLines(written, es, l) /\ written = [j \in 1 .. n |-> written[j]]
  BY <1>1, LinesAreWritten
<1> HIDE DEF written
<1>4. /\ DOMAIN rest = 1 .. n - 1
      /\ \A j \in 1 .. n - 1 : rest[j] = IF j < k THEN written[j] ELSE written[j + 1]
  <2>1. DOMAIN written = 1 .. n
    BY <1>3 DEF AreLines
  <2> HIDE DEF n
  <2> QED
    BY <1>0, <1>3, <2>1, OneRemoved
<1> HIDE DEF rest
<1>5. \A j \in 1 .. n : j # k => \/ \E i \in Nodes : i # k /\ written[j] = I!FormatNodeLine(GraphNodes, i)
                                 \/ \E e \in Edge : written[j] = I!FormatEdgeLine(GraphNodes, e)
  <2> TAKE j \in 1 .. n
  <2> HAVE j # k
  <2>1. CASE j \in Nodes
    BY <1>3, <2>1 DEF AreLines
  <2>2. CASE j \notin Nodes
    <3> DEFINE m == j - NumNodes
    <3>1. m \in 1 .. l /\ NumNodes + m = j
      BY <1>0, <2>2
    <3> HIDE DEF m
    <3>2. written[NumNodes + m] = I!FormatEdgeLine(GraphNodes, es[m]) /\ es[m] \in Edge
      BY <1>1, <1>3, <3>1 DEF AreLines, EdgesAreFine
    <3> QED
      BY <3>1, <3>2
  <2> QED
    BY <2>1, <2>2
<1>6. \A j \in 1 .. n - 1 : \/ \E i \in Nodes : i # k /\ rest[j] = I!FormatNodeLine(GraphNodes, i)
                            \/ \E e \in Edge : rest[j] = I!FormatEdgeLine(GraphNodes, e)
  <2> TAKE j \in 1 .. n - 1
  <2>1. PICK q \in 1 .. n : q # k /\ rest[j] = written[q]
    <3>1. CASE j < k
      <4>1. j \in 1 .. n /\ j # k
        BY <1>0, <3>1
      <4> QED
        BY <1>4, <3>1, <4>1
    <3>2. CASE ~(j < k)
      <4>1. j + 1 \in 1 .. n /\ j + 1 # k
        BY <1>0, <3>2
      <4> QED
        BY <1>4, <3>2, <4>1
    <3> QED
      BY <3>1, <3>2
  <2> QED
    BY <1>5, <2>1
<1>7. KeepsOut(want, x)
  <2> DEFINE d == n - 1
  <2>1. /\ d \in Nat /\ DOMAIN rest = 1 .. d
        /\ \A j \in 1 .. d : \/ \E i \in Nodes : i # k /\ rest[j] = I!FormatNodeLine(GraphNodes, i)
                             \/ \E e \in Edge : rest[j] = I!FormatEdgeLine(GraphNodes, e)
    BY <1>0, <1>4, <1>6
  <2> HIDE DEF d
  <2> QED
    BY <2>1, LinesKeepOut
<1>8. \A nd \in I!ToSet(want.nodes) : nd.name # x
  <2> HIDE DEF want, x
  <2>1. PICK m \in Nat : DOMAIN want.nodes = 1 .. m /\ \A j \in 1 .. m : want.nodes[j].name # x
    BY <1>7 DEF KeepsOut, NodesKeepOut
  <2> QED
    BY <2>1 DEF I!ToSet
<1>9. Canonicalize(want.nodes, want.edges).nodes = {seenAs(nd) : nd \in I!ToSet(want.nodes)}
  BY DEF Canonicalize
<1>10. Canonicalize(GraphNodes, es).nodes = {seenAs(GraphNodes[i]) : i \in Nodes}
  BY <1>2 DEF AllSeen, NodesSeen
<1>11. \A nd \in I!ToSet(want.nodes) : seenAs(nd) # seenAs(GraphNodes[k])
  <2> TAKE nd \in I!ToSet(want.nodes)
  <2>1. nd.name # x
    BY <1>8
  <2>2. GraphNodes[k].name = x
    BY TheirFields
  <2>3. nd.name # GraphNodes[k].name
    BY <2>1, <2>2
  <2> HIDE DEF x
  <2> QED
    BY <2>3
<1>12. seenAs(GraphNodes[k]) \in Canonicalize(GraphNodes, es).nodes
  BY <1>10
<1>13. seenAs(GraphNodes[k]) \notin Canonicalize(want.nodes, want.edges).nodes
  <2> HIDE DEF seenAs, want
  <2> QED
    BY <1>9, <1>11
<1>14. Canonicalize(want.nodes, want.edges) # Canonicalize(GraphNodes, es)
  <2> HIDE DEF seenAs, want
  <2> QED
    BY <1>12, <1>13
<1>15. ~Verifies(rest)
  BY <1>14 DEF Verifies, es
<1> QED
  BY <1>15 DEF rest, written, es

\* Without its alias a node that was read is the node of the graph.
LEMMA AliasesApart ==
  [i \in Nodes |-> [NodesRead(NumNodes)[i] EXCEPT !.alias = I!NoName]] = GraphNodes
<1> DEFINE bare(i) == [Aliased(i) EXCEPT !.alias = I!NoName]
<1>1. ASSUME NEW i \in Nodes PROVE bare(i) = GraphNodes[i]
  <2> DEFINE c == IF Unresolved(i) THEN CandidatesOf(i) ELSE <<>>
             s == StoredType(i)
             a == Alias(i)
  <2>1. /\ GraphNodes[i] = [name |-> <<"n", i>>, alias |-> I!NoName, kind |-> s, cands |-> c]
        /\ Aliased(i) = [name |-> <<"n", i>>, alias |-> a, kind |-> s, cands |-> c]
    BY NodesHaveFields
  <2> HIDE DEF c, s, a
  <2> QED
    BY <2>1
<1>2. \A i \in Nodes : NodesRead(NumNodes)[i] = Aliased(i)
  BY DEF NodesRead, Nodes
<1> HIDE DEF bare
<1>3. [i \in Nodes |-> bare(i)] = GraphNodes
  <2>1. GraphNodes = [i \in Nodes |-> GraphNodes[i]]
    BY DEF GraphNodes
  <2> QED
    BY <1>1, <2>1
<1>4. \A i \in Nodes : [NodesRead(NumNodes)[i] EXCEPT !.alias = I!NoName] = bare(i)
  BY <1>2 DEF bare
<1> QED
  BY <1>3, <1>4

\* At the end the text that is written reads, verifies, and does not with a line less.
LEMMA WrittenIsRead ==
  ASSUME TypeOK, GreyIsOpen, OutputInv
  PROVE  OutputReads
<1> SUFFICES ASSUME pc = "done"
             PROVE  LET written == I!Serialize(GraphNodes, GraphEdges)
                        read    == I!ParseLines(written)
                    IN  /\ read.ok
                        /\ read.edges = GraphEdges
                        /\ [i \in Nodes |-> [read.nodes[i] EXCEPT !.alias = I!NoName]] = GraphNodes
                        /\ Verifies(written)
                        /\ \A n \in DOMAIN written : ~Verifies(I!RemoveAt(written, n))
  BY DEF OutputReads
<1>1. PICK l \in Nat : /\ DOMAIN GraphEdges = 1 .. l /\ GraphEdges = [k \in 1 .. l |-> GraphEdges[k]]
                       /\ EdgesAreFine(GraphEdges, l)
  BY OutputEdges
<1> DEFINE written == I!Serialize(GraphNodes, GraphEdges)
           read == I!ParseLines(written)
<1>2. AreLines(written, GraphEdges, l)
  BY <1>1, LinesAreWritten
<1> HIDE DEF written
<1>3. /\ read.ok = TRUE /\ read.nodes = NodesRead(NumNodes) /\ read.edges = [k \in 1 .. l |-> GraphEdges[k]]
      /\ Canonicalize(read.nodes, read.edges) = AllSeen(GraphEdges, l)
  BY <1>1, <1>2, ReadIsSeen
<1> HIDE DEF read
<1>4. read.edges = GraphEdges
  BY <1>1, <1>3
<1>5. [i \in Nodes |-> [read.nodes[i] EXCEPT !.alias = I!NoName]] = GraphNodes
  BY <1>3, AliasesApart
<1>6. Verifies(written)
  <2>1. Canonicalize(GraphNodes, GraphEdges) = AllSeen(GraphEdges, l)
    BY <1>1, ResultIsSeen
  <2> QED
    BY <1>3, <2>1 DEF Verifies, read
<1>7. \A n \in DOMAIN written : ~Verifies(I!RemoveAt(written, n))
  <2> TAKE n \in DOMAIN written
  <2>1. n \in 1 .. NumNodes + l /\ NumNodes \in Nat /\ Nodes = 1 .. NumNodes
    BY <1>2, NodesAssumption DEF AreLines, Nodes
  <2>2. CASE n \in Nodes
    BY <1>1, <2>2, NodeLineMatters DEF written
  <2>3. CASE n \notin Nodes
    <3> DEFINE m == n - NumNodes
    <3>1. m \in 1 .. l /\ NumNodes + m = n
      BY <2>1, <2>3
    <3> HIDE DEF m
    <3>2. ~Verifies(I!RemoveAt(I!Serialize(GraphNodes, GraphEdges), NumNodes + m))
      BY <1>1, <3>1, EdgeLineMatters
    <3> QED
      BY <3>1, <3>2 DEF written
  <2> QED
    BY <2>2, <2>3
<1> QED
  BY <1>3, <1>4, <1>5, <1>6, <1>7 DEF read, written

\* A node that is not decided has two candidates at least, and keeps them.
LEMMA GreyInit == Init => GreyIsOpen
<1> SUFFICES ASSUME Init, NEW i \in Nodes PROVE \E k, l \in dom[i] : k # l
  BY DEF GreyIsOpen
<1>1. "Event" \in dom[i] /\ "Thing" \in dom[i]
  BY DEF Init, Kinds
<1> QED
  BY <1>1

LEMMA GreyStep == SolverInv /\ GreyIsOpen /\ [Next]_vars => GreyIsOpen'
<1> SUFFICES ASSUME TypeOK, GreyIsOpen, [Next]_vars PROVE GreyIsOpen'
  BY DEF SolverInv
<1>1. ASSUME UNCHANGED <<dom, conf>> PROVE GreyIsOpen'
  BY <1>1 DEF GreyIsOpen, Unresolved
<1>2. CASE VisitNode
  <2> DEFINE valid == Valid(node)
             prunes == Unresolved(node) /\ valid # {} /\ valid # dom[node]
  <2>1. /\ node \in Nodes /\ valid \subseteq Kinds
        /\ dom' = IF prunes THEN [dom EXCEPT ![node] = valid] ELSE dom
        /\ conf' = IF prunes /\ Cardinality(valid) = 1 THEN [conf EXCEPT ![node] = "High"] ELSE conf
    BY <1>2, NodesAssumption DEF VisitNode, TypeOK, Nodes, Valid
  <2>2. CASE ~prunes
    BY <1>1, <2>1, <2>2
  <2>3. CASE prunes
    <3> SUFFICES ASSUME NEW i \in Nodes, Unresolved(i)' PROVE \E k, l \in dom'[i] : k # l
      BY DEF GreyIsOpen
    <3>0. dom' = [dom EXCEPT ![node] = valid] /\ DOMAIN dom = Nodes /\ DOMAIN conf = Nodes
      BY <2>1, <2>3 DEF TypeOK
    <3>1. CASE i # node
      <4>1. dom'[i] = dom[i]
        BY <3>0, <3>1
      <4>2. conf'[i] = conf[i]
        BY <2>1, <3>0, <3>1
      <4> QED
        BY <4>1, <4>2 DEF GreyIsOpen, Unresolved
    <3>2. CASE i = node
      <4>1. dom'[i] = valid
        BY <3>0, <3>2
      <4>2. Cardinality(valid) # 1
        <5> SUFFICES ASSUME Cardinality(valid) = 1 PROVE FALSE
          OBVIOUS
        <5>1. conf' = [conf EXCEPT ![node] = "High"]
          BY <2>1, <2>3
        <5>2. conf'[i] = "High"
          BY <3>0, <3>2, <5>1
        <5> QED
          BY <5>2 DEF Unresolved
      <4>3. PICK k \in valid : TRUE
        BY <2>3
      <4>4. valid # {k}
        <5>1. Cardinality({k}) = 1
          BY FS_Singleton
        <5> QED
          BY <4>2, <5>1
      <4> HIDE DEF valid
      <4> QED
        BY <4>1, <4>3, <4>4
    <3> QED
      BY <3>1, <3>2
  <2> QED
    BY <2>2, <2>3
<1>3. CASE ApplyDefaults
  <2>1. CASE defaults
    <3>1. conf' = [i \in Nodes |-> IF Unresolved(i) THEN "Default" ELSE conf[i]]
      BY <1>3, <2>1 DEF ApplyDefaults
    <3>2. ASSUME NEW i \in Nodes PROVE ~Unresolved(i)'
      <4>1. conf'[i] = IF Unresolved(i) THEN "Default" ELSE conf[i]
        BY <3>1
      <4> QED
        BY <4>1 DEF Unresolved
    <3> QED
      BY <3>2 DEF GreyIsOpen
  <2>2. CASE ~defaults
    BY <1>1, <1>3, <2>2 DEF ApplyDefaults
  <2> QED
    BY <2>1, <2>2
<1>4. CASE Dedupe \/ NextPass \/ LastPass \/ Pick
  BY <1>1, <1>4 DEF Dedupe, NextPass, LastPass, Pick, PassOver, TryKind, Retreat, Picked
<1>5. CASE DropInvalidEdges \/ Search
  BY <1>1, <1>5 DEF DropInvalidEdges, Search, Root, CutBackEdge, Descend, KeepCrossEdge, Return, Acyclic
<1>6. CASE UNCHANGED vars
  BY <1>1, <1>6 DEF vars
<1> QED
  BY <1>2, <1>3, <1>4, <1>5, <1>6 DEF Next, Order

(***************************************************************************)
(* The text that is written for the result of the solver reads back as the *)
(* same graph - its nodes, the candidates of the grey ones in their order, *)
(* and its edges in theirs - and verifies as an expectation of an example, *)
(* with no line of it to spare (solve.go:277-330, graph.go, ipmtext.go,    *)
(* parser.go and cmd/solver-example/main.go), for every graph.             *)
(***************************************************************************)
THEOREM TheOutputReads == Spec => []OutputReads
<1>1. Init => OutputInv /\ GreyIsOpen
  BY OutputInit, GreyInit
<1>2. SolverInv /\ OutputInv /\ GreyIsOpen /\ [Next]_vars => OutputInv' /\ GreyIsOpen'
  BY OutputStep, GreyStep
<1>3. SolverInv /\ OutputInv /\ GreyIsOpen => OutputReads
  BY WrittenIsRead DEF SolverInv
<1> QED
  BY <1>1, <1>2, <1>3, SolverInvariant, PTL DEF Spec

=============================================================================
