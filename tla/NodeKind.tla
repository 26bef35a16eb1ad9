------------------------------ MODULE NodeKind ------------------------------
(***************************************************************************)
(* The node-kind solver (pkg/nodekind/solve.go): it derives the kind of    *)
(* every node - event, thing or concept - from the typed edges alone.      *)
(* Arc consistency prunes the candidates of every node, a backtracking     *)
(* search picks a primary candidate per undecided node, an optional pass   *)
(* decides those nodes, edges that still break the type-pair table are     *)
(* dropped, and a depth-first search drops the edges that close a cycle.   *)
(*                                                                         *)
(* The nodes are 1..NumNodes in the order of their declaration.  Of the    *)
(* order of a candidate list only the head is modelled: the canonical      *)
(* first candidate, or the one assignPrimaries rotates to the front.       *)
(***************************************************************************)
EXTENDS Integers, Sequences, FiniteSets

CONSTANTS
  NumNodes,
  InitEdges,       \* the edge lists the solver may be given
  InitDefaults     \* whether it is called as Solve or as SolveWithDefaults

Nodes == 1 .. NumNodes
Kinds == {"Event", "Thing", "Concept"}
Links == {"LeadsTo", "PartOf", "Expresses", "NearTo"}
Edge == [src : Nodes, tgt : Nodes, link : Links]

ASSUME NodesAssumption == NumNodes \in Nat \ {0}
ASSUME InputAssumption == InitEdges \subseteq Seq(Edge) /\ InitDefaults \subseteq BOOLEAN

\* No kind, no pick.
None == "none"

VARIABLES
  pc,         \* the pass that is running
  edges,      \* the edges solveCore starts with
  alive,      \* the indices of those that are left (r.Edges)
  dom,        \* node -> its candidates; {Type} once it is decided
  conf,       \* node -> "Low" while it is Unresolved, "High" or "Default" after
  defaults,   \* the argument of solveCore
  pass, node, changed,   \* loop variables of orderCandidates; node also of assignPrimaries
  pick, tried,           \* node -> the kind it is tried with, and those that failed
  color, path, seen, cut \* breakCycles: DFS colours and stack, edges looked at and dropped

orderVars == <<pass, changed>>
pickVars == <<pick, tried>>
dfsVars == <<color, path, seen, cut>>
vars == <<pc, edges, alive, dom, conf, defaults, node, orderVars, pickVars, dfsVars>>

-----------------------------------------------------------------------------
(* The type-pair table. *)

\* typePairValid, on the three kinds.
TypePairValid(link, src, tgt) ==
  CASE link = "LeadsTo"   -> src = "Event" /\ tgt = "Event"
    [] link = "PartOf"    -> src # "Concept" /\ tgt # "Concept" /\ ~(src = "Event" /\ tgt = "Thing")
    [] link = "Expresses" -> (src = "Event" /\ tgt = "Event") \/ tgt = "Concept"
    [] link = "NearTo"    -> src = tgt

\* Edge e with kind k at its end i and kind o at its other end.
Fits(e, i, k, o) ==
  IF e.tgt = i THEN TypePairValid(e.link, o, k) ELSE TypePairValid(e.link, k, o)

IncidentTo(i) == {n \in alive : i \in {edges[n].src, edges[n].tgt}}
Other(n, i) == IF edges[n].tgt = i THEN edges[n].src ELSE edges[n].tgt

Unresolved(i) == conf[i] = "Low"

\* The canonical first candidate of a set of kinds.
FirstKind(ks) == IF "Event" \in ks THEN "Event" ELSE IF "Thing" \in ks THEN "Thing" ELSE "Concept"

\* No self-loop, and the first edge of its pair of nodes.
FirstOfPair(n) ==
  /\ edges[n].src # edges[n].tgt
  /\ \A m \in 1 .. n - 1 : {edges[m].src, edges[m].tgt} # {edges[n].src, edges[n].tgt}

Dedupe ==
  /\ pc = "dedupe"
  /\ alive' = {n \in DOMAIN edges : FirstOfPair(n)}
  /\ pc' = "order"
  /\ UNCHANGED <<edges, dom, conf, defaults, node, orderVars, pickVars, dfsVars>>

-----------------------------------------------------------------------------
(* orderCandidates. *)

\* Every edge of i has a kind at its other end that goes with kind k at i.
CandidateValidates(i, k) ==
  \A n \in IncidentTo(i) : \E o \in dom[Other(n, i)] : Fits(edges[n], i, k, o)

Valid(i) == {k \in dom[i] : CandidateValidates(i, k)}

\* Mutant of VisitNode: whether something changed is asked of the last node only.
VisitNodeForgets ==
  /\ pc = "order"
  /\ node <= NumNodes
  /\ LET valid  == Valid(node)
         prunes == Unresolved(node) /\ valid # {} /\ valid # dom[node]
     IN  /\ dom' = IF prunes THEN [dom EXCEPT ![node] = valid] ELSE dom
         /\ conf' = IF prunes /\ Cardinality(valid) = 1
                    THEN [conf EXCEPT ![node] = "High"] ELSE conf
         /\ changed' = prunes
  /\ node' = node + 1
  /\ UNCHANGED <<pc, edges, alive, defaults, pass, pickVars, dfsVars>>

\* One turn of the loop over the nodes: a decided node is passed over, and so is one that
\* no kind satisfies.
VisitNode ==
  /\ pc = "order"
  /\ node <= NumNodes
  /\ LET valid  == Valid(node)
         prunes == Unresolved(node) /\ valid # {} /\ valid # dom[node]
     IN  /\ dom' = IF prunes THEN [dom EXCEPT ![node] = valid] ELSE dom
         /\ conf' = IF prunes /\ Cardinality(valid) = 1
                    THEN [conf EXCEPT ![node] = "High"] ELSE conf
         /\ changed' = (changed \/ prunes)
  /\ node' = node + 1
  /\ UNCHANGED <<pc, edges, alive, defaults, pass, pickVars, dfsVars>>

MaxPasses == NumNodes + 2

\* The end of a pass: another one if something changed and the bound allows it.
NextPass ==
  /\ pc = "order"
  /\ node > NumNodes
  /\ changed
  /\ pass < MaxPasses
  /\ pass' = pass + 1
  /\ node' = 1
  /\ changed' = FALSE
  /\ UNCHANGED <<pc, edges, alive, dom, conf, defaults, pickVars, dfsVars>>

LastPass ==
  /\ pc = "order"
  /\ node > NumNodes
  /\ ~changed \/ pass = MaxPasses
  /\ pc' = "pick"
  /\ node' = 1
  /\ UNCHANGED <<edges, alive, dom, conf, defaults, orderVars, pickVars, dfsVars>>

-----------------------------------------------------------------------------
(* assignPrimaries: the backtracking search, one candidate at a time. *)

\* preferKind: a target of Expresses is rather a concept, any other node a thing.
PreferKind(i) ==
  IF \E n \in alive : edges[n].link = "Expresses" /\ edges[n].tgt = i
  THEN "Concept" ELSE "Thing"

\* The first of the kinds ks in tryOrder: the preferred one, else the canonical first.
NextToTry(i, ks) == IF PreferKind(i) \in ks THEN PreferKind(i) ELSE FirstKind(ks)

\* Mutant of Consistent: only the edges that leave i are looked at.
ConsistentOutgoing(i, k) ==
  \A n \in IncidentTo(i) :
     LET o == Other(n, i)
     IN  edges[n].src = i =>
           /\ pick[o] # None => Fits(edges[n], i, k, pick[o])
           /\ pick[o] = None /\ ~Unresolved(o) => \A t \in dom[o] : Fits(edges[n], i, k, t)

\* Kind k at i goes with every neighbour that is picked or decided.
Consistent(i, k) ==
  \A n \in IncidentTo(i) :
     LET o == Other(n, i)
     IN  /\ pick[o] # None => Fits(edges[n], i, k, pick[o])
         /\ pick[o] = None /\ ~Unresolved(o) => \A t \in dom[o] : Fits(edges[n], i, k, t)

Untried(i) == dom[i] \ tried[i]
Searching(i) == pc = "pick" /\ i <= NumNodes /\ Unresolved(i)

\* A decided node is not in the list of grey nodes.
PassOver ==
  /\ pc = "pick"
  /\ node <= NumNodes
  /\ ~Unresolved(node)
  /\ node' = node + 1
  /\ UNCHANGED <<pc, edges, alive, dom, conf, defaults, orderVars, pickVars, dfsVars>>

TryKind ==
  /\ Searching(node)
  /\ Untried(node) # {}
  /\ LET k  == NextToTry(node, Untried(node))
         ok == Consistent(node, k)
     IN  /\ tried' = [tried EXCEPT ![node] = @ \cup {k}]
         /\ pick' = IF ok THEN [pick EXCEPT ![node] = k] ELSE pick
         /\ node' = IF ok THEN node + 1 ELSE node
  /\ UNCHANGED <<pc, edges, alive, dom, conf, defaults, orderVars, dfsVars>>

\* Mutant of Retreat: the search is given up at the first dead end.
RetreatGivesUp ==
  /\ Searching(node)
  /\ Untried(node) = {}
  /\ pc' = "defaults"
  /\ pick' = [i \in Nodes |-> None]
  /\ UNCHANGED <<edges, alive, dom, conf, defaults, node, tried, orderVars, dfsVars>>

\* Back to the grey node before, whose pick is undone; before the first one the search fails
\* and the canonical candidates stand.
Retreat ==
  /\ Searching(node)
  /\ Untried(node) = {}
  /\ LET before == {i \in 1 .. node - 1 : Unresolved(i)}
         last   == CHOOSE i \in before : \A j \in before : j <= i
     IN  /\ pc' = IF before = {} THEN "defaults" ELSE pc
         /\ node' = IF before = {} THEN node ELSE last
         /\ pick' = IF before = {} THEN pick ELSE [pick EXCEPT ![last] = None]
         /\ tried' = [tried EXCEPT ![node] = {}]
  /\ UNCHANGED <<edges, alive, dom, conf, defaults, orderVars, dfsVars>>

Picked ==
  /\ pc = "pick"
  /\ node > NumNodes
  /\ pc' = "defaults"
  /\ UNCHANGED <<edges, alive, dom, conf, defaults, node, orderVars, pickVars, dfsVars>>

\* effType: the type of a decided node, the head of the candidate list of another.
EffType(i) == IF Unresolved(i) /\ pick[i] # None THEN pick[i] ELSE FirstKind(dom[i])

-----------------------------------------------------------------------------
(* applyDefaults and dropInvalidEdges. *)

ApplyDefaults ==
  /\ pc = "defaults"
  /\ pc' = "drop"
  /\ dom' = IF defaults THEN [i \in Nodes |-> {EffType(i)}] ELSE dom
  /\ conf' = IF defaults THEN [i \in Nodes |-> IF Unresolved(i) THEN "Default" ELSE conf[i]]
             ELSE conf
  /\ UNCHANGED <<edges, alive, defaults, node, orderVars, pickVars, dfsVars>>

DropInvalidEdges ==
  /\ pc = "drop"
  /\ alive' = {n \in alive : TypePairValid(edges[n].link, EffType(edges[n].src), EffType(edges[n].tgt))}
  /\ pc' = "cycles"
  /\ UNCHANGED <<edges, dom, conf, defaults, node, orderVars, pickVars, dfsVars>>

-----------------------------------------------------------------------------
(* breakCycles: the depth-first search over the directed edges, one edge at a time. *)

Top == path[Len(path)]
Unseen(u) == {n \in alive : edges[n].src = u /\ edges[n].link # "NearTo" /\ n \notin seen}
NextOut(u) == CHOOSE n \in Unseen(u) : \A m \in Unseen(u) : n <= m
InCycles == pc = "cycles" /\ path # <<>>

\* A white node starts the next tree.
Root ==
  /\ pc = "cycles"
  /\ path = <<>>
  /\ \E i \in Nodes :
        /\ color[i] = "white"
        /\ \A j \in 1 .. i - 1 : color[j] # "white"
        /\ path' = <<i>>
        /\ color' = [color EXCEPT ![i] = "gray"]
  /\ UNCHANGED <<pc, edges, alive, dom, conf, defaults, node, orderVars, pickVars, seen, cut>>

\* Mutants of CutBackEdge: the edge stays; an edge to a finished node is cut as well.
KeepBackEdge ==
  /\ InCycles
  /\ Unseen(Top) # {}
  /\ LET n == NextOut(Top)
     IN  /\ color[edges[n].tgt] = "gray"
         /\ seen' = seen \cup {n}
  /\ UNCHANGED <<pc, edges, alive, dom, conf, defaults, node, orderVars, pickVars, color, path, cut>>
CutVisited ==
  /\ InCycles
  /\ Unseen(Top) # {}
  /\ LET n == NextOut(Top)
     IN  /\ color[edges[n].tgt] # "white"
         /\ cut' = cut \cup {n}
         /\ seen' = seen \cup {n}
  /\ UNCHANGED <<pc, edges, alive, dom, conf, defaults, node, orderVars, pickVars, color, path>>

\* An edge to a node on the stack closes a cycle.
CutBackEdge ==
  /\ InCycles
  /\ Unseen(Top) # {}
  /\ LET n == NextOut(Top)
     IN  /\ color[edges[n].tgt] = "gray"
         /\ cut' = cut \cup {n}
         /\ seen' = seen \cup {n}
  /\ UNCHANGED <<pc, edges, alive, dom, conf, defaults, node, orderVars, pickVars, color, path>>

Descend ==
  /\ InCycles
  /\ Unseen(Top) # {}
  /\ LET n == NextOut(Top)
     IN  /\ color[edges[n].tgt] = "white"
         /\ color' = [color EXCEPT ![edges[n].tgt] = "gray"]
         /\ path' = Append(path, edges[n].tgt)
         /\ seen' = seen \cup {n}
  /\ UNCHANGED <<pc, edges, alive, dom, conf, defaults, node, orderVars, pickVars, cut>>

\* An edge to a finished node is kept.
KeepCrossEdge ==
  /\ InCycles
  /\ Unseen(Top) # {}
  /\ LET n == NextOut(Top)
     IN  /\ color[edges[n].tgt] = "black"
         /\ seen' = seen \cup {n}
  /\ UNCHANGED <<pc, edges, alive, dom, conf, defaults, node, orderVars, pickVars, color, path, cut>>

Return ==
  /\ InCycles
  /\ Unseen(Top) = {}
  /\ color' = [color EXCEPT ![Top] = "black"]
  /\ path' = SubSeq(path, 1, Len(path) - 1)
  /\ UNCHANGED <<pc, edges, alive, dom, conf, defaults, node, orderVars, pickVars, seen, cut>>

\* Every node is black: the cut edges go.
Acyclic ==
  /\ pc = "cycles"
  /\ path = <<>>
  /\ \A i \in Nodes : color[i] # "white"
  /\ alive' = alive \ cut
  /\ pc' = "done"
  /\ UNCHANGED <<edges, dom, conf, defaults, node, orderVars, pickVars, dfsVars>>

-----------------------------------------------------------------------------

Init ==
  /\ pc = "dedupe"
  /\ edges \in InitEdges
  /\ alive = DOMAIN edges
  /\ dom = [i \in Nodes |-> Kinds]
  /\ conf = [i \in Nodes |-> "Low"]
  /\ defaults \in InitDefaults
  /\ pass = 1 /\ node = 1 /\ changed = FALSE
  /\ pick = [i \in Nodes |-> None]
  /\ tried = [i \in Nodes |-> {}]
  /\ color = [i \in Nodes |-> "white"]
  /\ path = <<>> /\ seen = {} /\ cut = {}

Order == Dedupe \/ VisitNode \/ NextPass \/ LastPass
Pick == PassOver \/ TryKind \/ Retreat \/ Picked
Search == Root \/ CutBackEdge \/ Descend \/ KeepCrossEdge \/ Return \/ Acyclic
Next == Order \/ Pick \/ ApplyDefaults \/ DropInvalidEdges \/ Search

Spec == Init /\ [][Next]_vars

-----------------------------------------------------------------------------

TypeOK ==
  /\ pc \in {"dedupe", "order", "pick", "defaults", "drop", "cycles", "done"}
  /\ edges \in Seq(Edge) /\ alive \subseteq DOMAIN edges
  /\ dom \in [Nodes -> SUBSET Kinds]
  /\ conf \in [Nodes -> {"Low", "High", "Default"}]
  /\ defaults \in BOOLEAN
  /\ pass \in 1 .. MaxPasses /\ node \in 1 .. NumNodes + 1 /\ changed \in BOOLEAN
  /\ pick \in [Nodes -> Kinds \cup {None}]
  /\ tried \in [Nodes -> SUBSET Kinds]
  /\ color \in [Nodes -> {"white", "gray", "black"}]
  /\ path \in Seq(Nodes)
  /\ seen \subseteq DOMAIN edges /\ cut \subseteq seen

\* An assignment of kinds that puts every edge inside the table.
Satisfies(a) ==
  \A n \in alive : TypePairValid(edges[n].link, a[edges[n].src], a[edges[n].tgt])

(***************************************************************************)
(* "We never guess": pruning takes from a node only the kinds no typing of *)
(* the whole graph can give it, so a node is decided only when it is       *)
(* forced, until applyDefaults decides the rest.                           *)
(***************************************************************************)
Undefaulted == pc \in {"order", "pick", "defaults"} \/ (pc = "drop" /\ ~defaults)
NeverGuesses ==
  Undefaulted =>
    \A a \in [Nodes -> Kinds] : Satisfies(a) => \A i \in Nodes : a[i] \in dom[i]

(***************************************************************************)
(* dropInvalidEdges is a safety net that never catches anything: the only  *)
(* edges the solver removes are duplicates, self-loops and edges of cycles.*)
(***************************************************************************)
NothingInvalid == [][pc = "drop" => alive' = alive]_vars

(***************************************************************************)
(* The pruning reaches its fixpoint within the bound on the passes and is  *)
(* exact: what a grey node may still be is what it is in some typing of    *)
(* the whole graph.                                                        *)
(***************************************************************************)
Typings == {a \in [Nodes -> Kinds] : Satisfies(a)}
Exact == \A i \in Nodes : \A k \in dom[i] : \E a \in Typings : a[i] = k
PruningIsExact == pc = "pick" => Exact

(***************************************************************************)
(* The search ends with the typing that is best for the first grey node,   *)
(* then for the second, and so on: a kind that a node would rather have    *)
(* than its primary is in no typing that agrees with the primaries of the  *)
(* nodes before it.                                                        *)
(***************************************************************************)
AgreesBefore(a, i) == \A j \in 1 .. i - 1 : a[j] = EffType(j)
PrimariesAreBest ==
  pc = "defaults" =>
    \A a \in Typings : \A i \in Nodes : AgreesBefore(a, i) =>
      a[i] = EffType(i) \/ NextToTry(i, {a[i], EffType(i)}) = EffType(i)

(***************************************************************************)
(* The inductive invariant behind NeverGuesses and NothingInvalid.         *)
(***************************************************************************)

\* Nothing happened yet.
Untouched ==
  pc = "dedupe" => /\ node = 1
                   /\ \A i \in Nodes : dom[i] = Kinds /\ Unresolved(i)

NoSelfLoop == pc # "dedupe" => \A n \in alive : edges[n].src # edges[n].tgt

\* Only Event is ever forced: all-Event is a typing of every graph.
ForcedAreEvents ==
  Undefaulted => \A i \in Nodes : ~Unresolved(i) => dom[i] = {"Event"}

\* Picks are candidates of grey nodes, up to the node the search is at.
PicksBehind ==
  /\ pc \in {"dedupe", "order"} => \A i \in Nodes : pick[i] = None
  /\ pc \in {"pick", "defaults"} =>
       \A i \in Nodes : pick[i] # None => Unresolved(i) /\ pick[i] \in dom[i]
  /\ pc = "pick" =>
       \A i \in Nodes : IF i < node THEN Unresolved(i) => pick[i] # None ELSE pick[i] = None

\* Two picked or decided neighbours go together; when the search is over, all do.
Pinned(i) == pick[i] # None \/ ~Unresolved(i)
InTable(n) == TypePairValid(edges[n].link, EffType(edges[n].src), EffType(edges[n].tgt))
PinnedInTable ==
  /\ pc = "pick" => \A n \in alive : Pinned(edges[n].src) /\ Pinned(edges[n].tgt) => InTable(n)
  /\ pc \in {"defaults", "drop"} => \A n \in alive : InTable(n)

SolverInv ==
  /\ TypeOK /\ Untouched /\ NoSelfLoop /\ NeverGuesses
  /\ ForcedAreEvents /\ PicksBehind /\ PinnedInTable

(***************************************************************************)
(* The inductive invariant behind PrimariesAreBest: a kind that was tried  *)
(* and is not the pick is in no typing that agrees with the picks before,  *)
(* and each is tried before those that are not.  And the one behind        *)
(* PruningIsExact: while a pass has changed nothing, the nodes it visited  *)
(* have no kind to lose.                                                   *)
(***************************************************************************)
Refuted(i, k) == \A a \in Typings : AgreesBefore(a, i) => a[i] # k
TriedInOrder ==
  \A i \in Nodes :
    /\ tried[i] \subseteq dom[i]
    /\ pick[i] # None => pick[i] \in tried[i]
    /\ \A k \in tried[i] : k = pick[i] \/ Refuted(i, k)
    /\ \A k \in tried[i], m \in dom[i] \ tried[i] : NextToTry(i, {k, m}) = k
NothingAhead == \A i \in Nodes : i > node \/ ~Unresolved(i) => tried[i] = {}
BestInv ==
  /\ pc \in {"dedupe", "order"} => \A i \in Nodes : tried[i] = {}
  /\ pc = "pick" => TriedInOrder /\ NothingAhead
  /\ PrimariesAreBest

SettledInv ==
  ~changed => /\ pc = "order" => \A i \in Nodes : i < node => Valid(i) = dom[i]
              /\ pc = "pick" => \A i \in Nodes : Valid(i) = dom[i]

(***************************************************************************)
(* And why the passes the bound allows are enough.  A kind that a node     *)
(* loses reaches it along edges, one a pass at least: a concept is lost    *)
(* for want of concepts only; a thing for want of things, in which case    *)
(* the node is struck, or else for want of concepts that struck nodes lose *)
(* first.  So after p passes p nodes have lost theirs, or all that ever    *)
(* will, or a node that loses it in this pass is still to be visited.      *)
(***************************************************************************)
Keeps(k) == {i \in Nodes : \E a \in Typings : a[i] = k}
\* Typings as far as things are concerned: what is expressed is no thing, whatever expresses it.
ThingTypings ==
  {a \in [Nodes -> Kinds] :
     \A n \in alive : IF edges[n].link = "Expresses" THEN a[edges[n].tgt] # "Thing"
                      ELSE TypePairValid(edges[n].link, a[edges[n].src], a[edges[n].tgt])}
Spared == {i \in Nodes : \E a \in ThingTypings : a[i] = "Thing"}
Struck == Nodes \ Spared

InTime(losers, k, p) ==
  LET lost == {i \in losers : k \notin dom[i]}
  IN  \/ lost = losers
      \/ Cardinality(lost) >= p
      \/ /\ Cardinality(lost) >= p - 1
         /\ node = 1 \/ \E i \in losers \ lost : i >= node /\ ~CandidateValidates(i, k)

InTimeInv ==
  /\ pc = "dedupe" => pass = 1
  /\ pc = "order" =>
       /\ InTime(Struck, "Thing", pass)
       /\ InTime(Struck \ Keeps("Concept"), "Concept", pass)
       /\ InTime(Nodes \ Keeps("Concept"), "Concept", pass)
       /\ pass > Cardinality(Struck) =>
            InTime(Spared \ Keeps("Thing"), "Thing", pass - Cardinality(Struck))
  /\ pc = "pick" /\ changed => Exact

(***************************************************************************)
(* breakCycles drops no more than it has to: every edge it drops closes a  *)
(* cycle with edges that it keeps.  And no less: in the end no nodes are   *)
(* left that all lead to one another.                                      *)
(***************************************************************************)
Kept == seen \ cut
Closed(S) == \A n \in Kept : edges[n].src \in S => edges[n].tgt \in S
\* A node of S that none of the edges es takes to another one of S.
HasSink(S, es) == \E i \in S : \A n \in es : edges[n].src = i => edges[n].tgt \notin S
Directed == {n \in alive : edges[n].link # "NearTo"}

CutsCloseCycles ==
  /\ pc = "cycles" =>
       \A c \in cut : \A S \in SUBSET Nodes : edges[c].tgt \in S /\ Closed(S) => edges[c].src \in S
  /\ pc = "done" => \A S \in (SUBSET Nodes) \ {{}} : HasSink(S, Directed)

(***************************************************************************)
(* The inductive invariant behind CutsCloseCycles.                         *)
(***************************************************************************)
BeforeSearch == pc \notin {"cycles", "done"}

\* The grey nodes are the stack, on which none is twice.
GrayIsTheStack ==
  /\ \A i \in Nodes : color[i] = "gray" <=> \E k \in DOMAIN path : path[k] = i
  /\ \A k, l \in DOMAIN path : path[k] = path[l] => k = l
\* Each leads to the next: what holds a node of the stack and is closed holds those above it.
StackIsLinked ==
  \A S \in SUBSET Nodes : Closed(S) =>
    \A k, l \in DOMAIN path : k <= l /\ path[k] \in S => path[l] \in S
\* What was looked at: directed edges out of nodes that were reached, to others.
SeenAreReached ==
  \A n \in seen : /\ n \in Directed /\ color[edges[n].src] # "white"
                  /\ n \notin cut => color[edges[n].tgt] # "white"
\* Below the top of the stack one kept edge leads on, all others to finished nodes.
OneLeadsOn ==
  \A k \in DOMAIN path : \A n \in Kept : edges[n].src = path[k] =>
    color[edges[n].tgt] = "black" \/ (k < Len(path) /\ edges[n].tgt = path[k + 1])
\* From a finished node only finished ones are reached, and there are no cycles among them.
BlackIsFinished ==
  \A i \in Nodes : color[i] = "black" =>
    /\ Unseen(i) = {}
    /\ \A n \in Kept : edges[n].src = i => color[edges[n].tgt] = "black"
Black == {i \in Nodes : color[i] = "black"}
BlackIsAcyclic == \A S \in (SUBSET Black) \ {{}} : HasSink(S, Kept)

SearchInv ==
  /\ BeforeSearch => path = <<>> /\ seen = {} /\ cut = {} /\ \A i \in Nodes : color[i] = "white"
  /\ pc = "cycles" => /\ GrayIsTheStack /\ StackIsLinked /\ OneLeadsOn
                      /\ SeenAreReached /\ BlackIsFinished /\ BlackIsAcyclic
  /\ CutsCloseCycles

-----------------------------------------------------------------------------
(* The solver against what reads its output: the text that solver-example  *)
(* and md-embed write for the solved graph, the parser and the validator.  *)

I == INSTANCE IpmtText
V == INSTANCE Validate

\* The type of a node in the result.
StoredType(i) == IF Unresolved(i) THEN "Unresolved" ELSE FirstKind(dom[i])

\* The numbers of a set, in their order.
InOrder(S) == [k \in 1 .. Cardinality(S) |-> CHOOSE i \in S : Cardinality({j \in S : j <= i}) = k]

\* The kinds in the order the candidates of a node start in.
Canonical == <<"Event", "Thing", "Concept">>

\* A grey node's candidates: the primary first, the others in their order.
CandidatesOf(i) ==
  LET others == InOrder({k \in DOMAIN Canonical : Canonical[k] \in dom[i] \ {EffType(i)}})
  IN  <<EffType(i)>> \o [n \in DOMAIN others |-> Canonical[others[n]]]

\* ToGraph: the nodes in their order, and the edges that are left in theirs.
GraphNodes ==
  [i \in Nodes |->
     [name  |-> <<"n", i>>,
      alias |-> I!NoName,
      kind  |-> StoredType(i),
      cands |-> IF Unresolved(i) THEN CandidatesOf(i) ELSE <<>>]]
GraphEdges ==
  LET kept == InOrder(alive)
  IN  [n \in DOMAIN kept |-> edges[kept[n]]]

\* r.Edges: what is left of the edges, under the indices they came with.
KeptEdges == [n \in alive |-> edges[n]]

\* The resolved graph as the validator takes it.
Output ==
  [edges  |-> KeptEdges,
   stored |-> [i \in Nodes |-> StoredType(i)],
   eff    |-> [i \in Nodes |-> EffType(i)]]

(***************************************************************************)
(* The resolved graph passes every rule of ipm-validate: no check finds an *)
(* error in it, but for the grey nodes under the publish gate; whether it  *)
(* is a fenced block with flags or a file with a pragma makes no           *)
(* difference, and neither is gated where the flags say that grey nodes    *)
(* are meant to be there.  With defaults nothing is left to gate.          *)
(***************************************************************************)
OutputIsValid ==
  pc = "done" =>
    \A strict \in BOOLEAN, flags \in SUBSET {"unresolved", "defaults"} :
      LET fenced == V!SourceBlock(flags, <<V!OtherLine>>, TRUE, Output)
          alone  == V!SourceBlock({}, <<V!BlankLine, V!Pragma(flags), V!OtherLine>>, TRUE, Output)
          gated  == strict /\ flags = {} /\ \E i \in Nodes : Unresolved(i)
      IN  /\ V!HasErrors(V!ValidateMarkdown({fenced}, strict)) <=> gated
          /\ V!ExitOfIPMT(alone, strict) = 3 <=> gated
          /\ gated => ~defaults

\* Mutant of Canonicalize: the nodes alone are compared.
CanonicalizeNodes(nodes, es) ==
  [nodes |-> {<<nd.name, nd.kind, I!ToSet(nd.cands)>> : nd \in I!ToSet(nodes)}, edges |-> {}]

\* canonicalize: what solver-example compares of a graph, names for ids.  Candidates have no
\* order in it, and near-to has no direction.
Canonicalize(nodes, es) ==
  [nodes |-> {<<nd.name, nd.kind, I!ToSet(nd.cands)>> : nd \in I!ToSet(nodes)},
   edges |-> {[link |-> e.link,
               ends |-> {nodes[e.src].name, nodes[e.tgt].name},
               from |-> IF e.link = "NearTo" THEN I!NoName ELSE nodes[e.src].name] : e \in I!ToSet(es)}]

\* verifyExample: a `# then` block that says this describes the result.
Verifies(then) ==
  LET want == I!ParseLines(then)
  IN  want.ok /\ Canonicalize(want.nodes, want.edges) = Canonicalize(GraphNodes, GraphEdges)

(***************************************************************************)
(* And the text that is written for it is the result: the parser takes     *)
(* every line of it, and makes the same nodes, candidates and edges of it. *)
(* As an expectation it verifies, and does no longer with a line less.     *)
(***************************************************************************)
OutputReads ==
  pc = "done" =>
    LET written == I!Serialize(GraphNodes, GraphEdges)
        read    == I!ParseLines(written)
    IN  /\ read.ok
        /\ read.edges = GraphEdges
        /\ [i \in Nodes |-> [read.nodes[i] EXCEPT !.alias = I!NoName]] = GraphNodes
        /\ Verifies(written)
        /\ \A n \in DOMAIN written : ~Verifies(I!RemoveAt(written, n))

(***************************************************************************)
(* The inductive invariant behind OutputIsValid, with SearchInv: one edge  *)
(* is left of a pair of nodes, the table holds to the end, and defaults    *)
(* leave no node grey.                                                     *)
(***************************************************************************)
OutputInv ==
  /\ pc # "dedupe" => \A n, m \in alive :
       {edges[n].src, edges[n].tgt} = {edges[m].src, edges[m].tgt} => n = m
  /\ pc \in {"cycles", "done"} => \A n \in alive : InTable(n)
  /\ pc \in {"drop", "cycles", "done"} /\ defaults => \A i \in Nodes : ~Unresolved(i)

\* And, with it, the one behind OutputReads: a `::?` marker with one candidate would be refused.
GreyIsOpen == \A i \in Nodes : Unresolved(i) => \E k, l \in dom[i] : k # l

=============================================================================
