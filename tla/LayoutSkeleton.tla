--------------------------- MODULE LayoutSkeleton ---------------------------
(***************************************************************************)
(* The rows of a diagram's events: the flow of its top-level events, and   *)
(* the grids of the events that are parts of events                        *)
(* (pkg/layout7/skeleton.go, without the horizontal distances).            *)
(***************************************************************************)
EXTENDS LayoutMembership

\* The composite a sub-event is drawn in: the last one it was declared a part of, 0 for none.
SubParent(d) ==
  LET Of(n) == {i \in EdgesAmong(d, {"PartOf"}, Events(d)) : d.edges[i].src = n}
  IN  [n \in Events(d) |-> IF Of(n) = {} THEN 0 ELSE d.edges[Max(Of(n))].tgt]

TopLevel(d, parent) == {n \in Events(d) : parent[n] = 0}

\* The top-level event that holds n.
Anc(d, parent, n) ==
  LET up[m \in Events(d)] == IF parent[m] = 0 THEN m ELSE up[parent[m]]
  IN  up[n]

\* topLevelFlow: the pairs of top-level events a leads-to connects, each once, as declared.
TopLevelFlow(d, parent) ==
  LET Lifted(e) == <<Anc(d, parent, e.src), Anc(d, parent, e.tgt)>>
      Add(flow, e) ==
        IF e.link = "LeadsTo" /\ Lifted(e)[1] # Lifted(e)[2] /\ Lifted(e) \notin ToSet(flow)
        THEN Append(flow, Lifted(e)) ELSE flow
  IN  FoldLeft(Add, <<>>, d.edges)

\* The successors and the predecessors of n in the flow, in its order.
SuccOf(flow, n) == FoldLeft(LAMBDA ns, p : IF p[1] = n THEN Append(ns, p[2]) ELSE ns, <<>>, flow)
PredOf(flow, n) == FoldLeft(LAMBDA ns, p : IF p[2] = n THEN Append(ns, p[1]) ELSE ns, <<>>, flow)

-----------------------------------------------------------------------------
(* Grids. *)

SubsOf(d, parent, c) == {n \in Events(d) : parent[n] = c}

\* The first sibling a sub-event leads to, 0 for none.
NextOf(d, subs, n) ==
  LET leads == {i \in EdgesAmong(d, {"LeadsTo"}, subs) : d.edges[i].src = n}
  IN  IF leads = {} THEN 0 ELSE d.edges[Min(leads)].tgt

\* Mutant of Continued: every sub-event that a sibling leads to.
ContinuedAll(d, subs) == {d.edges[i].tgt : i \in EdgesAmong(d, {"LeadsTo"}, subs)}

\* hasPrev: the sub-events that are some sibling's next.
Continued(d, subs) == {NextOf(d, subs, n) : n \in subs}

(***************************************************************************)
(* subStacks: a chain of siblings is kept together, up to one that an      *)
(* earlier chain holds; the chain with the first-declared member is first. *)
(***************************************************************************)
SubStack(d, subs) ==
  LET next == [n \in subs |-> NextOf(d, subs, n)]
      Chain(start, seen) ==
        LET Grown[chain \in Seq(subs)] ==
              LET n == next[Last(chain)]
              IN  IF n = 0 \/ n \in seen \cup ToSet(chain) THEN chain ELSE Grown[Append(chain, n)]
        IN  Grown[<<start>>]
      heads == InOrder(d, subs \ Continued(d, subs))
      Add(units, s) ==
        LET seen == UNION {ToSet(u) : u \in ToSet(units)}
        IN  IF s \in seen THEN units ELSE Append(units, Chain(s, seen))
      Before(u, v) == Min(ToSet(u)) < Min(ToSet(v))
  IN  FlattenSeq(SortSeq(FoldLeft(Add, <<>>, heads), Before))

\* subRows: the rows of every unit of the flow among siblings, one unit below the other.
SubRows(d, subs) ==
  LET pairs == PairsOf(d, EdgesAmong(d, {"LeadsTo"}, subs))
      Rows(stack, unit, rank) ==
        LET Unit(members) ==
              [r \in 1 .. 1 + Max({rank[s] : s \in members}) |->
                 LET Here(s) == s \in members /\ rank[s] = r - 1 IN SelectSeq(stack, Here)]
            First(s) == s = SelectSeq(stack, LAMBDA t : t \in unit[s])[1]
            firsts == SelectSeq(stack, First)
        IN  FlattenSeq([i \in DOMAIN firsts |-> Unit(unit[firsts[i]] \cap ToSet(stack))])
  IN  Rows(SubStack(d, subs), Joined(subs, pairs), Longest(subs, Turned(pairs)))

-----------------------------------------------------------------------------
(* Ranks. *)

(***************************************************************************)
(* rankOf: the longest way down to n.  The lifted flow may have a cycle:   *)
(* a node that is being visited counts as rank 0.                          *)
(***************************************************************************)
RECURSIVE RankOf(_, _, _)
RankOf(preds, st, n) ==
  IF st.state[n] = "done" THEN [st EXCEPT !.got = st.rank[n]]
  ELSE IF st.state[n] = "visiting" THEN [st EXCEPT !.got = 0]
  ELSE LET Visit(acc, p) == LET sub == RankOf(preds, acc.st, p)
                            IN  [st |-> sub, rank |-> Max({acc.rank, sub.got + 1})]
           all == FoldLeft(Visit, [st |-> [st EXCEPT !.state[n] = "visiting"], rank |-> 0], preds[n])
       IN  [state |-> [all.st.state EXCEPT ![n] = "done"],
            rank  |-> [all.st.rank EXCEPT ![n] = all.rank],
            got   |-> all.rank]

Ranks(d, tops, preds) ==
  LET Visit(st, n) == RankOf(preds, st, n)
      none == [state |-> [n \in tops |-> "new"], rank |-> [n \in tops |-> 0], got |-> 0]
  IN  FoldLeft(Visit, none, InOrder(d, tops)).rank

\* The rows of a component: its top-level events of each rank, in order of declaration.
RowsOf(d, here, rank) ==
  [r \in 1 .. 1 + Max({0} \cup {rank[n] : n \in here}) |->
     InOrder(d, {n \in here : rank[n] = r - 1})]

\* orderedChildren: branches of a fork that lead to a common event stand together.
OrderedChildren(d, kids) ==
  LET Leads(k) == {d.edges[i].tgt : i \in {j \in EdgeIds(d) : d.edges[j].link = "LeadsTo" /\ d.edges[j].src = k}}
      joined == Joined(ToSet(kids), {p \in ToSet(kids) \X ToSet(kids) : Leads(p[1]) \cap Leads(p[2]) # {}})
      At(k) == CHOOSE i \in DOMAIN kids : kids[i] = k
      Key(k) == <<Min({At(m) : m \in joined[k]}), At(k)>>
      Before(k, m) == \/ Key(k)[1] < Key(m)[1]
                      \/ Key(k)[1] = Key(m)[1] /\ Key(k)[2] < Key(m)[2]
  IN  IF Len(kids) < 3 THEN kids ELSE SortSeq(kids, Before)

\* buildSkeleton.
Skeleton(d, m) ==
  LET Of(parent, flow, tops, preds, rank) ==
        [parent |-> parent,
         flow   |-> flow,
         grids  |-> [c \in Range(parent) \ {0} |-> SubRows(d, SubsOf(d, parent, c))],
         rows   |-> [c \in m.comps |-> RowsOf(d, {n \in tops : m.comp[n] = c}, rank)],
         starts |-> {n \in tops : preds[n] = <<>>},
         ends   |-> {n \in tops : SuccOf(flow, n) = <<>>},
         kids   |-> [n \in tops |-> OrderedChildren(d, SuccOf(flow, n))]]
      Ranked(parent, flow, tops, preds) == Of(parent, flow, tops, preds, Ranks(d, tops, preds))
      Flow(parent, flow, tops) == Ranked(parent, flow, tops, [n \in tops |-> PredOf(flow, n)])
      With(parent) == Flow(parent, TopLevelFlow(d, parent), TopLevel(d, parent))
  IN  With(SubParent(d))
=============================================================================
