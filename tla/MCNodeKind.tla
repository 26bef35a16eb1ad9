----------------------------- MODULE MCNodeKind -----------------------------
(* Graphs for the node-kind solver. *)
EXTENDS NodeKind, TLC

CONSTANT Size   \* the number of edges of the simple graphs

\* At most one edge per pair of nodes, in the order of the pairs: what dedupe leaves.
Rank(e) == IF e.src < e.tgt THEN e.src * (NumNodes + 1) + e.tgt ELSE e.tgt * (NumNodes + 1) + e.src
OneWay == {e \in Edge : e.src # e.tgt /\ (e.link = "NearTo" => e.src < e.tgt)}
Simple(max) ==
  LET After(e, es) == es = <<>> \/ Rank(e) > Rank(es[Len(es)])
      grow[n \in 0 .. max] ==
        IF n = 0 THEN {<<>>}
        ELSE LET shorter == grow[n - 1]
             IN  shorter \cup
                 UNION {{Append(es, e) : e \in {f \in OneWay : After(f, es)}} : es \in shorter}
  IN  grow[max]

\* Every node has an edge to the next in some order, and the last one to the first.
Ring(order, links) ==
  [n \in Nodes |-> [src |-> order[n], tgt |-> order[(n % NumNodes) + 1], link |-> links[n]]]
Rings == {Ring(order, links) : order \in Permutations(Nodes), links \in [Nodes -> Links]}

\* Any list of edges, self-loops and duplicates included.
Listed(max) == UNION {[1 .. n -> Edge] : n \in 0 .. max}

Inputs == Simple(Size) \cup Rings \cup Listed(2)
=============================================================================
