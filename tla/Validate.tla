------------------------------ MODULE Validate ------------------------------
(***************************************************************************)
(* The rules of ipm-validate (pkg/ipm/validate) and what the command makes *)
(* of them.  The edges of a graph are a function to records [src, tgt,     *)
(* link]; a second one gives a node its effective type (effNodeType: the   *)
(* primary candidate of an undecided node), a third the stored one.  A     *)
(* rule whose findings are errors is the verdict of its check, TRUE when   *)
(* it has none; a rule that warns is the set of what it finds, each a      *)
(* tuple of the nodes it names.  The order of the findings, their messages *)
(* and their positions are left out.                                       *)
(***************************************************************************)
EXTENDS Naturals, FiniteSets

\* IPMV1.1: no self-loop.
SelfLoopCheck(edges) == \A i \in DOMAIN edges : edges[i].src # edges[i].tgt

\* IPMV1.2: at most one edge per unordered pair of nodes.
DuplicatePairCheck(edges) ==
  \A i, j \in DOMAIN edges :
     {edges[i].src, edges[i].tgt} = {edges[j].src, edges[j].tgt} => i = j

\* The type-pair table of the specification.
TypePairs(link) ==
  CASE link = "LeadsTo"   -> {<<"Event", "Event">>}
    [] link = "PartOf"    -> {<<"Event", "Event">>, <<"Thing", "Event">>, <<"Thing", "Thing">>}
    [] link = "Expresses" -> {<<"Event", "Event">>, <<"Event", "Concept">>,
                              <<"Thing", "Concept">>, <<"Concept", "Concept">>}
    [] link = "NearTo"    -> {<<"Event", "Event">>, <<"Thing", "Thing">>,
                              <<"Concept", "Concept">>}

\* IPMV1.3: every edge matches the table.
TypePairCheck(edges, type) ==
  \A i \in DOMAIN edges :
     <<type[edges[i].src], type[edges[i].tgt]>> \in TypePairs(edges[i].link)

\* The edges of one kind as pairs.
Pairs(edges, link) ==
  {<<edges[i].src, edges[i].tgt>> : i \in {j \in DOMAIN edges : edges[j].link = link}}

Ends(pairs) == UNION {{p[1], p[2]} : p \in pairs}

\* No cycle of more than one node: pairs that end where no other begins can be taken away
\* until none is left.
Acyclic(pairs) ==
  LET Peels[S \in SUBSET pairs] ==
        LET rest == {p \in S : \E q \in S : q[1] = p[2]}
        IN  IF rest = S THEN S = {} ELSE Peels[rest]
  IN  Peels[{p \in pairs : p[1] # p[2]}]

\* IPMV2.1 and IPMV2.2: no cycle of containment, none of causality.
PartOfDagCheck(edges) == Acyclic(Pairs(edges, "PartOf"))
LeadsToDagCheck(edges) == Acyclic(Pairs(edges, "LeadsTo"))

\* The nodes that one or more of the pairs lead to from n.
After(pairs, n) ==
  LET Reach[S \in SUBSET Ends(pairs)] ==
        LET more == S \cup {p[2] : p \in {q \in pairs : q[1] \in S}}
        IN  IF more = S THEN S ELSE Reach[more]
  IN  Reach[{p[2] : p \in {q \in pairs : q[1] = n}}]

Turned(pairs) == {<<p[2], p[1]>> : p \in pairs}

\* The parts of a node, and theirs.
PartsOf(edges, n) == After(Turned(Pairs(edges, "PartOf")), n) \ {n}

\* An event, and every part of it, happens before what the event leads to.
HappensBefore(edges) ==
  LET leads == Pairs(edges, "LeadsTo")
  IN  leads \cup UNION {PartsOf(edges, p[1]) \X {p[2]} : p \in leads}

\* IPMV2.6: happens-before has no cycle.
HappensBeforeCheck(edges) == Acyclic(HappensBefore(edges))

-----------------------------------------------------------------------------
(* The rules that warn. *)

\* The pairs of a part and its whole that are of these types.
PartPairs(edges, type, part, whole) ==
  {p \in Pairs(edges, "PartOf") : type[p[1]] = part /\ type[p[2]] = whole}

\* Mutant of RedundantParents: the pairs of parts and wholes are read the other way round.
RedundantParts(edges, stored) ==
  LET inEvent == PartPairs(edges, stored, "Thing", "Event")
      parts   == PartPairs(edges, stored, "Thing", "Thing")
  IN  {p \in inEvent : \E sub \in After(parts, p[1]) : <<sub, p[2]>> \in inEvent}

\* IPMV1.4: a thing that takes part in an event one of its parts takes part in.  The check
\* goes by the stored types: an undecided node is no thing.
RedundantParents(edges, stored) ==
  LET inEvent == PartPairs(edges, stored, "Thing", "Event")
      parts   == Turned(PartPairs(edges, stored, "Thing", "Thing"))
  IN  {p \in inEvent : \E sub \in After(parts, p[1]) : <<sub, p[2]>> \in inEvent}

\* isOrdered: near, one after the other, or both after or both before another.
IsOrdered(edges, a, b) ==
  LET near  == Pairs(edges, "NearTo")
      leads == Pairs(edges, "LeadsTo")
      back  == Turned(leads)
  IN  \/ {<<a, b>>, <<b, a>>} \cap near # {}
      \/ b \in After(leads, a) \/ a \in After(leads, b)
      \/ After(back, a) \cap After(back, b) # {}
      \/ After(leads, a) \cap After(leads, b) # {}

\* IPMV2.7: two parts of one event in no order.
UnorderedSiblings(edges, type) ==
  LET subs == PartPairs(edges, type, "Event", "Event")
  IN  {t \in {<<p[1], q[1], p[2]>> : p \in subs, q \in subs} :
         /\ t[1] < t[2]
         /\ <<t[2], t[3]>> \in subs
         /\ ~IsOrdered(edges, t[1], t[2])}

\* IPMV2.8: a leads-to into a container that its source is no part of and does not lead to.
ContainerCrossings(edges) ==
  LET leads   == Pairs(edges, "LeadsTo")
      wholes  == Pairs(edges, "PartOf")
      Orphans(p) == After(wholes, p[2]) \ (After(wholes, p[1]) \cup After(leads, p[1]))
  IN  UNION {{<<p[1], p[2], c>> : c \in Orphans(p)} : p \in leads}

\* outermostPartOfAncestor, or the event itself: the first-declared of its outermost wholes, of
\* its direct ones when a cycle leaves none outermost.
WholeOf(subs, n) ==
  LET direct == {p[2] : p \in {q \in subs : q[1] = n}}
      tops   == {m \in After(subs, n) : \A p \in subs : p[1] # m}
      First(S) == CHOOSE m \in S : \A k \in S : m <= k
  IN  IF direct = {} THEN n ELSE First(IF tops = {} THEN direct ELSE tops)

\* IPMV2.9: a leads-to between two wholes, an end of which is a part.
SubPartEndpoints(edges, type) ==
  LET subs  == PartPairs(edges, type, "Event", "Event")
      apart == {p \in Pairs(edges, "LeadsTo") : WholeOf(subs, p[1]) # WholeOf(subs, p[2])}
  IN  UNION {{<<p[1], p[2], n>> : n \in {m \in {p[1], p[2]} : WholeOf(subs, m) # m}} : p \in apart}

-----------------------------------------------------------------------------
(* The rules that look at one node, and all of them together. *)

Touched(edges) == UNION {{edges[i].src, edges[i].tgt} : i \in DOMAIN edges}

\* IPMV4.5.3 and IPMV4.5.4: a thing, or an event, that no edge touches.
StrandedThings(edges, stored) == {n \in DOMAIN stored : stored[n] = "Thing"} \ Touched(edges)
StrandedEvents(edges, stored) == {n \in DOMAIN stored : stored[n] = "Event"} \ Touched(edges)

\* IPMV1.5: a node that is left grey.
UndecidedKinds(stored) == {n \in DOMAIN stored : stored[n] = "Unresolved"}

\* A finding: the rule, how bad it is, and the nodes it names where its check lists them.
Finding(code, severity, about) == [code |-> code, severity |-> severity, about |-> about]

Errors(code, verdict) == IF verdict THEN {} ELSE {Finding(code, "error", <<>>)}
Listed(code, severity, found) == {Finding(code, severity, about) : about \in found}
Singly(nodes) == {<<n>> : n \in nodes}

\* AllChecksWith and RunChecks: what every check finds in a graph of edges, stored types and
\* effective types.  An undecided kind is an error under the publish gate.
RunChecks(g, strict) ==
  UNION {Errors("IPMV1.1", SelfLoopCheck(g.edges)),
         Errors("IPMV1.2", DuplicatePairCheck(g.edges)),
         Errors("IPMV1.3", TypePairCheck(g.edges, g.eff)),
         Listed("IPMV1.4", "warning", RedundantParents(g.edges, g.stored)),
         Errors("IPMV2.1", PartOfDagCheck(g.edges)),
         Errors("IPMV2.2", LeadsToDagCheck(g.edges)),
         Errors("IPMV2.6", HappensBeforeCheck(g.edges)),
         Listed("IPMV2.7", "warning", UnorderedSiblings(g.edges, g.eff)),
         Listed("IPMV2.8", "warning", ContainerCrossings(g.edges)),
         Listed("IPMV2.9", "warning", SubPartEndpoints(g.edges, g.eff)),
         Listed("IPMV4.5.3", "info", Singly(StrandedThings(g.edges, g.stored))),
         Listed("IPMV4.5.4", "info", Singly(StrandedEvents(g.edges, g.stored))),
         Listed("IPMV1.5", IF strict THEN "error" ELSE "warning", Singly(UndecidedKinds(g.stored)))}

HasErrors(findings) == \E f \in findings : f.severity = "error"

-----------------------------------------------------------------------------
(* The flags of a block (pkg/ipmtmeta), and the command ipm-validate. *)

KnownFlags == {"unresolved", "defaults", "embed=false"}

\* A line of a block's source: a blank one, a `# ipmt:` pragma with its flags, or any other.
BlankLine == [k |-> "blank", flags |-> {}]
Pragma(flags) == [k |-> "pragma", flags |-> flags]
OtherLine == [k |-> "other", flags |-> {}]

\* A block: the flags behind ```ipmt (none for a file of its own), the lines of the source,
\* and what the parser makes of them, a graph where it parses.
SourceBlock(fence, source, parses, graph) ==
  [fence |-> fence, source |-> source, parses |-> parses, graph |-> graph]

\* The flags of the fence and of the pragmas, and whether they are in order: only known ones,
\* and no pragma behind the first line that is not blank.
EffectiveMeta(b) == b.fence \cup UNION {b.source[i].flags : i \in DOMAIN b.source}
MetaIsValid(b) ==
  /\ EffectiveMeta(b) \subseteq KnownFlags
  /\ \A i \in DOMAIN b.source : b.source[i].k = "pragma" =>
       \A j \in DOMAIN b.source : j < i => b.source[j].k = "blank"

Refused == {Finding("IPMV0", "error", <<>>)}

\* A block whose author expects grey nodes, for the solver, is not gated.
BlockFindings(b, strict) ==
  RunChecks(b.graph, strict /\ EffectiveMeta(b) \cap {"unresolved", "defaults"} = {})

\* What ipm-validate finds in the blocks of a Markdown file, each on its own.
ValidateMarkdown(blocks, strict) ==
  UNION {IF MetaIsValid(b) /\ b.parses THEN BlockFindings(b, strict) ELSE Refused : b \in blocks}

\* 0 is no findings, 1 none that is an error, 3 an error.
ExitCode(findings) == IF findings = {} THEN 0 ELSE IF HasErrors(findings) THEN 3 ELSE 1

\* And how it ends on a file of ipmt: 2 is a text that does not parse.
ExitOfIPMT(b, strict) ==
  IF ~MetaIsValid(b) THEN ExitCode(Refused)
  ELSE IF ~b.parses THEN 2
  ELSE ExitCode(BlockFindings(b, strict))

=============================================================================
