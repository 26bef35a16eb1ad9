------------------------------- MODULE Layout -------------------------------
(***************************************************************************)
(* A diagram that is written, read, checked, laid out, edited and laid out *)
(* again: the parser makes a graph of the text, the validator has to find  *)
(* no error in it (the rule of the layout corpus, layout-test-runner), and *)
(* Generate (pkg/layout7/generate.go) takes it through membership,         *)
(* skeleton and assembly.  Nothing is kept between two layouts but what    *)
(* the reader remembers of the last one.                                   *)
(***************************************************************************)
EXTENDS LayoutSkeleton

I == INSTANCE IpmtText
T == INSTANCE LayoutTiles
V == INSTANCE Validate

CONSTANT Seeds    \* pairs of a text and the number of lines its author may add

\* What the docs say of a passage: that it is an error, or nothing.
Refused == <<I!Unreadable>>
Open == <<>>

VARIABLES
  text,    \* the text
  room,    \* the lines its author may still add (a bound of the model)
  pc,      \* the stage that is next
  doc,     \* the graph of the text when it was last read
  mem,     \* the membership, of the last layout until its stage has run
  skel,    \* the skeleton
  board    \* the components as they are tiled

vars == <<text, room, pc, doc, mem, skel, board>>

\* A document is laid out when ipm-validate finds no error in it.
Stored(d) == [n \in Nodes(d) |-> d.nodes[n].kind]
Valid(d) == ~V!HasErrors(V!RunChecks([edges |-> d.edges, stored |-> Stored(d), eff |-> d.kind], FALSE))

Links == {"LeadsTo", "PartOf", "Expresses", "NearTo"}

\* A graph, and the kind each of its nodes goes by (newGraph: the primary candidate of an
\* undecided one).
Document(nodes, edges) ==
  [nodes |-> nodes, kind |-> [n \in DOMAIN nodes |-> I!EffEdgeType(nodes[n])], edges |-> edges]

Init ==
  /\ \E s \in Seeds : text = s[1] /\ room = s[2]
  /\ pc = "read"
  /\ doc = Document(<<>>, <<>>)
  /\ mem = <<>> /\ skel = <<>> /\ board = <<>>

\* The parser finds an error.
RefuseText ==
  /\ pc = "read"
  /\ ~I!Parse(text).ok
  /\ pc' = "refused"
  /\ UNCHANGED <<text, room, doc, mem, skel, board>>

ReadText ==
  /\ pc = "read"
  /\ \E read \in {I!Parse(text)} : read.ok /\ doc' = Document(read.nodes, read.edges)
  /\ pc' = IF Valid(doc') THEN "membership" ELSE "refused"
  /\ UNCHANGED <<text, room, mem, skel, board>>

ResolveMembership ==
  /\ pc = "membership"
  /\ pc' = "skeleton"
  /\ mem' = Membership(doc)
  /\ UNCHANGED <<text, room, doc, skel, board>>

BuildSkeleton ==
  /\ pc = "skeleton"
  /\ pc' = "assemble"
  /\ skel' = Skeleton(doc, mem)
  /\ UNCHANGED <<text, room, doc, mem, board>>

Assemble ==
  /\ pc = "assemble"
  /\ pc' = "done"
  /\ board' = T!Assembly(doc, mem, skel)
  /\ UNCHANGED <<text, room, doc, mem, skel>>

\* The line of an edge between two nodes, by their names; near-to is written from the first one.
EdgeLine(n, m, link) ==
  LET by(k) == <<I!Written(doc.nodes[k].name, I!NoName, <<>>, <<>>)>>
  IN  I!Line(<<by(n), by(m)>>, <<I!Arrow("fwd", link)>>)

\* The author adds a line.
TypeLine ==
  /\ pc = "done"
  /\ room > 0
  /\ \E n, m \in Nodes(doc), link \in Links :
       /\ link = "NearTo" => n < m
       /\ text' = Append(text, EdgeLine(n, m, link))
  /\ room' = room - 1
  /\ pc' = "read"
  /\ UNCHANGED <<doc, mem, skel, board>>

Next ==
  \/ RefuseText
  \/ ReadText
  \/ ResolveMembership
  \/ BuildSkeleton
  \/ Assemble
  \/ TypeLine

Spec == Init /\ [][Next]_vars

-----------------------------------------------------------------------------

(***************************************************************************)
(* Things and concepts that hang together hang at one event ("anchor-and-  *)
(* tie", membership.go:14-19): the edges that shape the layout join no two *)
(* components, place no node twice, and connect a structure to at most one *)
(* event, wherever its members are used.                                   *)
(***************************************************************************)
HangsAtOne ==
  pc \in {"skeleton", "assemble", "done"} =>
    LET inner  == mem.structural \cap EdgesAmong(doc, Links, Aux(doc))
        joined == Joined(Aux(doc), PairsOf(doc, inner))
        hooks  == mem.structural \ (inner \cup EdgesAmong(doc, Links, Events(doc)))
        Ends(i) == {doc.edges[i].src, doc.edges[i].tgt}
    IN  /\ \A i \in mem.structural : \A n, m \in Ends(i) : mem.comp[n] = mem.comp[m]
        /\ \A i, j \in hooks : i # j =>
             \A n \in Ends(i) \cap Aux(doc), m \in Ends(j) \cap Aux(doc) : m \notin joined[n]
        /\ \A c \in Aux(doc) : doc.kind[c] = "Concept" =>
             Cardinality({i \in mem.structural : doc.edges[i].tgt = c}) <= 1

(***************************************************************************)
(* Near-to anywhere and expresses between events never affect membership   *)
(* (docs: membership.go:13, "eXe/eNe never merge"): one more of them takes *)
(* no node out of the component of an event, and brings no two events      *)
(* together.                                                               *)
(***************************************************************************)
Bystander(e) == e.link = "NearTo" \/ (e.link = "Expresses" /\ IsEvent(doc, e.tgt))
StoriesKeep ==
  [][(ResolveMembership /\ mem # <<>> /\ Bystander(Last(doc.edges))) =>
       \A n \in Events(doc), m \in Nodes(doc) :
         /\ mem.comp[m] = mem.comp[n] => mem'.comp[m] = mem'.comp[n]
         /\ IsEvent(doc, m) /\ mem'.comp[m] = mem'.comp[n] => mem.comp[m] = mem.comp[n]]_vars

(***************************************************************************)
(* Every event has one place, in a row of its component or in a grid of    *)
(* its composite, and time reads down in both (v7P3), also where the flow  *)
(* runs through grids, unless lifting it to the composites closes a cycle: *)
(* no error of the validator excludes that, its warning about leads-to     *)
(* into parts does, where no event is a part of two.                       *)
(***************************************************************************)
Slots(rows) == UNION {{<<r, s>> : s \in DOMAIN rows[r]} : r \in DOMAIN rows}
RowOf(rows, n) == CHOOSE r \in DOMAIN rows : n \in ToSet(rows[r])
TimeReadsDown ==
  pc \in {"assemble", "done"} =>
    LET tables == [c \in DOMAIN skel.rows \cup DOMAIN skel.grids |->
                     (IF c \in DOMAIN skel.rows THEN skel.rows[c] ELSE <<>>) \o
                     (IF c \in DOMAIN skel.grids THEN skel.grids[c] ELSE <<>>)]
        tops   == TopLevel(doc, skel.parent)
        Down(rows, n, m) == RowOf(rows, n) < RowOf(rows, m)
    IN  /\ \A n \in Events(doc) :
             Cardinality(UNION {{<<c, s>> : s \in {t \in Slots(tables[c]) : tables[c][t[1]][t[2]] = n}} :
                                c \in DOMAIN tables}) = 1
        /\ \A c \in DOMAIN skel.grids : \A n \in ToSet(FlattenSeq(skel.grids[c])) : skel.parent[n] = c
        /\ \A i \in EdgesAmong(doc, {"LeadsTo"}, Events(doc)) :
             LET n == doc.edges[i].src  m == doc.edges[i].tgt
             IN  skel.parent[n] = skel.parent[m] /\ skel.parent[n] # 0 =>
                   Down(skel.grids[skel.parent[n]], n, m)
        /\ \/ V!Acyclic(ToSet(skel.flow))
           \/ V!SubPartEndpoints(doc.edges, doc.kind) # {}
           \/ \E i, j \in EdgesAmong(doc, {"PartOf"}, Events(doc)) :
                i # j /\ doc.edges[i].src = doc.edges[j].src
        /\ V!Acyclic(ToSet(skel.flow)) =>
             /\ \A p \in ToSet(skel.flow) : Down(skel.rows[mem.comp[p[1]]], p[1], p[2])
             /\ \A n \in tops : /\ skel.rows[mem.comp[n]][1] # <<>>
                                /\ ToSet(skel.rows[mem.comp[n]][1]) \subseteq skel.starts

(***************************************************************************)
(* Every component is tiled once, tied components stand together, however  *)
(* many hops from their hub and whichever has its turn first, a component  *)
(* is placed around one that is placed already, and the rows hold the      *)
(* tiles.                                                                  *)
(***************************************************************************)
TiedStandTogether ==
  pc = "done" =>
    LET units == <<board.group>> \o board.tiles
        Comps(i) == {mem.comp[doc.edges[i].src], mem.comp[doc.edges[i].tgt]}
        Sum(ns) == FoldLeft(LAMBDA a, b : a + b, 0, ns)
    IN  /\ \A c \in mem.comps : Cardinality({u \in DOMAIN units : c \in units[u]}) = 1
        /\ \A i \in T!CrossTies(doc, mem) : \E u \in DOMAIN units : Comps(i) \subseteq units[u]
        /\ \A k \in DOMAIN board.ties :
             \A hub \in Comps(board.ties[k][2]) \ {board.ties[k][1]} :
               \A j \in DOMAIN board.ties : board.ties[j][1] = hub => j < k
        /\ Sum(board.counts) = Len(board.tiles)

\* No two hyphens are left in a name but before a space, a marker or the end.
HyphensAreText(name) ==
  \A i \in DOMAIN name : I!Has(name, i, <<"-", "-">>) =>
    i + 2 \notin DOMAIN name \/ name[i + 2] \in I!Colons \cup {" "}

\* A row broken at a space that has none beside it, or with a comment behind it;
\* a row that is nothing but a comment takes the indented ones below with it.
Single(row) ==
  {i \in 2 .. Len(row) - 1 : row[i] = " " /\ " " \notin {row[i - 1], row[i + 1]}}
Broken(row, i) == <<SubSeq(row, 1, i - 1), <<" ", " ">> \o SubSeq(row, i + 1, Len(row))>>
Commented(row) == <<row \o <<" ", "#", " ", "b">> >>

\* A passage means what the docs say it means, whether or not its rows are broken or have
\* comments (ipmt-spec.md:431), and an arrow is an arrow or an error, but no name.
Retyped(row) ==
  IF "#" \in ToSet(row) THEN {}
  ELSE {Broken(row, i) : i \in Single(row)}
         \cup IF row # <<>> /\ "open" \notin ToSet(row) THEN {Commented(row)} ELSE {}
TypedIsRead(t) ==
  LET Names(line) == {w.name : w \in ToSet(FlattenSeq(line.segs))}
      Other(r, rows) == SubSeq(t.rows, 1, r - 1) \o rows \o SubSeq(t.rows, r + 1, Len(t.rows))
      Means(lines) ==
        /\ t.means = Refused => ~I!ParseLines(lines).ok
        /\ t.means \notin {Refused, Open} => lines = t.means
        /\ \A line \in ToSet(lines) : \A name \in Names(line) : HyphensAreText(name)
        /\ \A r \in DOMAIN t.rows : \A rows \in Retyped(t.rows[r]) : I!Read(Other(r, rows)) = lines
  IN  Means(I!Read(t.rows))

(***************************************************************************)
(* What the parser lets pass is what the validator and the layout take it  *)
(* for: no two nodes answer to one name, every edge is one that the        *)
(* validator's table allows, inferred ones included, and the text that     *)
(* ipmtext writes for the graph is read as the same graph                  *)
(* (ipmtext.go:17-20), unless a node is named like the alias made up for   *)
(* another.  What is typed is read as the docs have it.                    *)
(***************************************************************************)
TextMeansTheDiagram ==
  pc \in {"membership", "refused"} =>
    LET nodes    == doc.nodes
        again    == I!ParseLines(I!Serialize(nodes, doc.edges))
        Bare(ns) == [n \in DOMAIN ns |-> [ns[n] EXCEPT !.alias = I!NoName]]
    IN  /\ \A n, m \in DOMAIN nodes :
             n # m => I!Identities(nodes[n]) \cap I!Identities(nodes[m]) = {}
        /\ (\A n, m \in DOMAIN nodes : n # m => nodes[n].name # I!GeneratedAlias(nodes, m)) =>
             again.ok /\ again.edges = doc.edges /\ Bare(again.nodes) = Bare(nodes)
        /\ V!TypePairCheck(doc.edges, doc.kind)
        /\ \A n \in DOMAIN text : I!IsTyped(text[n]) => TypedIsRead(text[n])

(***************************************************************************)
(* The validator's suggestions can be followed.  The thing-in-event edges  *)
(* IPMV1.4 calls redundant can all be taken away: no whole loses its       *)
(* involvement.  A leads-to to the container that IPMV2.8 asks for is no   *)
(* error and settles its finding, where nothing stands between the two.    *)
(* Of the two orders IPMV2.7 asks for, one is no error, and so is          *)
(* near-to.                                                                *)
(***************************************************************************)
Linked(d, n, m) == \E i \in EdgeIds(d) : {d.edges[i].src, d.edges[i].tgt} = {n, m}
With(d, link, n, m) == [d EXCEPT !.edges = Append(@, [src |-> n, tgt |-> m, link |-> link])]
Involved(d) ==
  LET within == V!Turned(V!PartPairs(d.edges, Stored(d), "Thing", "Thing"))
      events == V!PartPairs(d.edges, Stored(d), "Thing", "Event")
  IN  {p \in Nodes(d) \X Nodes(d) : \E n \in {p[1]} \cup V!After(within, p[1]) : <<n, p[2]>> \in events}
SuggestionsHelp ==
  pc = "membership" =>
    LET redundant == V!RedundantParents(doc.edges, Stored(doc))
        trimmed   == [doc EXCEPT !.edges =
                        SelectSeq(@, LAMBDA e : ~(e.link = "PartOf" /\ <<e.src, e.tgt>> \in redundant))]
    IN  /\ Involved(trimmed) = Involved(doc)
        /\ V!RedundantParents(trimmed.edges, Stored(doc)) = {}
        /\ \A t \in V!ContainerCrossings(doc.edges) :
             (~Linked(doc, t[1], t[3]) /\ t[1] # t[3]
                /\ t[1] \notin V!After(V!Pairs(doc.edges, "PartOf"), t[2])) =>
               /\ Valid(With(doc, "LeadsTo", t[1], t[3]))
               /\ t \notin V!ContainerCrossings(With(doc, "LeadsTo", t[1], t[3]).edges)
        /\ \A t \in V!UnorderedSiblings(doc.edges, doc.kind) :
             ~Linked(doc, t[1], t[2]) =>
               /\ \E p \in {<<t[1], t[2]>>, <<t[2], t[1]>>} : Valid(With(doc, "LeadsTo", p[1], p[2]))
               /\ Valid(With(doc, "NearTo", t[1], t[2]))
=============================================================================
