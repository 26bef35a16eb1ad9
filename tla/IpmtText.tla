------------------------------ MODULE IpmtText ------------------------------
(***************************************************************************)
(* ipmt as text: the graph the parser makes of it (pkg/ipm/parser), and    *)
(* the text ipmtext.Serialize writes for a graph (pkg/ipmtext).            *)
(*                                                                         *)
(* A text is a sequence of lines, and of passages as they were typed.  A   *)
(* line is what the tokenizer finds in it: arrows, and before, between and *)
(* behind them the specs of nodes a comma separates.  A passage is a       *)
(* sequence of rows, a row one of symbols:                                 *)
(*   " " "<" ">" "-" "," "#"     the characters                            *)
(*   "::P" "::e" "::?et" "::a"   and so on: the markers                    *)
(*   "quoted" "empty" "open"     a string, "", and a quote never closed    *)
(*   "[label]"                   a label in brackets                       *)
(*   "9"                         a word that begins with no letter         *)
(* and anything else is a word.  A name is a sequence of pieces, symbols   *)
(* or those of the aliases Serialize makes up.  Escapes, tabs, quotes over  *)
(* rows, and where anything stands in the source are left out.             *)
(***************************************************************************)
EXTENDS Naturals, Sequences, SequencesExt, FiniteSets

NoName == <<>>   \* the empty string

\* A spec as it is written, `alias::a name ::e`: the kinds of its markers, and the candidates
\* of a `::?` marker.
Written(name, alias, marks, cands) ==
  [name |-> name, alias |-> alias, marks |-> marks, cands |-> cands]

\* An arrow: an explicit one has a link type; "undir" is --- .
Arrow(dir, link) == [dir |-> dir, link |-> link]

Line(segs, arrows) == [segs |-> segs, arrows |-> arrows]

\* A line that is no line: the tokenizer found an error in it.
Unreadable == Line(<<>>, <<>>)

\* A passage; what it means, where the docs tell, is not read by the parser.
Typed(rows, means) == [rows |-> rows, means |-> means]
IsTyped(t) == "rows" \in DOMAIN t

-----------------------------------------------------------------------------
(* Rows and logical lines. *)

At(ls, p) == IF p \in DOMAIN ls THEN ls[p] ELSE "end"
Has(ls, p, ss) == p + Len(ss) - 1 <= Len(ls) /\ SubSeq(ls, p, p + Len(ss) - 1) = ss

\* The first position from p on that is no space.
Skip(ls, p) ==
  LET black == {i \in p .. Len(ls) : ls[i] # " "}
  IN  IF black = {} THEN Len(ls) + 1 ELSE Min(black)

Trim(ls) ==
  LET black == {i \in DOMAIN ls : ls[i] # " "}
  IN  IF black = {} THEN <<>> ELSE SubSeq(ls, Min(black), Max(black))

IsCommentLine(row) == At(row, Skip(row, 1)) = "#"

\* The row without its trailing comment: a `#` between spaces, outside quotes.
WithoutComment(row) ==
  LET marks == {i \in DOMAIN row :
                  /\ row[i] = "#"
                  /\ i = 1 \/ row[i - 1] = " "
                  /\ At(row, i + 1) \in {" ", "end"}
                  /\ "open" \notin ToSet(SubSeq(row, 1, i))}
  IN  IF marks = {} THEN row ELSE SubSeq(row, 1, Min(marks) - 1)

Continues(row) == Has(row, 1, <<" ", " ">>)

\* preprocess: a row and the indented ones below it, comments among these dropped; those below
\* a comment go with it.
LogicalLines(rows) ==
  LET More(row) == IF IsCommentLine(row) THEN <<>>
                   ELSE <<" ">> \o WithoutComment(SubSeq(row, Skip(row, 1), Len(row)))
      from[i \in 1 .. Len(rows) + 1] ==
        IF i > Len(rows) THEN <<>>
        ELSE LET ends == {j \in i + 1 .. Len(rows) : ~Continues(rows[j])}
                 next == IF ends = {} THEN Len(rows) + 1 ELSE Min(ends)
                 base == IF IsCommentLine(rows[i]) THEN rows[i] ELSE WithoutComment(rows[i])
                 line == base \o FlattenSeq([n \in 1 .. next - i - 1 |-> More(rows[i + n])])
             IN  (IF Trim(line) = <<>> \/ IsCommentLine(line) THEN <<>> ELSE <<line>>) \o from[next]
  IN  from[1]

-----------------------------------------------------------------------------
(* The tokenizer: what begins at a position of a logical line. *)

Codes == {"::P", "::X", "::L", "::N"}
Kinds == {"::e", "::t", "::c"}
Undecided == {"::?et", "::?te", "::?ee", "::?e"}
Colons == Codes \cup Kinds \cup Undecided \cup {"::E", "::a", "::tip"}
Quotes == {"quoted", "empty"}
IdentStart(s) ==
  s \notin Colons \cup Quotes \cup {" ", "<", ">", "-", ",", "#", "open", "[label]", "9", "end"}

\* The end of an identifier: hyphens are part of it, two of them are not.
IdentEnd(ls, p) ==
  LET ends == {i \in p .. Len(ls) : ~(IdentStart(ls[i]) \/ ls[i] \in {"9", "-"}) \/ Has(ls, i, <<"-", "-">>)}
  IN  IF ends = {} THEN Len(ls) + 1 ELSE Min(ends)

Found(arrow, end) == [arrow |-> arrow, end |-> end]
Nothing == Found(Arrow("", ""), 0)
Broken == Found(Arrow("", ""), -1)
Else(first, second) == IF first = Nothing THEN second ELSE first

\* The space behind a spaced arrow is part of it.
Widened(ls, found) == IF At(ls, found.end) = " " THEN [found EXCEPT !.end = @ + 1] ELSE found

\* The position behind a tooltip that begins at p, p itself when none does.
TipEnd(ls, p) ==
  IF At(ls, p) \in Quotes THEN p + 1 ELSE IF IdentStart(At(ls, p)) THEN IdentEnd(ls, p) ELSE p

\* The terminator of an explicit arrow; --::N--> is taken for --::N--.
Terminated(ls, p, arrow) ==
  LET rev   == arrow.dir = "rev"
      undir == arrow.link = "NearTo" \/ rev
  IN  IF ~undir
      THEN IF Has(ls, p, <<"-", "-", ">">>) THEN Found(arrow, p + 3) ELSE Nothing
      ELSE IF ~Has(ls, p, <<"-", "-">>) THEN Nothing
      ELSE IF At(ls, p + 2) # ">" THEN Found(arrow, p + 2)
      ELSE IF rev THEN Nothing ELSE Found(arrow, p + 3)

\* parseExplicitTail: an optional tooltip and the terminator.
ExplicitTail(ls, p, arrow) ==
  IF At(ls, p) = "open" THEN Broken ELSE Terminated(ls, Skip(ls, TipEnd(ls, p)), arrow)

\* tryReverseExplicit, tryCompactExplicit and the spaced ones, from the code on.
LinkOf == ("::P" :> "PartOf") @@ ("::X" :> "Expresses") @@ ("::L" :> "LeadsTo") @@ ("::N" :> "NearTo")
Explicit(ls, p, dir) ==
  IF At(ls, p) \in Codes THEN ExplicitTail(ls, Skip(ls, p + 1), Arrow(dir, LinkOf[ls[p]])) ELSE Nothing

\* The terminator of an arrow without a code.
Ended(ls, p) ==
  IF Has(ls, p, <<"-", "-", ">">>) THEN Found(Arrow("fwd", "inferred"), p + 3)
  ELSE IF Has(ls, p, <<"-", "-">>) THEN Found(Arrow("undir", "inferred"), p + 2)
  ELSE Nothing

\* tryTooltipFromQuote and tryUnquotedTooltipFrom.
Tooltip(ls, p) ==
  LET Behind(end) == IF end = p THEN Nothing ELSE Ended(ls, Skip(ls, end))
  IN  Behind(TipEnd(ls, p))

\* At <-- .
ReverseArrow(ls, p) ==
  Else(Explicit(ls, p + 3, "rev"),
       IF At(ls, p + 3) \in Codes THEN Broken ELSE Found(Arrow("rev", "inferred"), p + 3))

\* At a space.
SpacedArrow(ls, p) ==
  CASE Has(ls, p, <<" ", "<", "-", "-", " ">>) ->
         Else(Widened(ls, Explicit(ls, Skip(ls, p + 5), "rev")), Found(Arrow("rev", "inferred"), p + 5))
    [] Has(ls, p, <<" ", "-", "-", ">", " ">>) -> Found(Arrow("fwd", "inferred"), p + 5)
    [] Has(ls, p, <<" ", "-", "-", "-", ">", " ">>) -> Broken
    [] Has(ls, p, <<" ", "-", "-", "-", " ">>) -> Found(Arrow("undir", "inferred"), p + 5)
    [] Has(ls, p, <<" ", "-", "-", " ">>) ->
         LET q == Skip(ls, p + 4)
         IN  Else(Widened(ls, Explicit(ls, q, "fwd")), Else(Widened(ls, Tooltip(ls, q)), Broken))
    [] Has(ls, p, <<" ", "-", "-">>) /\ At(ls, p + 3) \notin {" ", "-", ">"} ->
         Else(Widened(ls, Explicit(ls, p + 3, "fwd")),
              Else(Widened(ls, Tooltip(ls, p + 3)),
                   IF At(ls, p + 3) \in Quotes \cup {"open"} THEN Broken ELSE Nothing))
    [] OTHER -> Nothing

\* At a hyphen: two of them at the end, before a space or before a marker are text.
CompactArrow(ls, p) ==
  CASE Has(ls, p, <<"-", "-", "-">>) ->
         IF At(ls, p + 3) = ">" THEN Broken ELSE Found(Arrow("undir", "inferred"), p + 3)
    [] Has(ls, p, <<"-", "-", ">">>) -> Found(Arrow("fwd", "inferred"), p + 3)
    [] Has(ls, p, <<"-", "-">>) /\ At(ls, p + 2) \notin {"-", ">"} ->
         Else(Explicit(ls, p + 2, "fwd"),
              Else(Tooltip(ls, p + 2),
                   IF At(ls, p + 2) \in Colons \cup {" ", "end"} THEN Nothing ELSE Broken))
    [] OTHER -> Nothing

ArrowAt(ls, p) ==
  CASE ls[p] = "open"                      -> Broken
    [] Has(ls, p, <<"<", "-", "-", ">">>)  -> Broken
    [] Has(ls, p, <<"<", "-", "-">>) /\ At(ls, p + 3) # ">"
                                           -> ReverseArrow(ls, p)
    [] ls[p] = " "                         -> SpacedArrow(ls, p)
    [] ls[p] = "-"                         -> CompactArrow(ls, p)
    [] OTHER                               -> Nothing

\* What was found at a symbol, and the rest of the line.
Put(found, symbol, rest) ==
  IF found = Broken \/ rest = Unreadable THEN Unreadable
  ELSE IF found = Nothing THEN [rest EXCEPT !.segs[1] = <<symbol>> \o @]
  ELSE Line(<< <<>> >> \o rest.segs, <<found.arrow>> \o rest.arrows)

\* The texts before, between and behind the arrows of a line; no text for an error.
Tokenize(ls) ==
  LET from[p \in 1 .. Len(ls) + 2] ==
        LET Go(found) == Put(found, ls[p], from[IF found = Nothing THEN p + 1 ELSE found.end])
        IN  IF p > Len(ls) THEN Line(<< <<>> >>, <<>>) ELSE Go(ArrowAt(ls, p))
  IN  from[1]

-----------------------------------------------------------------------------
(* The specs of a text between arrows. *)

\* findAnnotation: the first such marker with a boundary behind it, 0 for none.
FindAnnotation(ls, tags) ==
  SelectInSeq([i \in DOMAIN ls |-> <<ls[i], At(ls, i + 1)>>],
    LAMBDA w : w[1] \in tags /\ w[2] \in Colons \cup Quotes \cup {" ", ",", "open", "end"})

Before(ls, i) == Trim(SubSeq(ls, 1, i - 1))
After(ls, i) == Trim(SubSeq(ls, i + 1, Len(ls)))
Without(ls, i) == Trim(SubSeq(ls, 1, i - 1) \o SubSeq(ls, i + 1, Len(ls)))

\* The tooltip is the string right before ::tip.
WithoutTip(ls) ==
  LET From(i) == IF i = 0 \/ Before(ls, i) = <<>> THEN ls
                 ELSE IF Last(Before(ls, i)) \notin Quotes THEN ls
                 ELSE Trim(Front(Before(ls, i))) \o SubSeq(ls, i + 1, Len(ls))
  IN  From(FindAnnotation(ls, {"::tip"}))

\* A label goes, with what is behind it, unless the name is quoted; quotes come off.
Label(name) ==
  LET i == SelectInSeq(name, LAMBDA s : s = "[label]")
  IN  IF i = 0 \/ At(name, 1) \in Quotes THEN name ELSE Before(name, i)
StripQuotes(name) == IF name = <<"empty">> THEN NoName ELSE name

KindOf(mark) == CASE mark = "::e" -> "Event" [] mark = "::t" -> "Thing" [] mark = "::c" -> "Concept"
CandidatesOf(mark) ==
  CASE mark = "::?et" -> <<"Event", "Thing">>
    [] mark = "::?te" -> <<"Thing", "Event">>
    [] mark = "::?ee" -> <<"Event", "Event">>
    [] mark = "::?e"  -> <<"Event">>

\* No name and no alias: the spec is refused.
Nameless == Written(NoName, NoName, <<>>, <<>>)

\* With its alias, if it stands ahead, and its markers off; an alias can stand at the end as well.
Named(rest, alias, marks, cands) ==
  LET Spec(name, by) == Written(StripQuotes(Label(name)), StripQuotes(by), marks, cands)
      Cut(before) == Max({0} \cup {j \in DOMAIN before : before[j] = " "})
      Split(before) == Spec(Trim(SubSeq(before, 1, Cut(before))), SubSeq(before, Cut(before) + 1, Len(before)))
      With(i) == IF alias = <<>> /\ i # 0 /\ Before(rest, i) # <<>> /\ After(rest, i) = <<>>
                 THEN Split(Before(rest, i)) ELSE Spec(Trim(rest), alias)
  IN  With(FindAnnotation(rest, {"::a"}))

\* The kinds it is marked with.  Behind an undecided marker no other is looked for.
Marked(rest, alias) ==
  LET grey == SelectInSeq(rest, LAMBDA s : s \in Undecided)
      mark == FindAnnotation(rest, Kinds)
      One(clear, marks) == IF FindAnnotation(clear, Kinds) # 0 THEN Nameless ELSE Named(clear, alias, marks, <<>>)
  IN  IF grey # FindAnnotation(rest, Undecided) \/ FindAnnotation(rest, {"::E"}) # 0 THEN Nameless
      ELSE IF grey # 0 THEN Named(Without(rest, grey), alias, <<>>, CandidatesOf(rest[grey]))
      ELSE IF mark = 0 THEN One(rest, <<>>) ELSE One(Without(rest, mark), <<KindOf(rest[mark])>>)

\* parseOneNodeSpec: an alias ahead, the tooltip and the markers come off.
SpecOf(ls) ==
  LET Ahead(i) == IF i # 0 /\ Before(ls, i) # <<>> /\ " " \notin ToSet(Before(ls, i))
                  THEN Marked(WithoutTip(After(ls, i)), Before(ls, i)) ELSE Marked(WithoutTip(ls), <<>>)
  IN  Ahead(FindAnnotation(ls, {"::a"}))

\* parseNodeSpecs: the parts between commas that are not blank.
SpecsOf(ls) ==
  LET Step(parts, s) == IF s = "," THEN Append(parts, <<>>)
                        ELSE Front(parts) \o <<Append(Last(parts), s)>>
      parts == FoldLeft(Step, << <<>> >>, ls)
      trimmed == [i \in DOMAIN parts |-> Trim(parts[i])]
      written == SelectSeq(trimmed, LAMBDA part : part # <<>>)
  IN  [i \in DOMAIN written |-> SpecOf(written[i])]

\* validateTokens: between two arrows there is no comma, not even one that separates nothing.
ReadLine(ls) ==
  LET toks == Tokenize(ls)
  IN  IF \E i \in 2 .. Len(toks.segs) - 1 : "," \in ToSet(toks.segs[i]) THEN Unreadable
      ELSE [toks EXCEPT !.segs = [i \in DOMAIN @ |-> SpecsOf(@[i])]]

\* The lines of a passage.
Read(rows) ==
  LET Each(lines) == [i \in DOMAIN lines |-> ReadLine(lines[i])]
  IN  Each(LogicalLines(rows))

-----------------------------------------------------------------------------

\* Two or three kinds, none of them twice.
CandidatesAreValid(cands) == Len(cands) >= 2 /\ IsInjective(cands)

\* A spec has one marker at most, the `::?` one among them, and a name or an alias.
SpecIsValid(w) ==
  /\ IF w.cands = <<>> THEN Len(w.marks) <= 1 ELSE CandidatesAreValid(w.cands)
  /\ w.name # NoName \/ w.alias # NoName

\* The node of a spec; without a marker it is a thing.
NodeOf(w) ==
  [name |-> w.name, alias |-> w.alias, cands |-> w.cands,
   kind |-> IF w.cands # <<>> THEN "Unresolved" ELSE IF w.marks = <<>> THEN "Thing" ELSE w.marks[1]]

\* The kind an edge goes by: the primary candidate of an undecided node.
EffEdgeType(nd) == IF nd.kind = "Unresolved" THEN Head(nd.cands) ELSE nd.kind

Identities(nd) == {nd.name, nd.alias} \ {NoName}

\* Mutant of Lookup: names are compared with names and aliases with aliases.
LookupByName(nodes, w) ==
  SelectInSeq(nodes, LAMBDA nd : \/ w.name # NoName /\ nd.name = w.name
                                 \/ w.alias # NoName /\ nd.alias = w.alias)

\* The first node that has the name or the alias of the spec, as its name or as its alias;
\* 0 when there is none.
Lookup(nodes, w) == SelectInSeq(nodes, LAMBDA nd : Identities(nd) \cap {w.name, w.alias} # {})

LookupOrCreate(nodes, w) == IF Lookup(nodes, w) = 0 THEN Append(nodes, NodeOf(w)) ELSE nodes

Mention(nodes, specs) == FoldLeft(LookupOrCreate, nodes, specs)

-----------------------------------------------------------------------------

InferSst(st, tt) ==
  IF st = "Event" /\ tt = "Event" THEN "LeadsTo"
  ELSE IF "Concept" \in {st, tt} THEN "Expresses" ELSE "PartOf"

ValidateEdgeDirection(st, tt, isUndirected) ==
  IF isUndirected THEN st = tt
  ELSE <<st, tt>> \notin {<<"Concept", "Event">>, <<"Concept", "Thing">>, <<"Event", "Thing">>}

ValidateExplicitEdge(st, tt, link) ==
  CASE link = "LeadsTo"   -> st = "Event" /\ tt = "Event"
    [] link = "PartOf"    -> <<st, tt>> \in {<<"Event", "Event">>, <<"Thing", "Event">>, <<"Thing", "Thing">>}
    [] link = "Expresses" -> <<st, tt>> \in {<<"Event", "Event">>, <<"Event", "Concept">>,
                                             <<"Thing", "Concept">>, <<"Concept", "Concept">>}
    [] link = "NearTo"    -> st = tt

\* Both directions of a pair may be written; the same one twice, or two relations, may not.
AddEdge(st, e) ==
  LET twice    == \E i \in DOMAIN st.edges : st.edges[i] = e
      conflict == \E i \in DOMAIN st.edges :
                    {st.edges[i].src, st.edges[i].tgt} = {e.src, e.tgt} /\ st.edges[i].link # e.link
  IN  [st EXCEPT !.edges = Append(@, e), !.ok = @ /\ ~twice /\ ~conflict]

\* The edge an arrow draws between the nodes l and r.
Connect(st, arrow, l, r) ==
  LET src  == IF arrow.dir = "rev" THEN r ELSE l
      tgt  == IF arrow.dir = "rev" THEN l ELSE r
      s    == EffEdgeType(st.nodes[src])
      t    == EffEdgeType(st.nodes[tgt])
      link == IF arrow.link # "inferred" THEN arrow.link
              ELSE IF arrow.dir = "undir" THEN "NearTo" ELSE InferSst(s, t)
      ok   == IF arrow.link # "inferred" THEN ValidateExplicitEdge(s, t, link)
              ELSE ValidateEdgeDirection(s, t, arrow.dir = "undir")
  IN  IF st.ok /\ ok THEN AddEdge(st, [src |-> src, tgt |-> tgt, link |-> link])
      ELSE [st EXCEPT !.ok = FALSE]

\* One arrow of a line: the nodes on its two sides, each with each.
ParseArrow(st, arrow, lefts, rights) ==
  LET nodes == Mention(Mention(st.nodes, lefts), rights)
      ids(specs) == [i \in DOMAIN specs |-> Lookup(nodes, specs[i])]
      Each(acc, l) == FoldLeft(LAMBDA a, r : Connect(a, arrow, l, r), acc, ids(rights))
  IN  FoldLeft(Each, [st EXCEPT !.nodes = nodes], ids(lefts))

\* Neither between two arrows nor on both sides of one does a comma separate nodes.
CommasAreClear(line) ==
  \A i \in DOMAIN line.arrows :
    /\ Len(line.segs[i]) <= 1 \/ Len(line.segs[i + 1]) <= 1
    /\ i > 1 => Len(line.segs[i]) <= 1

ParseLine(st, line) ==
  IF ~st.ok THEN st
  ELSE IF line = Unreadable \/ ~CommasAreClear(line) \/ \E w \in ToSet(FlattenSeq(line.segs)) : ~SpecIsValid(w)
  THEN [st EXCEPT !.ok = FALSE]
  ELSE IF line.arrows = <<>> THEN [st EXCEPT !.nodes = Mention(@, line.segs[1])]
  ELSE FoldLeft(LAMBDA a, i : ParseArrow(a, line.arrows[i], line.segs[i], line.segs[i + 1]),
                st, [i \in DOMAIN line.arrows |-> i])

\* What Parse starts with, and what it returns for an empty text.
NothingRead == [nodes |-> <<>>, edges |-> <<>>, ok |-> TRUE]

\* The nodes and the edges of a sequence of lines; nothing of them counts when it is not `ok`.
ParseLines(lines) == FoldLeft(ParseLine, NothingRead, lines)

\* Those of a text.
Parse(text) ==
  LET LinesOf(t) == IF IsTyped(t) THEN Read(t.rows) ELSE <<t>>
  IN  ParseLines(FlattenSeq([n \in DOMAIN text |-> LinesOf(text[n])]))

-----------------------------------------------------------------------------

\* The alias Serialize gives a node: a letter for its kind, and its number.
GeneratedAlias(nodes, i) ==
  <<[Event |-> "e", Thing |-> "t", Concept |-> "c", Unresolved |-> "u"][nodes[i].kind], i>>

CandidateLetters(cands) == IF Len(cands) < 2 THEN <<"Event", "Thing", "Concept">> ELSE cands

FormatNodeLine(nodes, i) ==
  LET grey == nodes[i].kind = "Unresolved"
  IN  Line(<< <<Written(nodes[i].name, GeneratedAlias(nodes, i),
                        IF grey THEN <<>> ELSE <<nodes[i].kind>>,
                        IF grey THEN CandidateLetters(nodes[i].cands) ELSE <<>>)>> >>, <<>>)

FormatEdgeLine(nodes, e) ==
  LET by(i) == <<Written(GeneratedAlias(nodes, i), NoName, <<>>, <<>>)>>
  IN  Line(<<by(e.src), by(e.tgt)>>, <<Arrow("fwd", e.link)>>)

\* The nodes in the order of their ids, then the edges in theirs.
Serialize(nodes, edges) ==
  [i \in DOMAIN nodes |-> FormatNodeLine(nodes, i)]
    \o [i \in DOMAIN edges |-> FormatEdgeLine(nodes, edges[i])]

=============================================================================
