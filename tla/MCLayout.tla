------------------------------ MODULE MCLayout ------------------------------
(***************************************************************************)
(* Diagrams of four nodes, edge by edge; larger ones that a few edges more *)
(* bring to the cases four nodes cannot show; and short texts that use     *)
(* everything a line may hold.                                             *)
(***************************************************************************)
EXTENDS Layout

CONSTANT Room   \* the lines added to a diagram that starts empty

K(s) == [E |-> "Event", T |-> "Thing", C |-> "Concept"][s]
Edge(link, n, m) == [src |-> n, tgt |-> m, link |-> link]
Declared(ks) ==
  [n \in DOMAIN ks |-> [name |-> <<"n", n>>, alias |-> I!NoName, kind |-> K(ks[n]), cands |-> <<>>]]

Empty(ks) == <<I!Serialize(Declared(ks), <<>>), Room>>
Grown(ks, es, more) == <<I!Serialize(Declared(ks), es), more>>

\* A composite with three parts, and an event before it.
Grid == Grown(<<"E", "E", "E", "E", "E">>,
  <<Edge("PartOf", 2, 1), Edge("PartOf", 3, 1), Edge("PartOf", 4, 1), Edge("LeadsTo", 5, 2)>>, 2)
\* Two composites with two parts each: the flow between them may close a cycle.
Lift == Grown(<<"E", "E", "E", "E", "E", "E">>,
  <<Edge("PartOf", 2, 1), Edge("PartOf", 3, 1), Edge("PartOf", 5, 4), Edge("PartOf", 6, 4)>>, 2)
\* A chain of ties that a single walk takes in the wrong order.
Chain == Grown(<<"T", "T", "T", "T", "T", "T", "T">>,
  <<Edge("NearTo", 1, 2), Edge("NearTo", 1, 3), Edge("NearTo", 1, 4),
    Edge("NearTo", 2, 5), Edge("NearTo", 5, 6), Edge("NearTo", 5, 7)>>, 1)
\* Two stories that share a thing, a whole of it and a concept.
Shared == Grown(<<"E", "E", "T", "T", "C", "T">>,
  <<Edge("PartOf", 3, 1), Edge("PartOf", 4, 2), Edge("PartOf", 3, 6), Edge("Expresses", 2, 5)>>, 2)

\* A thing that is near to a thing of the first story and may come near to one of the second.
Satellites == Grown(<<"E", "E", "T", "T", "T">>,
  <<Edge("PartOf", 3, 1), Edge("PartOf", 4, 2), Edge("NearTo", 3, 5)>>, 3)
\* Eight components, untied at first.
Scatter == Grown(<<"T", "T", "C", "T", "E", "T", "C", "T">>, <<>>, 2)

-----------------------------------------------------------------------------
(* Texts of two lines: a node, and a line of any kind. *)

a == <<"a">>
b == <<"b">>
x == <<"x">>
t1 == <<"t", 1>>   \* a name that Serialize gives as an alias

Marked(name, mark) == I!Written(name, I!NoName, <<mark>>, <<>>)
Plain(name) == I!Written(name, I!NoName, <<>>, <<>>)

Declarations ==
  {Marked(a, "Event"), Marked(a, "Concept"), Plain(a), Marked(t1, "Event"),
   I!Written(a, x, <<"Event">>, <<>>), I!Written(I!NoName, x, <<>>, <<"Event", "Concept">>),
   I!Written(b, I!NoName, <<>>, <<"Thing", "Event">>)}
Mentions ==
  Declarations \cup
  {Plain(x), Plain(b), Marked(b, "Event"), Marked(b, "Concept"), Plain(t1),
   I!Written(b, x, <<"Thing">>, <<>>), I!Written(x, a, <<"Event">>, <<>>),
   I!Written(b, I!NoName, <<"Event", "Thing">>, <<>>),
   I!Written(b, I!NoName, <<>>, <<"Event", "Event">>), I!Written(I!NoName, I!NoName, <<"Event">>, <<>>)}
Few == {Marked(a, "Event"), Plain(x), Marked(b, "Event"), Plain(b), Marked(t1, "Event")}

Arrows ==
  {I!Arrow(dir, link) : dir \in {"fwd", "rev"}, link \in Links \cup {"inferred"}}
    \cup {I!Arrow("undir", "inferred")}
Inferred == {I!Arrow(dir, "inferred") : dir \in {"fwd", "rev", "undir"}}

Lists == {<<v>> : v \in Few} \cup {<<v, w>> : v, w \in Few}
Pairs ==
  {I!Line(<<l, r>>, <<arrow>>) :
     l \in {<<v>> : v \in Mentions}, r \in {<<v>> : v \in Mentions}, arrow \in Arrows}
Chains ==
  {I!Line(<<l, m, r>>, <<I!Arrow("fwd", "inferred"), arrow>>) :
     l \in {<<v>> : v \in Few}, m \in {<<v>> : v \in Few} \cup {<<Plain(x), Plain(b)>>},
     r \in {<<v>> : v \in Few}, arrow \in Inferred}
Fans == {I!Line(<<l, r>>, <<arrow>>) : l \in Lists, r \in Lists, arrow \in Inferred}
Alone == {I!Line(<<l>>, <<>>) : l \in Lists}

Texts ==
  {<<I!Line(<< <<v>> >>, <<>>), line>> : v \in Declarations, line \in Pairs}
    \cup {<<I!Line(<< <<v>> >>, <<>>), line>> :
             v \in {I!Written(a, x, <<"Event">>, <<>>)}, line \in Chains \cup Fans \cup Alone}

-----------------------------------------------------------------------------
(* Passages as they are typed: the forms of docs/ipmt-spec.md and what is one symbol away. *)

HH == <<"-", "-">>
Tips == {<<>>, <<" ", "quoted">>, <<" ", "w">>}
Form(say, dir, link) == [say |-> say, arrow |-> I!Arrow(dir, link)]
Code == [PartOf |-> "::P", Expresses |-> "::X", LeadsTo |-> "::L", NearTo |-> "::N"]

\* ipmt-spec.md:206-226 and 289-342.
Forms ==
  {Form(HH \o <<">">>, "fwd", "inferred"), Form(<<"<">> \o HH, "rev", "inferred"),
   Form(HH \o <<"-">>, "undir", "inferred")}
    \cup {Form(HH \o <<Code[link]>> \o tip \o HH \o <<">">>, "fwd", link) :
             link \in Links \ {"NearTo"}, tip \in Tips}
    \cup {Form(<<"<">> \o HH \o <<Code[link]>> \o tip \o HH, "rev", link) :
             link \in Links \ {"NearTo"}, tip \in Tips}
    \cup {Form(HH \o <<"::N">> \o tip \o HH, "fwd", "NearTo") : tip \in Tips}
    \cup {Form(HH \o <<tip>> \o HH \o <<">">>, "fwd", "inferred") : tip \in {"quoted", "w"}}
    \cup {Form(HH \o <<tip>> \o HH, "undir", "inferred") : tip \in {"quoted", "w"}}

Spaces == {<<>>, <<" ">>}
Between(say, s1, s2) == <<"a">> \o s1 \o say \o s2 \o <<"b">>
Meant(form) == <<I!Line(<< <<Plain(a)>>, <<Plain(b)>> >>, <<form.arrow>>)>>

\* Forms that are refused: ipmt-spec.md:230 and 622, and the tests of the tokenizer.
Refusals ==
  {HH, <<"<">> \o HH \o <<">">>, HH \o <<"-", ">">>, HH \o <<"open">>, HH \o <<"::P", " ", "open">>,
   <<"<">> \o HH \o <<"::L">> \o HH \o <<">">>}

\* A symbol less, or another one in its place.
NearMisses(say) ==
  {RemoveAt(say, i) : i \in DOMAIN say}
    \cup {[say EXCEPT ![i] = s] : i \in DOMAIN say, s \in {" ", "-", ">", "::P", "::e", "open", "9"}}

\* Nodes, ipmt-spec.md:156-183.
Marks == {<<>>, <<" ", "::e">>, <<" ", "::?et">>}
Described(name, tip, mark) == <<name>> \o mark \o tip
SpecRows ==
  LET Told(row, alias, mark) ==
        I!Typed(<<row>>,
          <<I!Line(<< <<I!Written(a, alias, IF mark = <<" ", "::e">> THEN <<"Event">> ELSE <<>>,
                                  IF mark = <<" ", "::?et">> THEN <<"Event", "Thing">> ELSE <<>>)>> >>,
                   <<>>)>>)
  IN  UNION {{Told(Described("a", tip, mark), I!NoName, mark),
              Told(<<"x", "::a", " ">> \o Described("a", tip, mark), x, mark),
              Told(Described("a", tip, mark) \o <<" ", "x", "::a">>, x, mark)} :
               tip \in {<<>>, <<" ", "quoted", " ", "::tip">>}, mark \in Marks}
BadSpecs ==
  {<<"a", "::e", "::c">>, <<"a", " ", "::t", " ", "::t">>, <<"a", " ", "::E">>, <<"::e">>, <<"empty">>,
   <<"[label]">>, <<"a", " ", "::?ee">>, <<"a", " ", "::?e">>, <<"a", " ", "::?et", "x">>}

\* Rows that go on, comments among them, and those that go with a comment.
Passages ==
  LET arrow == <<I!Line(<< <<Plain(a)>>, <<Plain(b)>> >>, <<I!Arrow("fwd", "inferred")>>)>>
  IN  {I!Typed(<< <<"a", " ", "-", "-", ">">>, <<" ", " ", "#", " ", "x">>, <<" ", " ", "b">> >>, arrow),
       I!Typed(<< <<"#", " ", "x">>, <<" ", " ", "a", " ", "::c">>, <<"a", "-", "-", ">", "b">> >>, arrow),
       I!Typed(<< <<>>, <<" ", " ", "a", "-", "-", ">", "b", " ", "#">>, <<>> >>, arrow),
       I!Typed(<< <<"a", ",", " ", "b", ",">> >>, <<I!Line(<< <<Plain(a), Plain(b)>> >>, <<>>)>>),
       I!Typed(<< <<"a", "-", "-", ">", "b", "<", "-", "-", "x">> >>,
         <<I!Line(<< <<Plain(a)>>, <<Plain(b)>>, <<Plain(x)>> >>,
                  <<I!Arrow("fwd", "inferred"), I!Arrow("rev", "inferred")>>)>>)}

TypedRows ==
  {I!Typed(<<Between(form.say, s1, s2)>>, Meant(form)) : form \in Forms, s1, s2 \in Spaces}
    \cup {I!Typed(<<Between(say, s, s)>>, Refused) : say \in Refusals, s \in Spaces}
    \cup {I!Typed(<<Between(say, s, s)>>, Open) :
             say \in UNION {NearMisses(form.say) : form \in Forms}, s \in Spaces}
    \cup SpecRows \cup {I!Typed(<<row>>, Refused) : row \in BadSpecs} \cup Passages

-----------------------------------------------------------------------------

MCSeeds ==
  {Empty(ks) : ks \in {<<"E", "E", "T", "T">>, <<"T", "E", "C", "E">>, <<"E", "T", "C", "C">>,
                       <<"E", "E", "E", "T">>, <<"T", "T", "C", "T">>, <<"C", "E", "T", "E">>,
                       <<"E", "T", "T", "T">>, <<"E", "E", "E", "E">>}}
    \cup {<<written, 0>> : written \in Texts}
    \cup {<<<<I!Line(<< <<Marked(a, "Event"), Marked(b, "Event")>> >>, <<>>), typed>>, 0>> :
             typed \in TypedRows}
    \cup {Grid, Lift, Chain, Shared, Satellites, Scatter}
=============================================================================
