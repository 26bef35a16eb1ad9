------------------------------ MODULE RuleText ------------------------------
(* Reading the rules of a layout corpus (pkg/dsltorules/parser.go,           *)
(* pattern_parser.go, scope.go; pkg/tagexpr).  A line is a sequence of       *)
(* tokens, what stands between blanks; a token is a sequence of lexemes:     *)
(* words, names, numerals and the marks # @ , = >= ( ) $ ~ and the like.     *)
(* Decimal fractions are written in hundredths.  A line that is no rule      *)
(* reads as Refused.                                                         *)
EXTENDS LayoutRules

Refused == [kind |-> "refused"]
If(cond, rule) == IF cond THEN rule ELSE Refused

MaxNumeral == 200
Numerals == {ToString(n) : n \in 0 .. MaxNumeral}
IntOf == [s \in Numerals |-> CHOOSE n \in 0 .. MaxNumeral : ToString(n) = s]
IsNumber(lexemes) == Len(lexemes) = 1 /\ lexemes[1] \in Numerals
Number(lexemes) == IntOf[lexemes[1]]

(* A name is one lexeme; anything longer is a name that nothing has.         *)
NameIn(lexemes) == CASE Len(lexemes) = 0 -> "" [] Len(lexemes) = 1 -> lexemes[1]
                     [] OTHER -> "?"

Rest(seq, n) == SubSeq(seq, n, Len(seq))
Starts(seq, prefix) == IsPrefix(prefix, seq)
Find(seq, sub) == {i \in Index(seq) : Starts(Rest(seq, i), sub)}
FirstAt(seq, sub) == Min(Find(seq, sub))
Trim(seq) == LET words == {i \in Index(seq) : seq[i] # " "}
             IN  IF words = {} THEN <<>> ELSE SubSeq(seq, Min(words), Max(words))
Split(seq, mark) ==
  FoldLeft(LAMBDA parts, x : IF x = mark THEN Append(parts, <<>>)
                             ELSE [parts EXCEPT ![Len(parts)] = Append(@, x)],
           <<<<>>>>, seq)
Joined(tokens) == FoldLeft(LAMBDA text, t : IF text = <<>> THEN t ELSE text \o <<" ">> \o t,
                           <<>>, tokens)
-----------------------------------------------------------------------------
(* parseEdgeEndpoint and parseEdgeEndpointPair.                              *)
IsEndpoint(lexemes) == Len(lexemes) >= 1 /\ lexemes[1] \in {"#", "@"}
Pair(tokens) == Split(FlattenSeq(tokens), ",")
IsPair(tokens) == LET p == Pair(tokens) IN Len(p) = 2 /\ IsEndpoint(p[1]) /\ IsEndpoint(p[2])
EndName(tokens, k) == NameIn(Rest(Pair(tokens)[k], 2))

(* parseTypeSpec and parseTextLengthCondition.                               *)
IsType(t) == Starts(t, <<"type", "=">>)
IsTextLen(t) == /\ Len(t) = 3 /\ t[1] = "text-len" /\ t[2] \in {">=", "<=", ">", "<", "="}
                /\ t[3] \in Numerals
TypeSelector(t) == [sel |-> "type", type |-> NameIn(Rest(t, 3))]
Compound(t, c) == [sel |-> "compound", type |-> NameIn(Rest(t, 3)), op |-> c[2],
                   len |-> IntOf[c[3]]]

(* parseSelector: None when it is refused; what follows an id, a first or a  *)
(* text condition is not looked at.                                          *)
ParseSelector(tokens) ==
  LET ids == Split(FlattenSeq(Tail(tokens)), ",")
      first == tokens[1]
  IN  CASE tokens = <<>> -> None
        [] first = <<"each">> ->
             IF Len(tokens) < 2 \/ ~ IsType(tokens[2]) THEN None
             ELSE IF Len(tokens) = 2 THEN TypeSelector(tokens[2])
             ELSE IF IsTextLen(tokens[3]) THEN Compound(tokens[2], tokens[3]) ELSE None
        [] first = <<"all">> ->
             IF Len(tokens) = 1 THEN [sel |-> "all"]
             ELSE IF \A i \in Index(ids) : ids[i] # <<>> /\ ids[i][1] = "#"
                  THEN [sel |-> "multi", ids |-> [i \in Index(ids) |-> NameIn(Rest(ids[i], 2))]]
                  ELSE None
        [] first = <<"first">> ->
             IF Len(tokens) < 2 \/ ~ IsType(tokens[2]) THEN None
             ELSE [sel |-> "first", type |-> NameIn(Rest(tokens[2], 3))]
        [] OTHER -> IF Starts(first, <<"#">>) THEN [sel |-> "id", id |-> NameIn(Rest(first, 2))]
                    ELSE None
-----------------------------------------------------------------------------
Sides == {"top", "bottom", "left", "right"}
Directions == {"above", "below", "left-of", "right-of"}

(* parseEdgeHasAssertion.                                                    *)
ParseEdgeHas(from, to, tokens) ==
  LET spec == Joined(tokens)
      value == Rest(spec, 3)
      what == IF Len(spec) >= 2 /\ spec[2] = "=" THEN spec[1] ELSE ""
      n == Number(value)
      Rule(kind) == [kind |-> kind, from |-> from, to |-> to]
      End == IF what \in {"source-side", "source-position"} THEN "source" ELSE "target"
  IN  CASE what = "visibility" -> If(NameIn(value) \in {"visible", "stubbed"},
                                     Rule("visibility") @@ [want |-> NameIn(value)])
        [] what = "min-slope"  -> If(IsNumber(value) /\ n > 0, Rule("min-slope") @@ [slope |-> n])
        [] what = "min-corner-angle" -> If(IsNumber(value) /\ n \in 1 .. 180,
                                           Rule("min-corner") @@ [angle |-> n])
        [] what = "max-len"    -> If(IsNumber(value) /\ n > 0, Rule("max-len") @@ [max |-> n])
        [] what = "max-bends"  -> If(IsNumber(value), Rule("max-bends") @@ [max |-> n])
        [] what = "type"       -> If(value # <<>>, Rule("edge-type") @@ [want |-> NameIn(value)])
        [] what \in {"source-side", "target-side"} ->
             If(NameIn(value) \in Sides, Rule("side") @@ [end |-> End, want |-> NameIn(value)])
        [] what \in {"source-position", "target-position"} ->
             If(IsNumber(value) /\ n <= 100, Rule("at-fraction") @@ [end |-> End, want |-> n])
        [] OTHER -> Refused

(* parseEdgeDoesAssertion.                                                   *)
ParseEdgeDoes(from, to, tokens) ==
  LET below == Starts(tokens, <<<<"enter-below">>, <<"edge">>>>)
      clear == Starts(tokens, <<<<"not">>, <<"cross">>, <<"edge">>>>)
      pair == Rest(tokens, IF below THEN 3 ELSE 4)
  IN  If((below \/ clear) /\ IsPair(pair),
         [kind |-> IF below THEN "enter-below" ELSE "no-cross", from |-> from, to |-> to,
          from2 |-> EndName(pair, 1), to2 |-> EndName(pair, 2)])

(* parseEdgeRule.                                                            *)
ParseEdgeRule(tokens) ==
  LET verbs == {i \in 3 .. Len(tokens) : tokens[i] \in {<<"has">>, <<"does">>, <<"is">>}}
      pair == SubSeq(tokens, 2, Min(verbs) - 1)
      from == EndName(pair, 1)
      to == EndName(pair, 2)
      tail == Rest(tokens, Min(verbs) + 1)
  IN  IF Len(tokens) < 4 \/ verbs = {} \/ ~ IsPair(pair) THEN Refused
      ELSE CASE tokens[Min(verbs)] = <<"has">>  -> ParseEdgeHas(from, to, tail)
             [] tokens[Min(verbs)] = <<"does">> -> ParseEdgeDoes(from, to, tail)
             [] tokens[Min(verbs)] = <<"is">>   ->
                  If(Len(tail) = 1 /\ tail[1] \in {<<"horizontal">>, <<"vertical">>},
                     [kind |-> "straight", from |-> from, to |-> to, axis |-> tail[1][1]])

(* parseEachEdgeRule.                                                        *)
ParseEachEdge(tokens) ==
  LET except == Rest(tokens, 6)
  IN  If(/\ Len(tokens) >= 4 /\ tokens[3] = <<"has">>
         /\ Starts(tokens[4], <<"max-bends", "=">>) /\ IsNumber(Rest(tokens[4], 3))
         /\ Len(tokens) > 4 => tokens[5] = <<"except">> /\ except # <<>>
         /\ \A i \in Index(except) : IsPair(<<except[i]>>),
         [kind |-> "each-edge", max |-> Number(Rest(tokens[4], 3)),
          except |-> [i \in Index(except) |-> <<EndName(<<except[i]>>, 1),
                                                EndName(<<except[i]>>, 2)>>]])

(* parseNodeRule.                                                            *)
ParseNodeRule(tokens) ==
  LET keeps == /\ Len(tokens) >= 7 /\ tokens[3] = <<"keeps">>
               /\ Starts(tokens[4], <<"gap", "=">>)
               /\ tokens[5] = <<"from">> /\ tokens[6] = <<"edge">>
      clear == /\ Len(tokens) >= 7
               /\ SubSeq(tokens, 3, 6) = <<<<"does">>, <<"not">>, <<"straddle">>, <<"edge">>>>
      gap == Rest(tokens[4], 3)
      pair == Rest(tokens, 7)
      rule == [node |-> NameIn(Rest(tokens[2], 2)), from |-> EndName(pair, 1),
               to |-> EndName(pair, 2)]
  IN  If((keeps \/ clear) /\ IsEndpoint(tokens[2]) /\ IsPair(pair),
         IF keeps THEN If(IsNumber(gap) /\ Number(gap) > 0,
                          rule @@ [kind |-> "edge-gap", gap |-> Number(gap)])
         ELSE rule @@ [kind |-> "no-straddle"])
-----------------------------------------------------------------------------
(* parseHasAssertion.                                                        *)
ParseHas(sel, tokens) ==
  LET spec == Joined(tokens)
      size == Split(Rest(spec, 3), "x")
      at == FirstAt(spec, <<">=">>)
      prop == NameIn(Trim(SubSeq(spec, 1, at - 1)))
      value == Trim(Rest(spec, at + 1))
      eq == FirstAt(spec, <<"=">>)
      names == Split(Rest(spec, 3), ",")
      AtLeast(kind) == [kind |-> kind, sel |-> sel, min |-> Number(value)]
  IN  CASE tokens = <<>> -> Refused
        [] tokens # <<>> /\ Starts(spec, <<"size", "=">>) ->
             If(Len(size) = 2 /\ IsNumber(size[1]) /\ IsNumber(size[2]),
                [kind |-> "size", sel |-> sel, w |-> Number(size[1]), h |-> Number(size[2])])
        [] OTHER ->
             IF Find(spec, <<">=">>) # {}
             THEN IF ~ IsNumber(value) THEN Refused
                  ELSE CASE prop = "height" -> AtLeast("min-height")
                         [] prop = "width"  -> AtLeast("min-width")
                         [] prop = "min-gap-to-others" -> AtLeast("min-gap")
                         [] prop \in {"x", "y", "center-x", "center-y"} ->
                              AtLeast("min-at") @@ [prop |-> prop]
                         [] OTHER -> Refused
             ELSE IF Find(spec, <<"=">>) # {}
             THEN [kind |-> "property", sel |-> sel, prop |-> NameIn(SubSeq(spec, 1, eq - 1)),
                   want |-> NameIn(Rest(spec, eq + 1))]
             ELSE If(Starts(spec, <<"implicit-boundaries", " ">>),
                     [kind |-> "boundaries",
                      names |-> [i \in Index(names) |-> NameIn(Trim(names[i]))]])

(* parseIsAssertion: a gap is only read behind "with".                       *)
ParseIs(sel, tokens) ==
  LET between == [v |-> <<"vertically-centered-between">>,
                  h |-> <<"horizontally-centered-between">>]
      pair == Tail(tokens)
      hasGap == /\ Len(tokens) >= 4 /\ tokens[3] = <<"with">>
                /\ Starts(tokens[4], <<"gap", "=">>)
      gap == Rest(tokens[4], 3)
  IN  IF Len(tokens) = 2 /\ tokens[1] \in {between.v, between.h}
      THEN If(IsPair(pair), [kind |-> IF tokens[1] = between.v THEN "v-between" ELSE "h-between",
                             sel |-> sel, a |-> EndName(pair, 1), b |-> EndName(pair, 2)])
      ELSE If(/\ Len(tokens) >= 2 /\ NameIn(tokens[1]) \in Directions
              /\ hasGap => IsNumber(gap)
              /\ Starts(tokens[2], <<"#">>),
              [kind |-> "at", sel |-> sel, direction |-> NameIn(tokens[1]),
               target |-> NameIn(Rest(tokens[2], 2)),
               gap |-> IF hasGap THEN Number(gap) ELSE 0])

(* parseAssertion and parseHaveAssertion.                                    *)
ParseAssertion(sel, tokens) ==
  CASE tokens[1] = <<"has">>  -> ParseHas(sel, Tail(tokens))
    [] tokens[1] = <<"have">> -> If(Len(tokens) >= 3 /\ tokens[2] = <<"same">>,
                                    [kind |-> "same", sel |-> sel, prop |-> NameIn(tokens[3])])
    [] tokens[1] = <<"is">>   -> ParseIs(sel, Tail(tokens))
-----------------------------------------------------------------------------
(* Patterns are read from the text of the line, not from its tokens.         *)
EdgeTypeShortcut == ("L" :> "leadsto") @@ ("P" :> "partof") @@ ("X" :> "express")
                      @@ ("N" :> "neutral")

(* parseVariableSelector: what follows the text condition is not looked at.  *)
ParseVariableSelector(text) ==
  LET fields == SelectSeq(Split(text, " "), LAMBDA t : t # <<>>)
  IN  IF fields = <<>> \/ ~ IsType(fields[1]) THEN Refused
      ELSE IF Len(fields) = 1 THEN TypeSelector(fields[1])
      ELSE IF IsTextLen(fields[2]) THEN Compound(fields[1], fields[2]) ELSE Refused

(* parsePatternVariable: the selector reaches to the last parenthesis.       *)
ParseVariable(text) ==
  LET var == Trim(text)
      opens == {i \in Index(var) : var[i] = "("}
      closes == {i \in Index(var) : var[i] = ")"}
      name == SubSeq(var, 2, IF opens = {} THEN Len(var) ELSE Min(opens) - 1)
      selector == ParseVariableSelector(SubSeq(var, Min(opens) + 1, Max(closes) - 1))
  IN  IF var = <<>> \/ var[1] # "$" \/ name = <<>> THEN Refused
      ELSE IF opens = {} THEN [name |-> NameIn(name), sel |-> None]
      ELSE IF closes = {} \/ Max(closes) < Min(opens) \/ selector = Refused THEN Refused
      ELSE [name |-> NameIn(name), sel |-> selector]

(* splitPatternByEdges and parsePattern: of a variable written twice the     *)
(* first selector stays.                                                     *)
Chain(edges, vars) ==
  LET Written(name) == {k \in Index(vars) : vars[k].name = name}
  IN  If(/\ edges # <<>>
         /\ \A k \in Index(edges) : Len(edges[k]) = 1 /\ edges[k][1] \in DOMAIN EdgeTypeShortcut
         /\ \A k \in Index(vars) : vars[k] # Refused,
         [edges |-> [k \in Index(edges) |-> [from |-> vars[k].name, to |-> vars[k + 1].name,
                                            type |-> EdgeTypeShortcut[edges[k][1]]]],
          vars |-> [name \in {vars[k].name : k \in Index(vars)} |-> vars[Min(Written(name))].sel]])

ParsePattern(text) ==
  LET pieces == Split(text, "~")
      n == Len(pieces) \div 2
  IN  If(Len(pieces) = 2 * n + 1,
         Chain([k \in 1 .. n |-> pieces[2 * k]],
               [k \in 1 .. n + 1 |-> ParseVariable(pieces[2 * k - 1])]))

IsVar(pattern, text) == /\ Len(text) = 2 /\ text[1] = "$" /\ text[2] \in DOMAIN pattern.vars

(* parsePositionalPatternConstraint: of several directions the first of this *)
(* list is taken, what follows the number of a gap is not looked at.         *)
ParsePositional(pattern, text) ==
  LET named == SelectSeq(<<"right-of", "left-of", "below", "above">>,
                         LAMBDA d : d \in Members(text))
      at == FirstAt(text, <<named[1]>>)
      subject == Trim(SubSeq(text, 1, at - 1))
      rest == Trim(Rest(text, at + 1))
      with == Find(rest, <<" ", "with", " ">>)
      gap == Trim(Rest(rest, Min(with) + 3))
      target == IF with = {} THEN rest ELSE Trim(SubSeq(rest, 1, Min(with) - 1))
  IN  If(/\ IsVar(pattern, subject) /\ IsVar(pattern, target)
         /\ with # {} => /\ Starts(gap, <<"gap", "=">>) /\ Len(gap) >= 3
                         /\ gap[3] \in Numerals,
         [kind |-> "at", var |-> subject[2], direction |-> named[1], target |-> target[2],
          gap |-> IF with = {} THEN 0 ELSE IntOf[gap[3]]])

(* parseAlignmentPatternConstraint and parsePropertyPatternConstraint: the   *)
(* property is all that stands before the first =.                           *)
ParseConstraint(pattern, text) ==
  LET same == FirstAt(text, <<"same", " ">>)
      names == Split(Trim(SubSeq(text, 1, same - 1)), ",")
      field == Split(Trim(text), " ")[1]
      wanted == Trim(Rest(Trim(text), Len(field) + 1))
      eq == FirstAt(wanted, <<"=">>)
  IN  IF Members(text) \cap Directions # {} THEN ParsePositional(pattern, text)
      ELSE IF Find(text, <<"same", " ">>) # {}
      THEN If(/\ Len(names) >= 2
              /\ \A i \in Index(names) : IsVar(pattern, Trim(names[i])),
              [kind |-> "same", names |-> [i \in Index(names) |-> Trim(names[i])[2]],
               prop |-> NameIn(Trim(Rest(text, same + 2)))])
      ELSE If(/\ Find(text, <<" ", "type", "=">>) # {} /\ IsVar(pattern, field),
              [kind |-> "property", var |-> field[2],
               prop |-> NameIn(SubSeq(wanted, 1, eq - 1)), want |-> NameIn(Rest(wanted, eq + 1))])

(* parsePatternRule.                                                         *)
PatternRule(pattern, constraint) ==
  If(pattern # Refused /\ constraint # Refused,
     [kind |-> "pattern", pattern |-> pattern, constraint |-> constraint])

Constrained(pattern, text) ==
  IF pattern = Refused THEN Refused ELSE PatternRule(pattern, ParseConstraint(pattern, text))

ParsePatternRule(text) ==
  LET has == Find(text, <<" ", "has", " ">>)
  IN  If(has # {}, Constrained(ParsePattern(Trim(SubSeq(text, 2, Min(has) - 1))),
                               Trim(Rest(text, Min(has) + 3))))

(* Parse.                                                                    *)
Parse(tokens) ==
  LET text == Joined(tokens)
      verbs == {i \in Index(tokens) : tokens[i] \in {<<"has">>, <<"have">>, <<"is">>}}
      sel == ParseSelector(SubSeq(tokens, 1, Min(verbs) - 1))
      pair == Rest(tokens, 3)
  IN  CASE Len(tokens) < 3 -> Refused
        [] OTHER ->
             CASE tokens[1] = <<"each">> /\ {"$", "~"} \subseteq Members(text) ->
                    ParsePatternRule(text)
               [] OTHER ->
                    CASE tokens[1] = <<"each">> /\ tokens[2] = <<"edge">> -> ParseEachEdge(tokens)
                      [] tokens[1] = <<"edge">> -> ParseEdgeRule(tokens)
                      [] tokens[1] = <<"node">> -> ParseNodeRule(tokens)
                      [] tokens[1] = <<"no">> /\ Len(tokens) = 3 /\ tokens[2] = <<"edge">> ->
                           If(IsPair(pair), [kind |-> "no-edge", from |-> EndName(pair, 1),
                                             to |-> EndName(pair, 2)])
                      [] OTHER -> IF verbs = {} \/ sel = None THEN Refused
                                  ELSE ParseAssertion(sel, Rest(tokens, Min(verbs)))
-----------------------------------------------------------------------------
(* tagexpr.Eval: ! binds before &&, && before ||.  What is left of the text  *)
(* comes with the value; an expression that does not parse is None.          *)
IsTag(word) == word \notin {"!", "(", ")", "&&", "||"}

RECURSIVE TagTerms(_, _, _)
TagPrimary(text, tags) ==
  LET inner == TagTerms("||", Tail(text), tags)
  IN  CASE text = <<>> -> None
        [] OTHER ->
             IF text[1] = "("
             THEN IF inner = None THEN None
                  ELSE IF inner.left = <<>> \/ inner.left[1] # ")" THEN None
                  ELSE [inner EXCEPT !.left = Tail(@)]
             ELSE IF IsTag(text[1]) THEN [value |-> text[1] \in tags, left |-> Tail(text)]
             ELSE None

TagNot(text, tags) ==
  LET r == TagPrimary(IF text # <<>> /\ text[1] = "!" THEN Tail(text) ELSE text, tags)
  IN  IF r = None \/ text[1] # "!" THEN r ELSE [r EXCEPT !.value = ~ @]

(* parseOr and parseAnd: terms of op, from left to right.                    *)
RECURSIVE TagMore(_, _, _)
TagOperand(op, text, tags) == IF op = "||" THEN TagTerms("&&", text, tags) ELSE TagNot(text, tags)

TagMore(op, r, tags) ==
  IF r = None THEN None
  ELSE IF r.left = <<>> \/ r.left[1] # op THEN r
  ELSE LET next == TagOperand(op, Tail(r.left), tags)
       IN  IF next = None THEN None
           ELSE TagMore(op, [next EXCEPT !.value = IF op = "&&" THEN @ /\ r.value
                                                   ELSE @ \/ r.value], tags)

TagTerms(op, text, tags) == TagMore(op, TagOperand(op, text, tags), tags)

TagEval(text, tags) ==
  LET r == TagTerms("||", SelectSeq(text, LAMBDA x : x # " "), tags)
  IN  IF r = None THEN None ELSE IF r.left # <<>> THEN None ELSE <<r.value>>

(* ParseScope: the expression is only kept, not yet read.                    *)
ParseScope(tokens) ==
  LET marks == {i \in 3 .. Len(tokens) : tokens[i][1] = "tags:"}
      expr == Joined(<<Tail(tokens[Min(marks)])>> \o Rest(tokens, Min(marks) + 1))
      base == IF marks = {} THEN Rest(tokens, 2) ELSE SubSeq(tokens, 2, Min(marks) - 1)
  IN  IF \/ Len(tokens) < 2 \/ tokens[1] # <<"@scope">>
         \/ base \notin {<<<<"global">>>>, <<<<"parent">>>>, <<<<"local">>>>}
         \/ marks # {} /\ Trim(expr) = <<>>
      THEN Refused
      ELSE [kind |-> "scope", type |-> base[1][1],
            tags |-> IF marks = {} THEN None ELSE Trim(expr)]
=============================================================================
