---------------------------- MODULE MCLayoutTests ----------------------------
(* The layout tests on a small document and on small drawings.  A state is   *)
(* about one of the two: a book, whose canvas is None, or a canvas, which    *)
(* has no items.                                                             *)
EXTENDS RuleBook, Canvas, LayoutDiff

Node(id, type, alias, len, x, y, h, shell) ==
  [id |-> id, type |-> type, label |-> id, alias |-> alias, len |-> len,
   x |-> x, y |-> y, w |-> 60, h |-> h, shell |-> shell]
Port(side, pos) == [side |-> side, pos |-> pos]
Routed(source, target, bends, stubs) ==
  [source |-> source, target |-> target, bends |-> bends,
   sourceStub |-> stubs[1], targetStub |-> stubs[2]]
NoStubs == <<<<>>, <<>>>>
Edge(from, to, base, vis, route) ==
  [from |-> from, to |-> to, base |-> base, vis |-> vis, deferred |-> FALSE, route |-> route,
   fromPort |-> None, toPort |-> None]
Drawing(nodes, edges) == [nodes |-> nodes, edges |-> edges, bounds |-> <<200, 200>>]
-----------------------------------------------------------------------------
(* The document: case Fork, case Join and a second case Fork in another      *)
(* section, with preambles and a heading "rules" between them.               *)
DocCases == <<
  [line |-> 10, heading |-> "Fork", section |-> "Flows", tags |-> {"x"}],
  [line |-> 20, heading |-> "Join", section |-> "Flows", tags |-> {}],
  [line |-> 30, heading |-> "Fork", section |-> "Ties",  tags |-> {"x", "y"}]>>
DocPlaces == (4 :> <<"", "Flows">>) @@ (12 :> <<"Fork", "Flows">>) @@ (14 :> <<"Fork", "Flows">>)
               @@ (22 :> <<"Join", "Flows">>) @@ (24 :> <<"rules", "Flows">>)
               @@ (26 :> <<"", "Ties">>) @@ (32 :> <<"Fork", "Ties">>)
DocLines == DOMAIN DocPlaces
DocPlaceOf(line) == [heading |-> DocPlaces[line][1], section |-> DocPlaces[line][2]]

(* What the engine draws: at first b below a and c to their right; then with *)
(* a higher and lower down, b aside and the tie c--b hidden; then with c on  *)
(* the line a-->b and no tie.  In the case Join b is higher.                 *)
DocDrawing(version, i) ==
  LET hb == IF i = 2 THEN 80 ELSE 60
      Nodes(a, b, c) == <<Node("a", "event", "", 12, 0, a[1], a[2], FALSE),
                          Node("b", "event", "", b[1], b[2], 120, hb, FALSE),
                          Node("c", "thing", "k", c[1], c[2], c[3], 60, FALSE)>>
      Mid(side) == Port(side, 50)
      Flow(at) == Edge("a", "b", "leadsto", "", Routed(Port("bottom", at), Mid("top"), <<>>, NoStubs))
      Tie(vis) == Edge("c", "b", "partof", vis, Routed(Mid("left"), Mid("right"), <<>>, NoStubs))
      Back(source, target, bends) ==
        Edge("c", "a", "neutral", "", Routed(Mid(source), Mid(target), bends, NoStubs))
  IN  CASE version = 1 -> Drawing(Nodes(<<0, 60>>, <<5, 0>>, <<20, 100, 120>>),
                                  <<Flow(50), Tie(""), Back("top", "right", <<>>)>>)
        [] version = 2 -> Drawing(Nodes(<<10, 80>>, <<5, 40>>, <<5, 140, 130>>),
                                  <<Flow(50), Tie("stubbed"),
                                    Back("top", "top", <<<<170, 100>>, <<120, 40>>>>)>>)
        [] version = 3 -> Drawing(Nodes(<<0, 40>>, <<20, 0>>, <<20, 10, 70>>),
                                  <<Flow(25), Back("left", "right", <<<<90, 70>>>>)>>)
-----------------------------------------------------------------------------
(* The scopes and the rules an author writes, by the names the reference     *)
(* below knows them by.                                                      *)
Scopes ==
  LET At(words) == <<<<"@scope">>>> \o words
  IN  [none   |-> <<>>,
       local  |-> At(<<<<"local">>>>),
       parent |-> At(<<<<"parent">>, <<"tags:", "x">>, <<"&&">>, <<"!", "y">>>>),
       global |-> At(<<<<"global">>>>),
       never  |-> At(<<<<"global">>, <<"tags:", "x">>, <<"||">>>>),
       wrong  |-> At(<<<<"here">>>>)]

EachEvent == <<<<"each">>, <<"type", "=", "event">>>>
Has1(lexemes) == <<<<"has">>, lexemes>>
OfEdge(from, to) == <<<<"edge">>, <<"#", from, ",", "#", to>>>>
ToWhole == OfEdge("k", "b")
AlongFlow == OfEdge("a", "b")
BackTie == OfEdge("k", "a")
AllOf == <<<<"all">>, <<"#", "a", ",", "#", "b">>>>

Texts ==
  [ev60   |-> EachEvent \o Has1(<<"height", ">=", "60">>),
   long80 |-> EachEvent \o <<<<"text-len", ">=", "10">>>> \o Has1(<<"height", ">=", "80">>),
   a80    |-> <<<<"#", "a">>>> \o Has1(<<"height", ">=", "80">>),
   a60    |-> <<<<"#", "a">>>> \o Has1(<<"height", ">=", "60">>),
   flows  |-> <<<<"each">>, <<"$", "s">>, <<"~", "L", "~">>,
                <<"$", "t", "(", "type", "=", "event", ")">>, <<"has">>,
                <<"$", "t">>, <<"below">>, <<"$", "s">>, <<"with">>, <<"gap", "=", "60">>>>,
   bad    |-> <<<<"each">>, <<"kind">>>> \o Has1(<<"height", ">=", "60">>)]

OneTexts ==
  [size     |-> EachEvent \o Has1(<<"size", "=", "60", "x", "60">>),
   typed    |-> <<<<"#", "k">>>> \o Has1(<<"type", "=", "thing">>),
   twoHigh  |-> AllOf \o <<<<"have">>, <<"same">>, <<"height">>>>,
   allHigh  |-> <<<<"all">>>> \o <<<<"have">>, <<"same">>, <<"width">>>>,
   firstY   |-> <<<<"first">>, <<"type", "=", "event">>>> \o Has1(<<"y", ">=", "10">>),
   wide     |-> AllOf \o Has1(<<"width", ">=", "61">>),
   under    |-> <<<<"#", "b">>, <<"is">>, <<"below">>, <<"#", "a">>, <<"with">>, <<"gap", "=", "60">>>>,
   beside   |-> <<<<"#", "k">>, <<"is">>, <<"right-of">>, <<"#", "b">>, <<"with">>, <<"gap", "=", "40">>>>,
   between  |-> <<<<"#", "k">>, <<"is">>, <<"vertically-centered-between">>, <<"#", "a", ",", "#", "b">>>>,
   across   |-> <<<<"#", "a">>, <<"is">>, <<"horizontally-centered-between">>, <<"#", "b", ",", "#", "k">>>>,
   longer   |-> EachEvent \o <<<<"text-len", ">", "15">>>> \o Has1(<<"height", ">=", "10">>),
   gapped   |-> EachEvent \o Has1(<<"min-gap-to-others", ">=", "40">>),
   bounds   |-> <<<<"all">>>> \o <<<<"has">>, <<"implicit-boundaries">>, <<"a", ",", "S">>>>,
   edgeType |-> ToWhole \o Has1(<<"type", "=", "partof">>),
   leaves   |-> BackTie \o Has1(<<"target-side", "=", "right">>),
   atHalf   |-> AlongFlow \o Has1(<<"source-position", "=", "50">>),
   apart    |-> AlongFlow \o <<<<"does">>, <<"not">>, <<"cross">>, <<"edge">>, <<"#", "k", ",", "#", "a">>>>,
   steep    |-> AlongFlow \o Has1(<<"min-slope", "=", "200">>),
   open     |-> BackTie \o Has1(<<"min-corner-angle", "=", "90">>),
   short    |-> AlongFlow \o Has1(<<"max-len", "=", "58">>),
   onceBent |-> BackTie \o Has1(<<"max-bends", "=", "1">>),
   upright  |-> AlongFlow \o <<<<"is">>, <<"vertical">>>>,
   shown    |-> ToWhole \o Has1(<<"visibility", "=", "visible">>),
   enters   |-> ToWhole \o <<<<"does">>, <<"enter-below">>, <<"edge">>, <<"#", "a", ",", "#", "b">>>>,
   clear    |-> <<<<"node">>, <<"#", "k">>, <<"does">>, <<"not">>, <<"straddle">>, <<"edge">>,
                  <<"#", "a", ",", "#", "b">>>>,
   distant  |-> <<<<"node">>, <<"#", "k">>, <<"keeps">>, <<"gap", "=", "10">>, <<"from">>, <<"edge">>,
                  <<"#", "a", ",", "#", "b">>>>,
   eachEdge |-> <<<<"each">>, <<"edge">>>> \o Has1(<<"max-bends", "=", "0">>)
                  \o <<<<"except">>, <<"#", "k", ",", "#", "b">>>>,
   noEdge   |-> <<<<"no">>, <<"edge">>, <<"#", "k", ",", "#", "b">>>>,
   pairs    |-> <<<<"each">>, <<"$", "s">>, <<"~", "N", "~">>, <<"$", "t">>, <<"~", "L", "~">>,
                  <<"$", "u">>, <<"has">>, <<"$", "s", ",", "$", "u">>, <<"same">>, <<"y">>>>,
   sameTop  |-> <<<<"each">>, <<"$", "s">>, <<"~", "P", "~">>, <<"$", "t">>, <<"has">>,
                  <<"$", "s", ",", "$", "t">>, <<"same">>, <<"y">>>>,
   kinds    |-> <<<<"each">>, <<"$", "s">>, <<"~", "P", "~">>, <<"$", "t">>, <<"has">>,
                  <<"$", "t">>, <<"type", "=", "event">>>>]

AllTexts == Texts @@ OneTexts

(* What may stand at a line: the first rules under several scopes or under   *)
(* none, and after the heading of the first case each one of the others.     *)
DocContents(line) ==
  LET Of(scopes, texts) == {[scope |-> Scopes[s], text |-> Texts[t]] : s \in scopes, t \in texts}
  IN  Of({"none", "local", "parent", "global"}, {"ev60", "a80"})
        \cup Of({"none", "parent"}, {"long80", "a60"})
        \cup Of({"none", "local"}, {"flows", "bad"})
        \cup Of({"never", "wrong"}, {"ev60"})
        \cup (IF line # 12 THEN {}
              ELSE {[scope |-> Scopes.global, text |-> OneTexts[t]] : t \in DOMAIN OneTexts})
-----------------------------------------------------------------------------
(* What the rules say, read off the drawing itself.                          *)

(* The segment and the closed box have more than one point in common: their  *)
(* extents overlap and the corners of the box are not all on one side.       *)
Meets(s, lo, hi) ==
  LET Low(k) == Lesser(s[1][k], s[2][k])
      High(k) == Greater(s[1][k], s[2][k])
      sides == {Orient(s[1], s[2], <<x, y>>) : x \in {lo[1], hi[1]}, y \in {lo[2], hi[2]}}
      inside == \A k \in {1, 2} : Low(k) < hi[k] /\ lo[k] < High(k)
      level == \E k \in {1, 2} : /\ Low(k) = High(k) /\ lo[k] <= Low(k) /\ Low(k) <= hi[k]
                                 /\ Low(3 - k) < hi[3 - k] /\ lo[3 - k] < High(3 - k)
      point == s[1] = s[2] /\ \A k \in {1, 2} : lo[k] <= s[1][k] /\ s[1][k] <= hi[k]
  IN  \/ point \/ level
      \/ inside /\ (\E a \in sides : a < 0) /\ (\E a \in sides : a > 0)

MeetsGrown(points, n, m) ==
  \E i \in 1 .. Len(points) - 1 :
    Meets(<<points[i], points[i + 1]>>, <<n.x - m, n.y - m>>, <<n.x + n.w + m, n.y + n.h + m>>)

(* The lines through s and t meet inside both.                               *)
Cut(s, t) ==
  LET d(u) == <<u[2][1] - u[1][1], u[2][2] - u[1][2]>>
      Det(u, v) == u[1] * v[2] - u[2] * v[1]
      det == Det(d(s), d(t))
      between == <<t[1][1] - s[1][1], t[1][2] - s[1][2]>>
      Inside(num) == IF det > 0 THEN 0 < num /\ num < det ELSE det < num /\ num < 0
  IN  det # 0 /\ Inside(Det(between, d(t))) /\ Inside(Det(between, d(s)))

CutPaths(p, q) == \E i \in 1 .. Len(p) - 1, j \in 1 .. Len(q) - 1 :
                    Cut(<<p[i], p[i + 1]>>, <<q[j], q[j + 1]>>)

SaysOf(rule, g, flow, back) ==
  LET N(id) == NodeOf(g, id)
      events == {n \in Members(g.nodes) : n.type = "event"}
      long == {n \in events : n.len >= 10}
      Of(base) == {e \in Members(g.edges) : e.base = base}
      slant == <<Abs(flow[2][1] - flow[1][1]), Abs(flow[2][2] - flow[1][2])>>
      Mid(n) == <<n.x + 30, n.y + n.h \div 2>>
      Near(n, m) ==
        LET gaps == {m.x - n.x - 60, n.x - m.x - 60, m.y - n.y - n.h, n.y - m.y - m.h}
        IN  (\A d \in gaps : d < 40) \/ (\E d \in gaps : d \in 0 .. 39)
      Far(n, m) == \E d \in {m.x - n.x - 60, n.x - m.x - 60, m.y - n.y - n.h, n.y - m.y - m.h} : d >= 200
  IN  CASE rule = "ev60"     -> \A n \in events : n.h >= 60
        [] rule = "long80"   -> long # {} /\ \A n \in long : n.h >= 80
        [] rule = "a80"      -> N("a").h >= 80
        [] rule = "a60"      -> N("a").h >= 60
        [] rule \in {"flows", "under"} -> N("b").y = N("a").y + N("a").h + 60
        [] rule = "size"     -> \A n \in events : n.w = 60 /\ n.h = 60
        [] rule \in {"typed", "allHigh", "kinds"} -> TRUE
        [] rule = "twoHigh"  -> N("a").h = N("b").h
        [] rule \in {"wide", "bounds"} -> FALSE
        [] rule = "firstY"   -> N("a").y >= 10
        [] rule = "longer"   -> \E n \in events : n.len > 15
        [] rule = "leaves"   -> \A e \in Of("neutral") : e.route.target.side = "right"
        [] rule = "atHalf"   -> \A e \in Of("leadsto") : e.route.source.pos = 50
        [] rule = "beside"   -> N("c").x = N("b").x + 100
        [] rule = "between"  -> Abs(2 * Mid(N("c"))[2] - Mid(N("a"))[2] - Mid(N("b"))[2]) <= 20
        [] rule = "across"   -> Abs(2 * Mid(N("a"))[1] - Mid(N("b"))[1] - Mid(N("c"))[1]) <= 20
        [] rule = "gapped"   -> \A n \in events, m \in Members(g.nodes) : n = m \/ ~ Near(n, m) \/ Far(n, m)
        [] rule = "edgeType" -> Of("partof") # {}
        [] rule = "apart"    -> ~ CutPaths(flow, back)
        [] rule = "steep"    -> slant[2] >= 2 * slant[1]
        [] rule = "open"     -> \A i \in 2 .. Len(back) - 1 :
                                  (back[i - 1][1] - back[i][1]) * (back[i + 1][1] - back[i][1])
                                    + (back[i - 1][2] - back[i][2]) * (back[i + 1][2] - back[i][2]) <= 0
        [] rule = "short"    -> slant[1] * slant[1] + slant[2] * slant[2] <= 3364
        [] rule = "onceBent" -> Len(back) <= 3
        [] rule = "upright"  -> slant[1] <= 1
        [] rule = "shown"    -> \E e \in Of("partof") : e.vis # "stubbed"
        [] rule = "enters"   -> Of("partof") # {}
        [] rule = "clear"    -> ~ MeetsGrown(flow, N("c"), -2)
        [] rule = "distant"  -> ~ MeetsGrown(flow, N("c"), 10)
        [] rule = "eachEdge" -> Len(back) = 2
        [] rule = "noEdge"   -> Of("partof") = {}
        [] rule = "pairs"    -> N("c").y = N("b").y
        [] rule = "sameTop"  -> Of("partof") # {} => N("c").y = N("b").y

Says(rule, g) ==
  LET Path(base) == PathOf(g, CHOOSE e \in Members(g.edges) : e.base = base)
  IN  SaysOf(rule, g, Path("leadsto"), Path("neutral"))
-----------------------------------------------------------------------------
(* What the document declares.  An item has the scope of its own fence, and  *)
(* without one there it is local (docs/dev/layout-gen/dsl-reference.md:115). *)
NameOfRule(item) == CHOOSE t \in DOMAIN AllTexts : AllTexts[t] = item.text
NameOfScope(item) == CHOOSE t \in DOMAIN Scopes : Scopes[t] = item.scope
Weight == [global |-> 0, never |-> 1, parent |-> 3, local |-> 4, wrong |-> 9]
ReadAs(rule) == CASE rule \in {"ev60", "long80", "longer"} -> "height of events"
                  [] rule \in {"a60", "a80"} -> "height of a"
                  [] OTHER -> rule
Rank(rule) == IF rule \in {"long80", "longer"} THEN 11 ELSE 1

Unscoped(k) == items[k].scope = <<>>
ScopeOf(k) == IF Unscoped(k) THEN "local" ELSE NameOfScope(items[k])

Binds(k, case) ==
  CASE ScopeOf(k) = "global" -> TRUE
    [] ScopeOf(k) = "local"  -> items[k].heading = case.heading
    [] ScopeOf(k) = "parent" -> items[k].section = case.section /\ case.tags = {"x"}
    [] OTHER -> FALSE

(* The runner carries a scope on from fence to fence and starts with a       *)
(* global one, and a heading into the preamble of the next section.  Both    *)
(* come to what is declared where an item without a scope follows one that   *)
(* is local under the same heading, and a local one has a heading.           *)
ScopesAreTheirOwn ==
  \A k \in Index(items) :
    /\ ScopeOf(k) = "local" => items[k].heading # ""
    /\ Unscoped(k) => \E j \in 1 .. k - 1 :
                        /\ ~ Unscoped(j) /\ ScopeOf(j) = "local"
                        /\ items[j].heading = items[k].heading
                        /\ \A i \in j + 1 .. k - 1 : Unscoped(i)

(* A scope may not be wider than the one before it under the same heading;   *)
(* the heading "rules" and a preamble do not end what is under a heading.    *)
HeadingOf(k) == LET named == {j \in 1 .. k : items[j].heading # ""}
                IN  IF named = {} THEN "" ELSE items[Max(named)].heading

SameBlock(j, k) ==
  /\ items[j].section = items[k].section
  /\ \A i \in j + 1 .. k : items[i].heading \in {"", "rules", HeadingOf(j)}

Misordered(k) ==
  \E j \in 1 .. k - 1 : /\ ~ Unscoped(j) /\ ~ Unscoped(k) /\ SameBlock(j, k)
                        /\ \A i \in j + 1 .. k - 1 : Unscoped(i)
                        /\ Weight[ScopeOf(k)] < Weight[ScopeOf(j)]

Faulty(k) == ScopeOf(k) = "wrong" \/ Misordered(k) \/ items[k].text = Texts.bad

(* The lines of the rules a case fails; of two that read as one only the     *)
(* stronger counts: by scope, then by selector, then the later.              *)
Declares(i, version) ==
  LET reach == {k \in Index(items) : i = Len(Cases) \/ items[k].line < Cases[i + 1].line}
      bound == {k \in reach : Binds(k, Cases[i])}
      Rule(k) == NameOfRule(items[k])
      Strength(k) == <<Weight[ScopeOf(k)], Rank(Rule(k)), k>>
      Beaten(k) == \E j \in bound : /\ ReadAs(Rule(j)) = ReadAs(Rule(k))
                                    /\ Rule(k) # "flows"
                                    /\ Less(Strength(k), Strength(j))
      failed == {k \in bound : ~ Beaten(k) /\ ~ Says(Rule(k), DocDrawing(version, i))}
  IN  IF \E k \in reach : Faulty(k) THEN Error
      ELSE [kind |-> IF failed = {} THEN "pass" ELSE "fail",
            lines |-> {items[k].line : k \in failed}]

Told(r, all) ==
  LET bad == {i \in Index(Cases) : all[i].kind # "pass"}
      first == Min(bad)
      broken == {i \in Index(Cases) : all[i] = Error}
  IN  CASE r.mode = "survey" ->
             /\ r.error = (broken # {})
             /\ \A i \in Index(r.cases) : r.cases[i] = all[i]
             /\ Len(r.cases) = IF broken = {} THEN Len(Cases) ELSE Min(broken) - 1
        [] r.mode = "score" ->
             IF bad = {} THEN ~ r.error /\ r.score = Cases[Len(Cases)].line
             ELSE /\ r.error = (all[first] = Error)
                  /\ ~ r.error => r.score = Cases[first].line /\ r.at = Min(all[first].lines)

(* Every verdict of the runner is the declared one: a case is tested by the  *)
(* items before the next case whose scope reaches it, of rules about one     *)
(* thing only by the strongest, each read as what it says of the drawing,    *)
(* and an item that is no rule ends the run wherever it stands before the    *)
(* next case; and there is a verdict unless the document has no rule or a    *)
(* case the validator refuses (cmd-dev/layout-test-runner/main.go:92-303,    *)
(* registry.go).  Nothing is claimed where the runner's scopes are not those *)
(* of the items.                                                             *)
VerdictsAreDeclared ==
  report # None =>
    IF items = <<>> \/ unfit THEN report = NotRun
    ELSE /\ report # NotRun
         /\ ScopesAreTheirOwn => Told(report, [i \in Index(Cases) |-> Declares(i, engine)])
-----------------------------------------------------------------------------
(* The canvases: three ties that arrive at the side of a flow in the wrong   *)
(* order, three that share one port, a flow with a node in its way, and two  *)
(* edges whose shorter detours tangle.                                       *)
CanvasSeeds ==
  LET Mid(side) == Port(side, 50)
      Up(from, at) == Edge(from, "a", "partof", "",
                           Routed(Mid("top"), Port("bottom", at), <<>>, NoStubs))
      Row(type) == <<Node("a", type, "", 1, 100, 0, 60, FALSE),
                     Node("b", type, "", 1, 100, 160, 60, FALSE),
                     Node("c", "thing", "", 1, 0, 160, 60, FALSE),
                     Node("d", "thing", "", 1, 200, 160, 60, FALSE)>>
      down == Edge("a", "b", "leadsto", "", Routed(Mid("bottom"), Mid("top"), <<>>, NoStubs))
  IN  {Drawing(Row("event"), <<down, Up("c", 75), Up("d", 25)>>),
       Drawing(Row("thing"), <<Up("d", 50), Up("b", 50), Up("c", 50)>>),
       Drawing(<<Node("a", "event", "", 1, 0, 0, 60, FALSE),
                 Node("b", "event", "", 1, 0, 200, 60, FALSE),
                 Node("c", "thing", "", 1, 0, 100, 40, FALSE),
                 Node("d", "thing", "", 1, 80, 90, 80, TRUE),
                 Node("S", "boundary", "", 1, 0, -100, 40, FALSE)>>,
               <<down,
                 Edge("c", "b", "partof", "stubbed",
                      Routed(Mid("bottom"), Mid("right"), <<>>,
                             <<<<<<30, 140>>, <<30, 160>>>>, <<<<60, 230>>, <<80, 230>>>>>>)),
                 Edge("S", "a", "leadsto", "", None)>>),
       Drawing(<<Node("a", "event", "", 1, 170, 0, 60, FALSE),
                 Node("b", "event", "", 1, 170, 240, 60, FALSE),
                 Node("c", "thing", "", 1, 170, 130, 40, FALSE),
                 Node("d", "event", "", 1, 75, 20, 60, FALSE),
                 Node("e", "event", "", 1, 75, 260, 60, FALSE),
                 Node("f", "thing", "", 1, 80, 130, 40, FALSE)>>,
               <<down,
                 Edge("d", "e", "leadsto", "",
                      Routed(Port("bottom", 75), Port("top", 75), <<>>, NoStubs))>>)}

CanvasPlaces == {<<0, 80>>, <<100, 100>>, <<200, 160>>}
CanvasPorts == {Port("bottom", 50), Port("right", 25)}
-----------------------------------------------------------------------------
(* What a change of the engine does to a drawing.                            *)
Shifted(p, d) == <<p[1] + d[1], p[2] + d[2]>>
AllShifted(points, d) == [k \in Index(points) |-> Shifted(points[k], d)]

(* The whole drawing is shifted, one node perhaps left where it was.         *)
Relayout ==
  \E d \in {<<20, 0>>, <<0, -20>>}, left \in 0 .. Len(canvas.nodes) :
    LET Node2(k, n) == IF k = left THEN n ELSE [n EXCEPT !.x = @ + d[1], !.y = @ + d[2]]
        Edge2(e) == IF ~ Has(e.route) THEN e
                    ELSE [e EXCEPT !.route.bends = AllShifted(@, d),
                                   !.route.sourceStub = AllShifted(@, d),
                                   !.route.targetStub = AllShifted(@, d)]
    IN  Redrawn([canvas EXCEPT !.nodes = [k \in Index(@) |-> Node2(k, @[k])],
                               !.edges = [k \in Index(@) |-> Edge2(@[k])]])

Grow ==
  \E k \in Index(canvas.nodes) :
    Redrawn([canvas EXCEPT !.nodes[k].h = @ + 20, !.bounds = Shifted(@, <<0, 20>>)])

(* A tie is hidden, or left for late, which hides it too; or shown.          *)
Hide ==
  \E k \in Index(canvas.edges), vis \in {"", "stubbed"}, late \in BOOLEAN :
    /\ late => vis = "stubbed"
    /\ Redrawn([canvas EXCEPT !.edges[k].vis = vis, !.edges[k].deferred = late])

(* A boundary gets another number.                                           *)
Renumber ==
  \E k \in Index(canvas.nodes) :
    LET id == canvas.nodes[k].id
    IN  /\ canvas.nodes[k].type = "boundary"
        /\ Redrawn([canvas EXCEPT !.nodes[k].id = "S9",
                                  !.edges = [i \in Index(@) |->
                                               IF @[i].from = id THEN [@[i] EXCEPT !.from = "S9"]
                                               ELSE @[i]]])
-----------------------------------------------------------------------------
Init ==
  \/ BookInit /\ canvas = None /\ steps = 0
  \/ CanvasInit /\ items = <<>> /\ unfit = FALSE /\ engine = 1 /\ report = None

Next ==
  \/ canvas = None /\ BookNext /\ UNCHANGED canvasVars
  \/ /\ Has(canvas)
     /\ CanvasNext \/ Relayout \/ Grow \/ Hide \/ Renumber
     /\ UNCHANGED bookVars

Spec == Init /\ [][Next]_<<bookVars, canvasVars>>
-----------------------------------------------------------------------------
(* The audit of a drawing and the rules of the corpora judge a line alike:   *)
(* it runs through a node, grazes it or crosses another line where it is     *)
(* seen to (layoutcheck.go:95-180, rules.go NodeNoStraddleEdgeRule,          *)
(* NodeEdgeGapRule, EdgeDoesNotCrossRule: the same clipping, written twice). *)
Agree(g, v, found) ==
  LET shown == {i \in Index(g.edges) : g.edges[i].vis # "stubbed"}
      path == [i \in shown |-> PathOf(g, g.edges[i])]
      Rule(kind, i, j, k) ==
        [kind |-> kind, node |-> v.nodes[k].id, gap |-> Grazing,
         from |-> v.edges[i].from, to |-> v.edges[i].to,
         from2 |-> v.edges[j].from, to2 |-> v.edges[j].to, end |-> ""]
      At(i, k, m) == MeetsGrown(path[i], g.nodes[k], m)
      Found(i, j, k) ==
        [straddle |-> <<"edge through node", i, k>> \in found,
         graze |-> <<"edge grazes node", i, k>> \in found,
         cross |-> \E f \in found : f[1] = "edges cross" /\ {f[2][1], f[3][1]} = {i, j}]
      Ruled(i, j, k) ==
        LET fails == {kind \in {"no-straddle", "edge-gap", "no-cross"} :
                        ~ EdgeRuleHolds(Rule(kind, i, j, k), v)}
        IN  [straddle |-> "no-straddle" \in fails,
             graze |-> "edge-gap" \in fails /\ "no-straddle" \notin fails,
             cross |-> "no-cross" \in fails]
      Seen(i, j, k) == [straddle |-> At(i, k, -2),
                        graze |-> At(i, k, Grazing) /\ ~ At(i, k, -2),
                        cross |-> CutPaths(path[i], path[j])]
  IN  \A i \in shown : \A j \in shown : \A k \in Strangers(g, g.edges[i]) :
        Found(i, j, k) = Seen(i, j, k) /\ Ruled(i, j, k) = Seen(i, j, k)

RulesAndAuditAgree == Has(canvas) => Agree(canvas, View(canvas), Findings(canvas, FALSE))

(* A report of no change means the reader sees the same picture, moved as a  *)
(* whole; the shift it reports leaves as many nodes still as any other; both *)
(* ways round it tells of the same additions and removals; and it never      *)
(* calls a layout worse in the eyes of the audit a matter of taste           *)
(* (pkg/layoutdiff/diff.go:19-31, match.go:140-194).                         *)
SamePicture(g, h) ==
  /\ Len(g.nodes) = Len(h.nodes) /\ Len(g.edges) = Len(h.edges) /\ g.bounds = h.bounds
  /\ \E d \in {<<h.nodes[k].x - g.nodes[1].x, h.nodes[k].y - g.nodes[1].y>> : k \in Index(h.nodes)} :
       /\ \A k \in Index(g.nodes) :
            \E n \in Members(h.nodes) :
              [n EXCEPT !.id = ""] = [g.nodes[k] EXCEPT !.id = "", !.x = @ + d[1], !.y = @ + d[2]]
       /\ \A e \in Members(g.edges) :
            \E f \in Members(h.edges) :
              /\ <<e.from, e.to, e.base, e.vis>> = <<f.from, f.to, f.base, f.vis>>
              /\ Has(e.route) /\ Has(f.route) => PathOf(h, f) = AllShifted(PathOf(g, e), d)

Standing(g, h, k, move) ==
  Cardinality({p \in MatchNodes(g, h) : p[1] # 0 /\ p[2] # 0
                 /\ (IF k = 1 THEN h.nodes[p[2]].x - g.nodes[p[1]].x
                     ELSE h.nodes[p[2]].y - g.nodes[p[1]].y) = move})

Mirrors(there, back) ==
  LET About(changes, kind) == {c[2] : c \in {d \in changes : d[1] = kind}}
  IN  /\ Identical(there) = Identical(back)
      /\ \A pair \in {<<"node-added", "node-removed">>, <<"edge-added", "edge-removed">>,
                      <<"finding-added", "finding-fixed">>} :
           /\ About(there, pair[1]) = About(back, pair[2])
           /\ About(there, pair[2]) = About(back, pair[1])

SoundReport(g, h, there, back) ==
  /\ Mirrors(there, back)
  /\ Identical(there) => SamePicture(g, h)
  /\ Regressed(Categorize(Findings(g, FALSE)), Categorize(Findings(h, FALSE)))
       => ReportTier(there) = 1

LeavesMostStill(g, h, shift) ==
  \A k \in {1, 2}, move \in {-40, -20, 0, 20, 40} :
    Standing(g, h, k, move) <= Standing(g, h, k, shift[k])

ReportIsSound ==
  [][Has(canvas) =>
       /\ SoundReport(canvas, canvas', Diff(canvas, canvas'), Diff(canvas', canvas))
       /\ LeavesMostStill(canvas, canvas', Translation(canvas, canvas'))]_canvas

(* Once the ports of a drawing are put in order, no two ties leave a side at *)
(* one place, nor one where the flow leaves; two whose partners stand level  *)
(* and were not moved themselves do not cross; and the flow keeps its ports  *)
(* (pkg/layout/ports_order.go:8-61).                                         *)
Line(g, i) == LET p == PathOf(g, g.edges[i]) IN <<p[1], p[Len(p)]>>
FarEnd(g, t) == Line(g, t[1])[3 - t[2]]
OnFlow(g, t) == IsCorridorEdge(g, g.edges[t[1]])

PortsInOrder ==
  [][Has(canvas) /\ OrderPorts =>
       LET g == canvas
           h == canvas'
       IN  \A id \in NodeIds(g), side \in PortSides :
             LET ends == SideEnds(g, id, side)
                 Depth(t) == FarEnd(g, t)[IF side \in {"left", "right"} THEN 1 ELSE 2]
             IN  /\ SideEnds(h, id, side) = ends
                 /\ \A t \in ends : OnFlow(g, t) => Slot(h, t) = Slot(g, t)
                 /\ \A t, u \in ends :
                      t # u /\ ~ OnFlow(g, t) =>
                        /\ ~ OnFlow(g, u) => Slot(h, t) # Slot(h, u)
                        /\ OnFlow(g, u) /\ {v \in ends : OnFlow(g, v)} = {u} => Slot(h, t) # Slot(h, u)
                        /\ /\ ~ OnFlow(g, u) /\ Depth(t) = Depth(u)
                           /\ \A v \in {t, u} : FarEnd(h, v) = FarEnd(g, v)
                           => ~ ProperlyCross(Line(h, t[1]), Line(h, u[1]))]_canvas

(* A detour is taken only where a box stood in the straight way of an edge,  *)
(* and the way taken meets none; no other edge is touched, and no node       *)
(* (pkg/layout/detour.go:54-215).  And the last one taken crosses no more of *)
(* the lines as they are drawn in the end than any clean way round a corner  *)
(* of a box that was in its way would: the earlier ones have moved by then,  *)
(* and the line they left is none to dodge (detour.go:82-86).  That holds    *)
(* where no other edge keeps bends of an earlier pass, which count as none.  *)
DetoursClear ==
  [][Has(canvas) /\ Detour =>
       LET g == canvas
           h == canvas'
           Near(i, path, m) == \E n \in Obstacles(g, g.edges[i]) : MeetsGrown(path, n, m)
           Blocked(i, path) == Near(i, path, -2)
           Path(i) == PathOf(h, h.edges[i])
           Detoured(i) == Blocked(i, Line(g, i)) /\ Len(Path(i)) > 2 /\ ~ Blocked(i, Path(i))
           LastDetour(i) == Detoured(i) /\ \A j \in Index(g.edges) \ {i} : Len(Path(j)) = 2 \/ (j < i /\ Detoured(j))
           Corners(n) == {n.x - DetourClear, n.x + n.w + DetourClear}
                           \X {n.y - DetourClear, n.y + n.h + DetourClear}
           Round(i, c) == <<Line(g, i)[1], c, Line(g, i)[2]>>
           Crossed(i, path) == {j \in Index(g.edges) \ {i} : CutPaths(path, Path(j))}
       IN  /\ h.nodes = g.nodes
           /\ \A i \in Index(g.edges), n \in Members(g.nodes) :
                LastDetour(i) /\ n \in Obstacles(g, g.edges[i]) /\ MeetsGrown(Line(g, i), n, -2) =>
                  \A c \in Corners(n) : Near(i, Round(i, c), DetourGraze)
                                       \/ Cardinality(Crossed(i, Path(i))) <= Cardinality(Crossed(i, Round(i, c)))
           /\ \A i \in Index(g.edges) :
                /\ g.edges[i] # h.edges[i] => Blocked(i, Line(g, i))
                /\ Line(h, i) = Line(g, i)
                /\ Blocked(i, Line(g, i)) =>
                     \/ ~ Blocked(i, PathOf(h, h.edges[i]))
                     \/ \E n \in Obstacles(g, g.edges[i]), p \in Members(Line(g, i)) :
                          MeetsGrown(<<p, p>>, n, -2)]_canvas
=============================================================================
