----------------------------- MODULE MCTimeline -----------------------------
(* Two repositories: three commits to run over, with two requests, and six more to list columns of. *)
EXTENDS Timeline, TLC

MCPackages == {"layout-gen", "layout-json"}
\* The oldest commit has no layout-json.
MCCompiles == [c1 |-> {"layout-gen"}, c2 |-> MCPackages, c3 |-> MCPackages]
MCRecipe == [today |-> [pkgs |-> <<"layout-gen">>, pipe |-> FALSE, merge |-> FALSE],
             era |-> [pkgs |-> <<"layout-gen", "layout-json">>, pipe |-> TRUE, merge |-> TRUE]]

At0(day, hour) == Day * day + hour
Engine7 == {<<"pkg", "layout7">>, <<"cmd", "layout-gen">>}
EnginePasses == {<<"pkg", "layoutpasses">>}
Commit(history, day, hour, touches, layout, repo) ==
  [history |-> history, date |-> At0(day, hour), touches |-> touches, layout |-> layout, repos |-> {repo}]
\* pre: c1, c2, c4.  home: c3, m1 to m4, of which m2 and m3 share their hour; x1 forks off m1.
MCLog ==
  [c1 |-> Commit(<<"c1">>, 12, 5, EnginePasses, FALSE, "pre"),
   c2 |-> Commit(<<"c1", "c2">>, 12, 9, EnginePasses, TRUE, "pre"),
   c4 |-> Commit(<<"c1", "c2", "c4">>, 30, 9, {<<"docs", "x">>}, TRUE, "pre"),
   c3 |-> Commit(<<"c3">>, 40, 9, Engine7 \cup {<<"docs", "x">>}, FALSE, "home"),
   m1 |-> Commit(<<"c3", "m1">>, 58, 0, {<<"pkg", "ipmsvg">>}, TRUE, "home"),
   m2 |-> Commit(<<"c3", "m1", "m2">>, 69, 10, {<<"pkg", "layout7">>}, FALSE, "home"),
   m3 |-> Commit(<<"c3", "m1", "m2", "m3">>, 69, 10, {<<"cmd-dev", "layout-timeline">>}, TRUE, "home"),
   m4 |-> Commit(<<"c3", "m1", "m2", "m3", "m4">>, 70, 8, {<<"cmd", "layout-gen">>}, TRUE, "home"),
   x1 |-> Commit(<<"c3", "m1", "x1">>, 69, 20, {<<"pkg", "layout7">>}, FALSE, "home")]
MCMonths == {At0(10, 0), At0(41, 0), At0(71, 0)}

Src(repo, rev, paths, from, until) ==
  [repo |-> repo, rev |-> rev, recipe |-> "era", paths |-> paths, from |-> from, until |-> until]
Request(rev, sources) ==
  [now |-> At0(70, 12), since |-> 0, until |-> 0, days |-> 3, weeks |-> 2, by |-> "week", at |-> "week-start",
   head |-> TRUE, count |-> 1, hours |-> 3, repo |-> "home", rev |-> rev, paths |-> Engine7,
   heads |-> [pre |-> "c4", home |-> rev], dirty |-> FALSE, published |-> NoSHA, sources |-> sources]

\* The commits that touched the engine, in both lineages, and the working tree; and three boundaries
\* of the old repository, one before its first commit.
MCRequests ==
  { [Request("c3", <<Src("home", "c3", Engine7, 0, 0), Src("pre", "c2", EnginePasses, 0, 0)>>)
       EXCEPT !.by = "engine-commit", !.dirty = TRUE],
    [Request("c2", <<>>) EXCEPT !.repo = "pre", !.paths = EnginePasses, !.since = At0(12, 0), !.until = At0(14, 0),
       !.weeks = 0, !.head = FALSE, !.heads["home"] = "c3"] }

MCConfigs ==
  { <<>>, <<Src("home", "m4", Engine7, 0, 0), Src("pre", "c4", EnginePasses, 0, 0)>>,
    <<Src("pre", "c2", EnginePasses, 0, 0), Src("pre", "c4", EnginePasses, 0, 0), Src("home", "m4", {}, 0, 0)>>,
    <<Src("pre", "c4", EnginePasses, 0, At0(50, 0)), Src("home", "m4", Engine7, At0(50, 0), 0)>> }
\* Listings over the combinations of the flags, one of them with the remote ahead.
MCSurveys ==
  { [Request(rev, sources) EXCEPT !.by = by, !.at = at, !.days = band[1], !.weeks = band[2], !.head = recent # <<>>,
       !.count = IF recent = <<>> THEN 0 ELSE recent[1], !.hours = IF recent = <<>> THEN 0 ELSE recent[2],
       !.dirty = dirty, !.published = published, !.until = until] :
    rev \in {"m4"}, sources \in MCConfigs, by \in {"week", "engine-commit"},
    at \in {"week-start", "first-of-week"}, band \in {<<3, 2>>, <<0, 3>>}, recent \in {<<>>, <<1, 48>>, <<3, 3>>},
    dirty \in BOOLEAN, published \in {"m1", "x1"}, until \in {0, At0(69, 0)} }
  \cup
  { [Request("m3", <<>>) EXCEPT !.by = by, !.count = count, !.hours = 48, !.since = since, !.published = published] :
    by \in {"week", "engine-commit"}, count \in {0, 1}, since \in {0, At0(20, 0)}, published \in {"m4", "m1", NoSHA} }
  \cup MCRequests

\* The first diagram: c2 cannot lay out its first version; the second: c3 does not agree with itself.
MCLays == [c1 |-> <<(0 :> {0} @@ 1 :> {0}), (0 :> {0} @@ 1 :> {0})>>,
           c2 |-> <<(0 :> {0} @@ 1 :> {1}), (0 :> {1} @@ 1 :> {1})>>,
           c3 |-> <<(0 :> {1} @@ 1 :> {0}), (0 :> {1, 2} @@ 1 :> {1})>>,
           workdir |-> <<(0 :> {0} @@ 1 :> {2}), (0 :> {1} @@ 1 :> {0})>>]

\* The hypothesis of RowsCompareTheEngines (TimelineProofs) holds of these requests.
ASSUME RecipesAssumption == OneRecipeEach
=============================================================================
