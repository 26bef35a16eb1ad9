----------------------------- MODULE MCSyncCases -----------------------------
(***************************************************************************)
(* Two documents, the solver's examples and an algorithm with its rules,   *)
(* which a catch-all configuration walks again.  Their versions move a     *)
(* diagram from one document to the other, reorder the blocks of a heading,*)
(* retire a case, and forget a `# then`.                                   *)
(***************************************************************************)
EXTENDS SyncCases

MCConfigs ==
  <<[dest |-> "solver", lane |-> "solver", files |-> <<"s">>],
    [dest |-> "layout", lane |-> "md", files |-> <<"m">>],
    [dest |-> "layout-rules", lane |-> "rule", files |-> <<"m">>],
    [dest |-> "all", lane |-> "md", files |-> <<"m", "s">>],
    [dest |-> "all", lane |-> "invalid", files |-> <<"m">>]>>
MCDestOrder == <<"all", "layout", "layout-rules", "solver">>
MCFileOrder == <<"m", "s">>

B(lang, role, anchor, content) ==
  [lang |-> lang, role |-> role, anchor |-> anchor, content |-> content, bad |-> FALSE]

Given == B("ipmt", "given", <<"a">>, "g")

Solver == <<Given, B("ipmt", "then", <<"a">>, "t")>>
Layout == <<B("ipmt", "", <<"x">>, "c"), B("rule", "", <<"x">>, "r"), B("rule", "", <<"x">>, "q")>>

MCFirst == [s |-> Solver, m |-> Layout]
MCVersions ==
  [s |-> {Solver, <<Given>>,
          <<Given, B("ipmt", "then", <<"a">>, "u"), B("ipmt", "defaults", <<"a">>, "d"),
            B("ipmt", "", <<>>, "e")>>},
   m |-> {Layout,
          <<B("ipmt", "", <<"x">>, "e"), B("ipmt", "", <<"x">>, "c"), B("rule", "", <<"x">>, "q"),
            B("ipmt-invalid", "", <<"x">>, "n")>>}]

MCFilterNames == {<<"a">>, <<"x", "-02">>}
MCRuleTexts == {"r", "q"}

\* The corpus is one of those that the theorems are about.
ASSUME CorpusAssumption == NamesAreDistinct /\ LanguagesAreKept /\ DiagramsHaveOneHome
=============================================================================
