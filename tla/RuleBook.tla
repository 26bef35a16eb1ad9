------------------------------ MODULE RuleBook ------------------------------
(* The layout test runner over one document                                  *)
(* (cmd-dev/layout-test-runner/main.go, pkg/layouttest/registry.go,          *)
(* pkg/dsltorules/scope.go).  The document is a sequence of test cases and a *)
(* sequence of rule items, each in the order of their lines:                 *)
(*   case : [line, heading, section, tags]                                   *)
(*   item : [line, heading, section, scope, text]                            *)
(* scope is the @scope line the item begins with, <<>> where there is none,  *)
(* text the rule, <<>> where there is none: sync-test-cases makes an item of *)
(* each rule of a fence, with the last scope before it in that fence.  A     *)
(* heading stands for its anchor.                                            *)
EXTENDS RuleText

VARIABLES
  items,    \* the rule items of the document
  unfit,    \* the validator refuses the diagram of a case
  engine,   \* the version of the layout engine
  report    \* what the last run printed; None once it is out of date

bookVars == <<items, unfit, engine, report>>

CONSTANTS
  Cases,     \* the test cases of the document
  Lines,     \* where a rule item may stand
  Versions,  \* the versions of the layout engine
  MaxItems,  \* bound: rule items in the document
  Contents(_),      \* what an item at a line may say: [scope, text]
  PlaceOf(_),       \* the heading and the section a line stands under
  DrawingOf(_, _)   \* what a version of the engine draws of a case
-----------------------------------------------------------------------------
(* loadRuleFiles: markers where the section or the heading of the items      *)
(* changes; an item under no heading leaves the last one standing.           *)
Headed(rules) ==
  LET Marker(kind, item, name) == <<[kind |-> kind, line |-> item.line - 1, name |-> name]>>
      Add(s, item) ==
        LET newSection == item.section # s.section /\ item.section # ""
            lastHeading == IF newSection THEN "" ELSE s.heading
            newHeading == item.heading # lastHeading /\ item.heading # ""
        IN  [section |-> IF newSection THEN item.section ELSE s.section,
             heading |-> IF newHeading THEN item.heading ELSE lastHeading,
             out |-> s.out
                       \o (IF newSection THEN Marker("section", item, item.section) ELSE <<>>)
                       \o (IF newHeading THEN Marker("heading", item, item.heading) ELSE <<>>)
                       \o <<item @@ [kind |-> "rule"]>>]
  IN  FoldLeft(Add, [section |-> "", heading |-> "", out |-> <<>>], rules).out

RulesHeading(name) == name \in {"rules", "Rules", "Layout rules"}
-----------------------------------------------------------------------------
(* ScopeSpecificity.                                                         *)
ScopeSpecificity(scope) ==
  (CASE scope.type = "local" -> 4 [] scope.type = "parent" -> 2 [] OTHER -> 0)
    + (IF Has(scope.tags) THEN 1 ELSE 0)

(* AppliesTo: a tag expression that does not parse applies to nothing.       *)
AppliesTo(scope, case) ==
  /\ scope.type = "local"  => scope.heading = case.heading
  /\ scope.type = "parent" => scope.section = case.section
  /\ Has(scope.tags) => TagEval(scope.tags, case.tags) = <<TRUE>>

Global == [kind |-> "scope", type |-> "global", tags |-> None, heading |-> "", section |-> ""]

(* AddRuleWithScopeSpecificity.                                              *)
AddRule(registry, rule, line, spec) ==
  LET key == CompactionKey(rule, line)
      new == [rule |-> rule, line |-> line, spec |-> spec]
      old == registry[key]
      replaces == \/ spec > old.spec
                  \/ /\ spec = old.spec
                     /\ \/ Specificity(rule) > Specificity(old.rule)
                        \/ Specificity(rule) = Specificity(old.rule) /\ line > old.line
  IN  IF key \notin DOMAIN registry THEN (key :> new) @@ registry
      ELSE IF replaces THEN [registry EXCEPT ![key] = new] ELSE registry

(* The collection of the rules a case is tested by.  It ends the run at a    *)
(* scope or a rule that does not parse, and at a scope wider than the one    *)
(* before it under the same heading, whether or not the item is the case's.  *)
Start == [stop |-> "no", scope |-> Global, heading |-> "", section |-> "", max |-> -1,
          registry |-> [key \in {} |-> 0]]

Entered(s, scope) ==
  IF scope = Refused THEN [s EXCEPT !.stop = "error"]
  ELSE IF ScopeSpecificity(scope) < s.max THEN [s EXCEPT !.stop = "error"]
  ELSE [s EXCEPT !.scope = scope @@ [heading |-> s.heading, section |-> s.section],
                 !.max = ScopeSpecificity(scope)]

EnterScope(s, item) ==
  IF item.scope = <<>> THEN s ELSE Entered(s, ParseScope(item.scope))

Collected(s, line, rule, case) ==
  IF rule = Refused THEN [s EXCEPT !.stop = "error"]
  ELSE IF ~ AppliesTo(s.scope, case) THEN s
  ELSE [s EXCEPT !.registry = AddRule(@, rule, line, ScopeSpecificity(s.scope))]

TakeRule(s, item, case) ==
  IF s.stop # "no" \/ item.text = <<>> THEN s
  ELSE Collected(s, item.line, Parse(item.text), case)

Take(s, item, bound, case) ==
  IF s.stop # "no" THEN s
  ELSE IF item.line >= bound THEN [s EXCEPT !.stop = "bound"]
  ELSE CASE item.kind = "section" -> [s EXCEPT !.section = item.name, !.max = -1]
         [] item.kind = "heading" -> [s EXCEPT !.heading = item.name,
                                               !.max = IF RulesHeading(item.name) THEN @ ELSE -1]
         [] item.kind = "rule"    -> TakeRule(EnterScope(s, item), item, case)

(* The bound of a case: the line of the next one, of the last case none.     *)
NoLine == 1000
UpperBoundNone(i) == NoLine

UpperBound(i) == IF i < Len(Cases) THEN Cases[i + 1].line ELSE NoLine

Collect(rules, i) ==
  FoldLeft(LAMBDA s, item : Take(s, item, UpperBound(i), Cases[i]), Start, Headed(rules))

(* ApplyAllErrors: the lines of the rules that fail; ApplyAll stops at the   *)
(* first of them.                                                            *)
Failing(registry, view) ==
  {registry[key].line : key \in {k \in DOMAIN registry : ~ Holds(registry[k].rule, view)}}

Error == [kind |-> "error", lines |-> {}]

Verdict(failing) == [kind |-> IF failing = {} THEN "pass" ELSE "fail", lines |-> failing]

Judged(collected, view) ==
  IF collected.stop = "error" THEN Error ELSE Verdict(Failing(collected.registry, view))

Outcomes(rules, version) ==
  [i \in Index(Cases) |-> Judged(Collect(rules, i), View(DrawingOf(version, i)))]

(* A scoring run ends at the first case that does not pass.                  *)
Score(all) ==
  LET bad == {i \in Index(all) : all[i].kind # "pass"}
      first == Min(bad)
      Told(score, error, at) == [mode |-> "score", score |-> score, error |-> error, at |-> at]
  IN  CASE bad = {} -> Told(Cases[Len(Cases)].line, FALSE, 0)
        [] bad # {} /\ all[first] = Error -> Told(0, TRUE, 0)
        [] OTHER -> Told(Cases[first].line, FALSE, Min(all[first].lines))

(* A survey reports every case, up to an error.                              *)
Survey(all) ==
  LET errors == {i \in Index(all) : all[i] = Error}
  IN  [mode |-> "survey", error |-> errors # {},
       cases |-> SubSeq(all, 1, IF errors = {} THEN Len(all) ELSE Min(errors) - 1)]

(* Without a rule, or with a case that is no valid graph, nothing is run.    *)
NotRun == [mode |-> "not run"]

Printed(mode, rules, version) ==
  IF rules = <<>> \/ unfit THEN NotRun
  ELSE LET all == Outcomes(rules, version) IN IF mode = "score" THEN Score(all) ELSE Survey(all)
-----------------------------------------------------------------------------
InLineOrder(set) == SetToSortSeq(set, LAMBDA a, b : a.line < b.line)
Placed(line, content) == content @@ PlaceOf(line) @@ [line |-> line]

BookInit ==
  /\ items = <<>>
  /\ unfit = FALSE
  /\ engine \in Versions
  /\ report = None

(* The author writes an item, or takes one out.                              *)
WriteItem ==
  \E line \in Lines : \E content \in Contents(line) :
    /\ Len(items) < MaxItems
    /\ \A k \in Index(items) : items[k].line # line
    /\ items' = InLineOrder(Members(items) \cup {Placed(line, content)})
    /\ report' = None
    /\ UNCHANGED <<unfit, engine>>

EraseItem ==
  \E k \in Index(items) :
    /\ items' = SubSeq(items, 1, k - 1) \o Rest(items, k + 1)
    /\ report' = None
    /\ UNCHANGED <<unfit, engine>>

(* The author breaks the diagram of a case, or mends it.                     *)
EditCase == unfit' = ~ unfit /\ report' = None /\ UNCHANGED <<items, engine>>

(* The engine is changed: every case is drawn anew.                          *)
ChangeEngine ==
  \E v \in Versions \ {engine} : engine' = v /\ report' = None /\ UNCHANGED <<items, unfit>>

RunTests ==
  \E mode \in {"score", "survey"} :
    /\ report = None
    /\ report' = Printed(mode, items, engine)
    /\ UNCHANGED <<items, unfit, engine>>

BookNext == WriteItem \/ EraseItem \/ EditCase \/ ChangeEngine \/ RunTests
=============================================================================
