------------------------------ MODULE SyncCases ------------------------------
(***************************************************************************)
(* sync-test-cases at work: authors edit the documents, the tool turns     *)
(* their blocks into files of test cases and records them in each          *)
(* directory's _refs.json, the generators write siblings beside the cases, *)
(* and refs-rehash brings the recorded hashes up to date.  A run writes a  *)
(* destination's _refs.json first, with the hashes of the files it finds,  *)
(* then the files one by one, then looks at what is left over; it may be   *)
(* killed between any two of these.                                        *)
(*                                                                         *)
(* A document is a sequence of fenced blocks, a block's line is its        *)
(* position.  A rule fence of several lines is as many blocks.  A name is a*)
(* sequence of pieces, so that appending a piece concatenates strings:     *)
(* <<"a", "solved", "-02">> is the name "a.solved-02".  A _refs.json is a  *)
(* function from the sources that give a case to their hash and the items. *)
(***************************************************************************)
EXTENDS Integers, Sequences, SequencesExt, FiniteSets, TLC

CONSTANTS Configs,     \* <<[dest, lane, files], ...>>, in the order of sources.json
          DestOrder,   \* the destinations in string order
          FileOrder,   \* the source files in string order
          Versions,    \* [Files -> the texts its authors may give it]
          First,       \* [Files -> its text at the beginning]
          FilterNames, \* the names a --filter may give
          RuleTexts,   \* the contents that are layout rules
          MaxTurns,    \* bound: edits, generations and killed or filtered runs together
          Torn         \* may a run be killed, or filtered?

ASSUME ConfigsAssumption ==
  \A i \in DOMAIN Configs :
    /\ Configs[i].dest \in Range(DestOrder)
    /\ Range(Configs[i].files) \subseteq Range(FileOrder)
    /\ Configs[i].lane \in {"md", "invalid", "solver", "rule"}

Dests == Range(DestOrder)
Files == Range(FileOrder)

Texts(f) == Versions[f] \cup {First[f]}

\* What the documents can be.
Corpora == {docs \in [Files -> UNION {Texts(f) : f \in Files}] : \A f \in Files : docs[f] \in Texts(f)}

ASSUME DocumentsAssumption ==
  /\ DestOrder \in Seq(Dests)
  /\ First \in [Files -> UNION {Texts(f) : f \in Files}]

LangOf == [md |-> "ipmt", invalid |-> "ipmt-invalid", solver |-> "ipmt", rule |-> "rule"]
ExtOf == [md |-> "ipmt", invalid |-> "ipmt-invalid", solver |-> "ipmt", rule |-> "dsl"]
\* The siblings the other tools write; one stands for json, layout.json, ipm.svg and md.
GenExt == "svg"

-----------------------------------------------------------------------------
\* The anchor of the heading above names a block; before any heading, the file does.
Base(b, f) == IF b.anchor = <<>> THEN <<f>> ELSE b.anchor

Snippet(b, f, k, base, anchor, ext) ==
  [base |-> base, ext |-> ext, content |-> b.content, file |-> f, line |-> k, anchor |-> anchor]

\* The first snippet of a key wins, a later one is skipped.
Take(st, d, key, s) ==
  IF key \in st.seen THEN st
  ELSE [st EXCEPT !.seen = @ \cup {key}, !.acc[d] = Append(@, s)]

Fail(st) == [st EXCEPT !.ok = FALSE]

\* Lanes ipmt-md and ipmt-invalid-md: duplicates are skipped across all destinations.
MdBlock(st, cfg, f, b, k) ==
  IF cfg.lane = "md" /\ b.role = "invalid" THEN st
  ELSE IF b.bad THEN Fail(st)
  ELSE Take(st, cfg.dest, <<b.content>>, Snippet(b, f, k, Base(b, f), b.anchor, ExtOf[cfg.lane]))

\* Lane ipmdev-layout-rule-md: duplicates are skipped within a destination's case.
RuleBlock(st, cfg, f, b, k) ==
  Take(st, cfg.dest, <<cfg.dest, Base(b, f), b.content>>,
       Snippet(b, f, k, Base(b, f), b.anchor, "dsl"))

\* Lane ipmt-solver-md: a `# given`, its `# then` and perhaps a `# then defaults`
\* are written under the name of the given.
SolverBlock(st, cfg, f, doc, k) ==
  LET b == doc[k]
      emit(s, of, at, piece) ==
        Take(s, cfg.dest, <<doc[at].content>>,
             Snippet(doc[at], f, at, Base(doc[of], f) \o piece, doc[of].anchor, "ipmt"))
  IN CASE b.role = "given" ->
            IF st.given # 0 THEN Fail(st) ELSE [st EXCEPT !.given = k, !.then = 0]
       [] b.role = "then" ->
            IF st.given = 0 THEN Fail(st)
            ELSE [emit(emit(st, st.given, st.given, <<>>), st.given, k, <<"solved">>)
                    EXCEPT !.then = st.given, !.given = 0]
       [] b.role = "defaults" ->
            IF st.then = 0 THEN Fail(st)
            ELSE [emit(st, st.then, k, <<"defaults">>) EXCEPT !.then = 0]
       [] OTHER -> st

Block(st, cfg, f, doc, k) ==
  IF ~st.ok \/ doc[k].lang # LangOf[cfg.lane] THEN st
  ELSE CASE cfg.lane = "solver" -> SolverBlock(st, cfg, f, doc, k)
         [] cfg.lane = "rule"   -> RuleBlock(st, cfg, f, doc[k], k)
         [] OTHER               -> MdBlock(st, cfg, f, doc[k], k)

\* A file's blocks in order; a `# given` left over at its end stops the run.
Source(st, cfg, f, doc) ==
  LET end == FoldLeft(LAMBDA s, k : Block(s, cfg, f, doc, k),
                      [st EXCEPT !.given = 0, !.then = 0], [k \in DOMAIN doc |-> k])
  IN IF end.given # 0 THEN Fail(end) ELSE end

\* Every configuration in order, or only those of the filtered destination:
\* what the run extracts, and whether it may go on.
Extract(docs, only) ==
  FoldLeft(LAMBDA st, cfg :
             FoldLeft(LAMBDA s, f : IF s.ok THEN Source(s, cfg, f, docs[f]) ELSE s,
                      st, cfg.files),
           [acc |-> [d \in Dests |-> <<>>], seen |-> {}, ok |-> TRUE, given |-> 0, then |-> 0],
           SelectSeq(Configs, LAMBDA cfg : cfg.dest \in only))

-----------------------------------------------------------------------------
\* Literal repeats of one case collapse once more, whatever lane they come from.
Collapse(snips) ==
  LET repeats(i) == \E j \in 1..(i - 1) : /\ snips[j].base = snips[i].base
                                          /\ snips[j].content = snips[i].content
      keep == SetToSortSeq({i \in DOMAIN snips : ~repeats(i)}, <)
  IN [i \in DOMAIN keep |-> snips[keep[i]]]

Suffix(n) == <<"-01", "-02", "-03", "-04", "-05">>[n]

\* The first snippet of a base keeps it, the n-th gets the number n.
ResolveCollisions(snips) ==
  LET nth(i) == Cardinality({j \in 1..i : snips[j].base = snips[i].base})
  IN [i \in DOMAIN snips |->
        [snips[i] EXCEPT !.base = IF nth(i) = 1 THEN @ ELSE Append(@, Suffix(nth(i)))]]

Named(snips) == ResolveCollisions(Collapse(snips))

\* The cases of every destination.
CasesOf(docs, only) == LET got == Extract(docs, only) IN [d \in Dests |-> Named(got.acc[d])]

FileOf(s) == <<s.base, s.ext>>

-----------------------------------------------------------------------------
\* The hashes recorded for an item: of its own file and of its generated siblings.
Outputs(name, exts, dir) ==
  [e \in {x \in exts : <<name, x>> \in DOMAIN dir} |-> dir[<<name, e>>]]

Item(s, dir) ==
  [name |-> s.base, line |-> s.line, anchor |-> s.anchor, content |-> s.content,
   outputs |-> Outputs(s.base, {s.ext, GenExt}, dir)]

\* Items by source file; the file's own hash is taken now, not when it was read.
BuildRefs(snips, docs, dir) ==
  [f \in {s.file : s \in Range(snips)} |->
     [sha |-> docs[f], items |-> {Item(s, dir) : s \in {t \in Range(snips) : t.file = f}}]]

\* Mutant: only the sources' own hashes are compared.
RefsEqualSources(a, b) ==
  [f \in DOMAIN a |-> a[f].sha] = [f \in DOMAIN b |-> b[f].sha]
RefsEqual(a, b) == a = b

Items(refs) == UNION {refs[f].items : f \in DOMAIN refs}

\* The name up to its first dot.
Stem(file) ==
  LET dots == {i \in DOMAIN file[1] : file[1][i] \in {"solved", "defaults"}}
  IN IF dots = {} THEN file[1] ELSE SubSeq(file[1], 1, (CHOOSE i \in dots : \A j \in dots : i <= j) - 1)

\* Mutant: a file that is no snippet's own is left over, generated or not.
ExtrasByFile(existing, produced) == existing \ produced
\* What belongs to no case of the run: neither its file nor anything of its stem.
Extras(existing, produced) ==
  {x \in existing \ produced : Stem(x) \notin {Stem(p) : p \in produced}}

\* The destinations whose _refs.json names the stem; a filter needs exactly one.
Holders(refs, name) == {d \in Dests : \E it \in Items(refs[d]) : it.name = name}

\* refs-rehash: every recorded key and every standard one, read again from disk.
Rehashed(refs, dir) ==
  LET Again(it) == [it EXCEPT !.outputs = Outputs(it.name, DOMAIN @ \cup {"ipmt", GenExt}, dir)]
  IN  [f \in DOMAIN refs |-> [refs[f] EXCEPT !.items = {Again(it) : it \in @}]]

-----------------------------------------------------------------------------
(***************************************************************************)
(* What layout-test-runner makes of the directories: the cases it runs are *)
(* the items with an "ipmt" output, and it stops when a rule has no file.  *)
(***************************************************************************)
TestCases(refs) == {it \in Items(refs) : "ipmt" \in DOMAIN it.outputs}

RulesLoad(refs, dir) == \A it \in Items(refs) : <<it.name, "dsl">> \in DOMAIN dir

-----------------------------------------------------------------------------
(* The tool at work. *)

VARIABLES docs,    \* the documents
          refs,    \* [Dests -> its _refs.json]
          disk,    \* [Dests -> [file -> content]], the other files
          run,     \* the run under way; `clean` says no document changed during it
          verdict, \* how the last run ended
          calm,    \* complete full runs since anything else happened, up to 2; a refs-rehash
              \* takes one back
          turns,   \* how many of those there were
          patchy   \* has a run been killed or filtered since the last complete one?

vars == <<docs, refs, disk, run, verdict, calm, turns, patchy>>

NoFilter == <<>>
Idle == [pc |-> "idle", check |-> FALSE, rm |-> FALSE, filter |-> NoFilter,
         acc |-> [d \in Dests |-> <<>>], dests |-> <<>>, todo |-> <<>>,
         existing |-> {}, extras |-> {}, changed |-> FALSE, clean |-> FALSE]

Init ==
  /\ docs = First
  /\ refs = [d \in Dests |-> <<>>]
  /\ disk = [d \in Dests |-> <<>>]
  /\ run = Idle
  /\ verdict = "none"
  /\ calm = 0
  /\ turns = 0
  /\ patchy = FALSE

\* Something else than a complete run happens, which MaxTurns bounds.
Turn == turns < MaxTurns /\ turns' = turns + 1

\* The directory with one more file, or with another content of it.
Put(dir, file, content) == [x \in DOMAIN dir \cup {file} |-> IF x = file THEN content ELSE dir[x]]

-----------------------------------------------------------------------------
Edit(f) ==
  /\ Turn
  /\ \E doc \in Versions[f] \ {docs[f]} : docs' = [docs EXCEPT ![f] = doc]
  /\ run' = [run EXCEPT !.clean = FALSE]
  /\ calm' = 0
  /\ UNCHANGED <<refs, disk, verdict, patchy>>

\* layout-test-runner, ipmsvg-gen and gen-test-md draw a sibling of every case.
Generate(d) ==
  LET cases == {x[1] : x \in {y \in DOMAIN disk[d] : y[2] = "ipmt"}}
      drawn == cases \X {GenExt}
  IN /\ Turn
     /\ run.pc = "idle"
     /\ disk' = [disk EXCEPT ![d] = [x \in DOMAIN @ \cup drawn |->
                    IF x \in drawn THEN <<"svg of", @[<<x[1], "ipmt">>]>> ELSE @[x]]]
     /\ disk' # disk
     /\ calm' = 0
     /\ UNCHANGED <<docs, refs, run, verdict, patchy>>

\* refs-rehash of one directory: where a retired case of another language has left its
\* file, the record of a settled directory is changed by it.
Rehash(d) ==
  /\ run.pc = "idle"
  /\ Rehashed(refs[d], disk[d]) # refs[d]
  /\ refs' = [refs EXCEPT ![d] = Rehashed(@, disk[d])]
  /\ calm' = IF calm = 2 THEN 1 ELSE calm
  /\ UNCHANGED <<docs, disk, run, verdict, turns, patchy>>

-----------------------------------------------------------------------------
\* A run reads the documents; one that cannot use them ends without a write.
Start(check, rm, filter) ==
  LET only == IF filter = NoFilter THEN Dests ELSE Holders(refs, filter)
      got == Extract(docs, only)
  IN /\ run.pc = "idle"
     /\ IF filter = NoFilter THEN UNCHANGED turns ELSE Turn /\ Cardinality(only) = 1
     /\ IF got.ok
        THEN /\ run' = [Idle EXCEPT !.pc = "refs", !.check = check, !.rm = rm, !.filter = filter, !.clean = TRUE,
                                    !.acc = CasesOf(docs, only),
                                    !.dests = IF filter = NoFilter THEN DestOrder ELSE <<CHOOSE d \in only : TRUE>>]
             /\ verdict' = "none"
        ELSE /\ verdict' = "failed"
             /\ UNCHANGED run
     /\ calm' = IF got.ok /\ ~check /\ filter # NoFilter THEN 0 ELSE calm
     /\ UNCHANGED <<docs, refs, disk, patchy>>

At(pc) == run.pc = pc /\ run.dests # <<>>
Dest == Head(run.dests)

\* The destination's _refs.json, from the files as they are before the writes.
WriteRefs ==
  LET fresh == BuildRefs(run.acc[Dest], docs, disk[Dest])
      differs == ~RefsEqual(refs[Dest], fresh)
  IN /\ At("refs")
     /\ refs' = IF differs /\ ~run.check THEN [refs EXCEPT ![Dest] = fresh] ELSE refs
     /\ run' = [run EXCEPT !.pc = "files", !.changed = @ \/ differs,
                           !.existing = DOMAIN disk[Dest],
                           !.todo = IF run.filter = NoFilter THEN run.acc[Dest]
                                    ELSE SelectSeq(run.acc[Dest], LAMBDA s : s.base = run.filter)]
     /\ UNCHANGED <<docs, disk, verdict, calm, turns, patchy>>

\* Mutant: a file that is already there is not written again.
WriteFileOnce ==
  LET s == Head(run.todo)
      write == ~run.check /\ FileOf(s) \notin DOMAIN disk[Dest]
  IN /\ At("files")
     /\ run.todo # <<>>
     /\ disk' = IF write THEN [disk EXCEPT ![Dest] = Put(@, FileOf(s), s.content)] ELSE disk
     /\ run' = [run EXCEPT !.todo = Tail(@), !.changed = @ \/ write]
     /\ UNCHANGED <<docs, refs, verdict, calm, turns, patchy>>
\* The next snippet's file, unless it has that content; --check only names them.
WriteFile ==
  LET s == Head(run.todo)
      write == /\ ~run.check
               /\ ~(FileOf(s) \in DOMAIN disk[Dest] /\ disk[Dest][FileOf(s)] = s.content)
  IN /\ At("files")
     /\ run.todo # <<>>
     /\ disk' = IF write THEN [disk EXCEPT ![Dest] = Put(@, FileOf(s), s.content)] ELSE disk
     /\ run' = [run EXCEPT !.todo = Tail(@), !.changed = @ \/ write]
     /\ UNCHANGED <<docs, refs, verdict, calm, turns, patchy>>

\* What no case of this run accounts for; a filtered run does not look.
FindExtras ==
  LET found == Extras(run.existing, {FileOf(s) : s \in Range(run.acc[Dest])})
      extras == IF run.filter = NoFilter THEN found ELSE {}
  IN /\ At("files")
     /\ run.todo = <<>>
     /\ run' = [run EXCEPT !.pc = "extras", !.changed = @ \/ (run.check /\ extras # {}),
                           !.extras = IF run.rm /\ ~run.check THEN extras ELSE {}]
     /\ UNCHANGED <<docs, refs, disk, verdict, calm, turns, patchy>>

\* One file of --rm-extra, which can be removed; one that cannot is named by the code and left.
RemoveExtra(x) ==
  /\ At("extras")
  /\ x \in run.extras
  /\ disk' = [disk EXCEPT ![Dest] = [y \in DOMAIN @ \ {x} |-> @[y]]]
  /\ run' = [run EXCEPT !.extras = @ \ {x}, !.changed = TRUE]
  /\ UNCHANGED <<docs, refs, verdict, calm, turns, patchy>>

NextDest ==
  /\ At("extras")
  /\ run.extras = {}
  /\ run' = [run EXCEPT !.pc = "refs", !.dests = Tail(@)]
  /\ UNCHANGED <<docs, refs, disk, verdict, calm, turns, patchy>>

Finish ==
  /\ run.pc = "refs"
  /\ run.dests = <<>>
  /\ run' = Idle
  /\ verdict' = CASE run.check /\ run.changed -> "stale"
                  [] run.check /\ ~run.changed -> "fresh"
                  [] OTHER -> "synced"
  /\ IF run.check THEN UNCHANGED <<calm, patchy>>
     ELSE /\ patchy' = (run.filter # NoFilter)
          /\ calm' = IF run.filter # NoFilter THEN 0
                     ELSE IF run.rm /\ run.clean /\ calm < 2 THEN calm + 1
                     ELSE calm
  /\ UNCHANGED <<docs, refs, disk, turns>>

\* Where a _refs.json is written first: no case has its stem.
RefsName == <<"_refs">>
\* Killed: between two writes, or between a file's temporary copy and its rename.
Crash ==
  /\ Torn
  /\ Turn
  /\ run.pc # "idle"
  /\ run' = Idle
  /\ verdict' = "none"
  /\ IF run.check THEN UNCHANGED <<disk, calm, patchy>>
     ELSE /\ calm' = 0
          /\ patchy' = TRUE
          /\ \/ UNCHANGED disk
             \/ /\ At("refs")
                /\ disk' = [disk EXCEPT ![Dest] = Put(@, <<RefsName, "tmp">>, "record")]
             \/ /\ At("files") /\ run.todo # <<>>
                /\ disk' = [disk EXCEPT ![Dest] =
                              Put(@, <<Head(run.todo).base, "tmp">>, Head(run.todo).content)]
  /\ UNCHANGED <<docs, refs>>

Progress == WriteRefs \/ WriteFile \/ FindExtras \/ NextDest \/ Finish
            \/ \E x \in run.extras : RemoveExtra(x)

Next ==
  \/ Progress
  \/ Crash
  \/ \E f \in Files : Edit(f)
  \/ \E d \in Dests : Generate(d) \/ Rehash(d)
  \/ Start(TRUE, FALSE, NoFilter)
  \/ \E rm \in BOOLEAN : Start(FALSE, rm, NoFilter)
  \/ Torn /\ \E check \in BOOLEAN, n \in FilterNames : Start(check, FALSE, n)

Spec == Init /\ [][Next]_vars

-----------------------------------------------------------------------------
Written(acc, d) ==
  \A s \in Range(acc[d]) : FileOf(s) \in DOMAIN disk[d] /\ disk[d][FileOf(s)] = s.content

\* When --check says the fixtures are up to date, after a complete run and since
\* then neither a killed nor a filtered one, every snippet it extracted has its
\* file with its content, whatever the documents, the generators and
\* refs-rehash did in between.  --check itself reads no fixture: it trusts the
\* hashes that the runs and refs-rehash have recorded.  And nothing is left out of
\* the corpus: layout-test-runner finds every extracted block among its cases, and
\* every rule it reads has its file.
Runnable(acc, d) ==
  \A s \in Range(acc[d]) :
    CASE s.ext = "ipmt" -> \E it \in TestCases(refs[d]) : it.name = s.base
      [] s.ext = "dsl" -> RulesLoad(refs[d], disk[d])
      [] OTHER -> TRUE
CheckIsHonest ==
  [][(Finish /\ verdict' = "fresh" /\ ~patchy) =>
       \A d \in Dests : Written(run.acc, d) /\ Runnable(run.acc, d)]_vars

\* Two complete runs with nothing in between settle a directory, whatever state a
\* killed, filtered or overtaken run left it in: the files are those of the
\* documents, their record is what another run would write, nothing is left over,
\* and a diagram that several configurations see is the case of one of them, though
\* blocks move between documents and a run writes one destination after the other.
TwoRunsSettle ==
  calm = 2 =>
    LET acc == CasesOf(docs, Dests)
    IN Extract(docs, Dests).ok => \A d \in Dests :
         /\ Written(acc, d)
         /\ refs[d] = BuildRefs(acc[d], docs, disk[d])
         /\ Extras(DOMAIN disk[d], {FileOf(s) : s \in Range(acc[d])}) = {}
         /\ \A e \in Dests : \A x \in Items(refs[d]), y \in Items(refs[e]) :
              (x.content = y.content /\ x.content \notin RuleTexts) => d = e /\ x = y

\* --rm-extra removes a retired case's files and never one that a case of the
\* run owns or that a generator wrote beside it.
RemovalsAreOfTheRetired ==
  [][\A d \in Dests : \A x \in DOMAIN disk[d] \ DOMAIN disk'[d] :
       \A s \in Range(run.acc[d]) : s.base # x[1]]_vars

-----------------------------------------------------------------------------
(* What an extraction owes to the names and texts of the corpus. *)

\* A run is about all destinations, or about one.
Scopes == {Dests} \cup {{d} : d \in Dests}
Usable == {x \in Corpora \X Scopes : Extract(x[1], x[2]).ok}

\* The cases of a run have a file each, none of them a generated one, and a filtered run has none
\* but its destination's: no heading is spelled as another one with a number behind it.
NamesAreDistinct ==
  \A x \in Usable : \A d \in Dests :
    LET cases == CasesOf(x[1], x[2])[d]
    IN  /\ cases \in Seq(Range(cases))
        /\ \A s, t \in Range(cases) : FileOf(s) = FileOf(t) => s = t
        /\ \A s \in Range(cases) : s.ext # GenExt
        /\ d \notin x[2] => cases = <<>>

\* A text that moves or is edited back into the corpus comes in the language it had, and rules have
\* destinations of their own.
LanguagesAreKept ==
  \A x, y \in Usable : \A d \in Dests :
    \A s \in Range(CasesOf(x[1], x[2])[d]), t \in Range(CasesOf(y[1], y[2])[d]) :
      /\ (s.base = t.base /\ s.content = t.content) => s.ext = t.ext
      /\ x = y => (s.ext = "dsl" <=> t.ext = "dsl")

\* A text that is no rule is extracted once.
DiagramsHaveOneHome ==
  \A x \in Usable : \A d, e \in Dests :
    \A s \in Range(CasesOf(x[1], x[2])[d]), t \in Range(CasesOf(x[1], x[2])[e]) :
      (s.content = t.content /\ s.content \notin RuleTexts) => d = e /\ s = t
=============================================================================
