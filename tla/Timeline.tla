------------------------------ MODULE Timeline ------------------------------
(***************************************************************************)
(* cmd-dev/layout-timeline: a run builds every engine of a history on a    *)
(* pool of goroutines, sweeps each over the same diagrams, compares it     *)
(* with the newest earlier engine that built, and writes a report whose    *)
(* pictures are pooled by content.  Runs follow one another over the same  *)
(* cache and the same report directory; one may be killed at any step, and *)
(* the user goes on editing the diagrams and the configuration.            *)
(***************************************************************************)
EXTENDS EngineCache, Columns

CONSTANTS
  Main,        \* the goroutine of main, one of Builders; the others are the pool of buildAll
  Requests,    \* what a run may be asked for, and when: see Columns
  Surveys,     \* the same for --list, which builds nothing; all Requests among them
  Diagrams,    \* how many diagrams the corpus has
  Results,     \* the layouts there are; 0 is none: the engine failed
  Lays,        \* engine -> diagram -> version of its source -> the results it may give
  Caps,        \* how many rows of a column may get their pictures: --limit, all, or 0 for --no-svg
  SweepJobs,   \* the size of the pool of a sweep
  MaxRuns, MaxEdits   \* bounds: runs, and edits of diagrams

Ids == 1 .. Diagrams
Pool == Builders \ {Main}
Snapshot == [sha : Commits \cup {Workdir, NoSHA}, repo : STRING, recipe : Recipes,
             paths : SUBSET (STRING \X STRING), same : BOOLEAN, engine : Nat, date : Int]

ASSUME TimelineAssumption ==
  /\ Main \in Builders /\ Pool # {}
  /\ \A v \in Requests : ColumnsOf(v) \in Seq(Snapshot)
  /\ Requests \subseteq Surveys /\ Commits \subseteq DOMAIN Log \ {Workdir, NoSHA} /\ Ordinary \in Recipes
  /\ 0 \in Results /\ Results \subseteq Nat
  /\ Lays \in [Commits \cup {Workdir} -> [Ids -> [0 .. MaxEdits -> SUBSET Results]]]
  /\ SweepJobs \in Nat \ {0} /\ Caps \subseteq Nat /\ {MaxRuns, MaxEdits, Diagrams} \subseteq Nat

\* The lineages are repositories of their own: two that share their objects make two jobs of one commit.
ASSUME LineagesAssumption == \A c \in Commits : \A p, q \in Log[c].repos : p = q

VARIABLES
  screen,      \* what was listed before the first run, and what for
  runs,        \* how many runs have started
  phase,       \* where the run is, "off" between two
  snaps, cap,  \* how it was configured
  jobs,        \* the columns buildAll has still to hand out
  ready, unbuildable,  \* the commits it counts as built and as failed
  weeks,       \* the columns so far
  sweep,       \* diagram -> what the engine of the next column gave, and for which text, or Todo
  prevAt,      \* the column prevGen and prevLabel come from, 0 for none
  text,        \* diagram -> the version of its source, which its author goes on editing
  pool,        \* the pictures in panes/
  pages,       \* the pictures the pages on disk refer to
  whole,       \* the last run came to its end
  killed       \* history: some run did not

report == <<pool, pages>>
ending == <<whole, killed>>
runVars == <<screen, runs, snaps, cap>>
vars == <<cacheVars, runVars, phase, jobs, ready, unbuildable, weeks, sweep, prevAt, text, report, ending>>

Todo == [r |-> 99, t |-> 0]
NoSweep == [d \in Ids |-> Todo]
NewSnap == snaps[Len(weeks) + 1]

Init ==
  /\ CacheInit
  /\ screen = <<>>
  /\ runs = 0 /\ phase = "off" /\ snaps = <<>> /\ cap = 0
  /\ jobs = {} /\ ready = {} /\ unbuildable = {}
  /\ weeks = <<>> /\ sweep = NoSweep /\ prevAt = 0
  /\ text = [d \in Ids |-> 0]
  /\ pool = {} /\ pages = {} /\ whole = TRUE /\ killed = FALSE

-----------------------------------------------------------------------------
(* The columns. *)

\* Without a column in range there is nothing to print or to do.
Listings == {<<v, Listed(v)>> : v \in {w \in Surveys : Listed(w) # <<>>}}
Plans == {ColumnsOf(v) : v \in {w \in Requests : Listed(w) # <<>>}}

List ==
  /\ phase = "off" /\ runs = 0
  /\ screen = <<>>
  /\ screen' \in Listings
  /\ UNCHANGED <<cacheVars, runs, snaps, cap, phase, jobs, ready, unbuildable, weeks, sweep, prevAt, text,
                 report, ending>>

(* Phase 1: buildAll. *)

\* One job for each commit and repository: its first column.
Jobs(s) ==
  {i \in DOMAIN s : /\ s[i].sha \in Commits
                    /\ \A j \in 1 .. i - 1 : s[j].sha # s[i].sha \/ s[j].repo # s[i].repo}

\* A run, with the configuration and the tools of its day.
StartRun ==
  /\ phase = "off"
  /\ runs < MaxRuns
  /\ runs' = runs + 1
  /\ snaps' \in Plans
  /\ cap' \in Caps /\ screen' = <<>>
  /\ tools' \in {tools, tools + 1}
  /\ jobs' = Jobs(snaps')
  /\ ready' = {} /\ unbuildable' = {}
  /\ weeks' = <<>> /\ sweep' = NoSweep /\ prevAt' = 0
  /\ phase' = "build" /\ whole' = FALSE
  /\ UNCHANGED <<disk, process, text, report, killed>>

Held(col) == col.repo \in Log[col.sha].repos
Ask(b, col) == Called(b, col.sha, col.recipe, Held(col))

\* The jobs are handed out in the order of the columns.
TakeJob(w) ==
  /\ phase = "build"
  /\ At(w, "none")
  /\ \E i \in jobs : /\ \A j \in jobs : i <= j
                     /\ Ask(w, snaps[i])
                     /\ jobs' = jobs \ {i}
  /\ UNCHANGED <<disk, tools, mergeBuilt, mergeMu, runVars, phase, ready, unbuildable, weeks, sweep,
                 prevAt, text, report, ending>>

\* Mutant of JobDone: a worker ends with its first failure.
JobDoneUnlessFailed(w) ==
  /\ phase = "build"
  /\ At(w, "ok")
  /\ ready' = ready \cup {Of(w)} /\ UNCHANGED unbuildable
  /\ call' = [call EXCEPT ![w] = NoCall]
  /\ UNCHANGED <<disk, tools, mergeBuilt, mergeMu, runVars, phase, jobs, weeks, sweep, prevAt, text,
                 report, ending>>

\* The counts, under the mutex of buildAll.
JobDone(w) ==
  /\ phase = "build"
  /\ \/ At(w, "ok") /\ ready' = ready \cup {Of(w)} /\ UNCHANGED unbuildable
     \/ At(w, "failed") /\ unbuildable' = unbuildable \cup {Of(w)} /\ UNCHANGED ready
  /\ call' = [call EXCEPT ![w] = NoCall]
  /\ UNCHANGED <<disk, tools, mergeBuilt, mergeMu, runVars, phase, jobs, weeks, sweep, prevAt, text,
                 report, ending>>

BuildAllDone ==
  /\ phase = "build"
  /\ jobs = {} /\ \A w \in Pool : At(w, "none")
  /\ phase' = "compare"
  /\ UNCHANGED <<cacheVars, runVars, jobs, ready, unbuildable, weeks, sweep, prevAt, text, report, ending>>

-----------------------------------------------------------------------------
(* Phase 2: compare, column after column. *)

\* A column nothing was swept for.
Blank(note) == [swept |-> FALSE, notes |-> {note}, rows |-> <<>>, gen |-> <<>>, texts |-> <<>>,
                shaky |-> FALSE, against |-> 0, drawn |-> {}]
Column(w) == weeks' = Append(weeks, w)
InCompare == phase = "compare" /\ Len(weeks) < Len(snaps)

SkipColumn ==
  /\ InCompare
  /\ NewSnap.sha = NoSHA \/ NewSnap.same
  /\ Column(Blank(IF NewSnap.sha = NoSHA THEN "none_yet" ELSE "same"))
  /\ UNCHANGED <<cacheVars, runVars, phase, jobs, ready, unbuildable, sweep, prevAt, text, report, ending>>

AskEngine ==
  /\ InCompare
  /\ NewSnap.sha \in Commits /\ ~NewSnap.same
  /\ At(Main, "none")
  /\ Ask(Main, NewSnap)
  /\ UNCHANGED <<disk, tools, mergeBuilt, mergeMu, runVars, phase, jobs, ready, unbuildable, weeks,
                 sweep, prevAt, text, report, ending>>

NoEngine ==
  /\ phase = "compare"
  /\ At(Main, "failed")
  /\ Column(Blank("unbuildable"))
  /\ call' = [call EXCEPT ![Main] = NoCall]
  /\ UNCHANGED <<disk, tools, mergeBuilt, mergeMu, runVars, phase, jobs, ready, unbuildable, sweep,
                 prevAt, text, report, ending>>

\* The working tree is built afresh, beside the cache; it may not compile.
BuildWorkdir ==
  /\ InCompare
  /\ NewSnap.sha = Workdir
  /\ \/ phase' = "sweep" /\ UNCHANGED weeks
     \/ Column(Blank("unbuildable")) /\ UNCHANGED phase
  /\ UNCHANGED <<cacheVars, runVars, jobs, ready, unbuildable, sweep, prevAt, text, report, ending>>

StartSweep ==
  /\ phase = "compare"
  /\ At(Main, "ok")
  /\ phase' = "sweep"
  /\ UNCHANGED <<cacheVars, runVars, jobs, ready, unbuildable, weeks, sweep, prevAt, text, report, ending>>

\* What RunEngine gives for a diagram: nothing from an engine that is not all there.
Runs(d) ==
  IF NewSnap.sha = Workdir \/ Complete(NewSnap.sha, NewSnap.recipe)
  THEN Lays[NewSnap.sha][d][text[d]] ELSE {0}

\* forEachDiagram: the indices are handed out in order to a pool of SweepJobs.
SweepDiagram(d) ==
  /\ phase = "sweep"
  /\ sweep[d] = Todo
  /\ Cardinality({e \in 1 .. d - 1 : sweep[e] = Todo}) < SweepJobs
  /\ \E r \in Runs(d) : sweep' = [sweep EXCEPT ![d] = [r |-> r, t |-> text[d]]]
  /\ UNCHANGED <<cacheVars, runVars, phase, jobs, ready, unbuildable, weeks, prevAt, text, report, ending>>

\* diffPair.
Status(old, new) ==
  IF old = 0 /\ new = 0 THEN "skipped"
  ELSE IF new = 0 THEN "broken"
  ELSE IF old = 0 THEN "repaired"
  ELSE IF old = new THEN "identical" ELSE "changed"

Moved(w) == {d \in DOMAIN w.rows : w.rows[d] \in {"broken", "repaired", "changed"}}
Severity == [broken |-> 0, changed |-> 1, repaired |-> 2]
\* sortChanges; of two rows alike it is the first that comes first.
Before(w, d, e) ==
  Severity[w.rows[d]] < Severity[w.rows[e]] \/ (w.rows[d] = w.rows[e] /\ d < e)
\* collect: the rows that get their pictures.
DrawnRows(w) == {d \in Moved(w) : Cardinality({e \in Moved(w) : Before(w, e, d)}) < cap}

\* noteNondeterministic probes some of the diagrams twice.
Probed == {1, Diagrams \div 3 + 1, Diagrams \div 2 + 1, (2 * Diagrams) \div 3 + 1, Diagrams} \cap Ids
MaySeemShaky == \E d \in Probed : Cardinality(Runs(d) \ {0}) > 1
\* noteQuietEngine replaces what the column said by then.
QuietNote(w) ==
  IF Moved(w) # {} THEN w.notes
  ELSE IF \A d \in Ids : w.rows[d] = "skipped" THEN {"nothing_ran"}
  ELSE IF NewSnap.engine > 0 THEN {"quiet"} ELSE w.notes

Swept(k) == weeks[k].swept
\* Mutant of Against: always the first engine.
AgainstFirst == IF prevAt = 0 THEN 0 ELSE CHOOSE k \in DOMAIN weeks : Swept(k) /\ \A j \in 1 .. k - 1 : ~Swept(j)
Against == prevAt

\* The column: its rows against prevGen, or the whole corpus if it is the first.
SweepDone ==
  /\ phase = "sweep"
  /\ \A d \in Ids : sweep[d] # Todo
  /\ \E shaky \in IF MaySeemShaky THEN BOOLEAN ELSE {FALSE} :
       LET first == Against = 0
           rows == IF first THEN <<>> ELSE [d \in Ids |-> Status(weeks[Against].gen[d], sweep[d].r)]
           w0 == [Blank("first") EXCEPT !.swept = TRUE, !.gen = [d \in Ids |-> sweep[d].r],
                    !.texts = [d \in Ids |-> sweep[d].t], !.shaky = shaky, !.against = Against, !.rows = rows,
                    !.notes = (IF first THEN {"first"} ELSE {}) \cup (IF shaky THEN {"shaky"} ELSE {})]
       IN  Column([w0 EXCEPT !.drawn = IF ~first THEN DrawnRows(w0) ELSE IF cap = 0 THEN {} ELSE Ids,
                             !.notes = IF first THEN @ ELSE QuietNote(w0)])
  /\ prevAt' = Len(weeks) + 1
  /\ sweep' = NoSweep
  /\ phase' = "compare"
  /\ call' = [call EXCEPT ![Main] = NoCall]
  /\ UNCHANGED <<disk, tools, mergeBuilt, mergeMu, runVars, jobs, ready, unbuildable, text, report, ending>>

CompareDone ==
  /\ phase = "compare"
  /\ Len(weeks) = Len(snaps) /\ At(Main, "none")
  /\ phase' = "panes"
  /\ UNCHANGED <<cacheVars, runVars, jobs, ready, unbuildable, weeks, sweep, prevAt, text, report, ending>>

-----------------------------------------------------------------------------
(* The report. *)

\* A picture is named by its content.
Picture(d, r) == <<d, r>>
\* The pictures of a column: before and after of its rows, or all of the first.
Shown(w) == {Picture(d, w.gen[d]) : d \in {e \in w.drawn : w.gen[e] # 0}}
Befores(w) ==
  IF w.rows = <<>> THEN {}
  ELSE {Picture(d, weeks[w.against].gen[d]) : d \in {e \in w.drawn : weeks[w.against].gen[e] # 0}}
Refs == UNION {Shown(weeks[k]) \cup Befores(weeks[k]) : k \in DOMAIN weeks}

\* poolPanes: a picture that is there is not written again.
PutPane ==
  /\ phase = "panes"
  /\ \E p \in Refs \ pool : pool' = pool \cup {p}
  /\ UNCHANGED <<cacheVars, runVars, phase, jobs, ready, unbuildable, weeks, sweep, prevAt, text, pages, ending>>

PanesDone ==
  /\ phase = "panes"
  /\ Refs \subseteq pool
  /\ phase' = "prune"
  /\ UNCHANGED <<cacheVars, runVars, jobs, ready, unbuildable, weeks, sweep, prevAt, text, report, ending>>

\* Mutant of Orphans: the pictures only a base column shows.
OrphansOfBase == IF Refs = {} THEN {} ELSE pool \ UNION {Befores(weeks[k]) : k \in DOMAIN weeks}
\* prunePanes: a run that refers to nothing prunes nothing.
Orphans == IF Refs = {} THEN {} ELSE pool \ Refs

RemoveOrphan ==
  /\ phase = "prune"
  /\ \E p \in Orphans : pool' = pool \ {p}
  /\ UNCHANGED <<cacheVars, runVars, phase, jobs, ready, unbuildable, weeks, sweep, prevAt, text, pages, ending>>

PruneDone ==
  /\ phase = "prune"
  /\ Orphans = {}
  /\ phase' = "clear"
  /\ UNCHANGED <<cacheVars, runVars, jobs, ready, unbuildable, weeks, sweep, prevAt, text, report, ending>>

ClearPages ==
  /\ phase = "clear"
  /\ pages' = {}
  /\ phase' = "pages"
  /\ UNCHANGED <<cacheVars, runVars, jobs, ready, unbuildable, weeks, sweep, prevAt, text, pool, ending>>

WritePages ==
  /\ phase = "pages"
  /\ pages' = Refs
  /\ phase' = "off" /\ whole' = TRUE
  /\ ProcessGone
  /\ UNCHANGED <<disk, tools, runVars, jobs, ready, unbuildable, weeks, sweep, prevAt, text, pool, killed>>

-----------------------------------------------------------------------------
(* The author, and what may go wrong. *)

EditDiagram(d) ==
  /\ text[d] < MaxEdits
  /\ text' = [text EXCEPT ![d] = @ + 1]
  /\ UNCHANGED <<cacheVars, runVars, phase, jobs, ready, unbuildable, weeks, sweep, prevAt, report, ending>>

\* The run is killed; not in the middle of the one write an adapter takes.
Crash ==
  /\ phase # "off"
  /\ \A b \in Builders : ~At(b, "fill")
  /\ ProcessGone
  /\ phase' = "off" /\ killed' = TRUE
  /\ UNCHANGED <<disk, tools, runVars, jobs, ready, unbuildable, weeks, sweep, prevAt, text, report, whole>>

Building(b) ==
  /\ BuildStep(b)
  /\ UNCHANGED <<runVars, phase, jobs, ready, unbuildable, weeks, sweep, prevAt, text, report, ending>>

Progress ==
  \/ \E b \in Builders : Building(b)
  \/ \E w \in Pool : TakeJob(w) \/ JobDone(w)
  \/ BuildAllDone
  \/ SkipColumn \/ AskEngine \/ NoEngine \/ BuildWorkdir \/ StartSweep
  \/ \E d \in Ids : SweepDiagram(d)
  \/ SweepDone \/ CompareDone
  \/ PutPane \/ PanesDone \/ RemoveOrphan \/ PruneDone \/ ClearPages \/ WritePages

Next == List \/ StartRun \/ Progress \/ (\E d \in Ids : EditDiagram(d)) \/ Crash

\* The goroutines of a run get to run.
Spec == Init /\ [][Next]_vars /\ WF_vars(Progress)

-----------------------------------------------------------------------------

Column1 == [swept : BOOLEAN, shaky : BOOLEAN, against : Nat, drawn : SUBSET Ids,
            notes : SUBSET {"none_yet", "same", "unbuildable", "first", "shaky", "quiet", "nothing_ran"},
            rows : {<<>>} \cup [Ids -> {"skipped", "broken", "repaired", "identical", "changed"}],
            gen : {<<>>} \cup [Ids -> Results], texts : {<<>>} \cup [Ids -> 0 .. MaxEdits]]

TypeOK ==
  /\ CacheTypeOK
  /\ runs \in 0 .. MaxRuns
  /\ phase \in {"off", "build", "compare", "sweep", "panes", "prune", "clear", "pages"}
  /\ snaps \in Seq(Snapshot)
  /\ screen \in Listings \cup {<<>>}
  /\ cap \in Caps \cup {0} /\ {whole, killed} \subseteq BOOLEAN
  /\ jobs \subseteq DOMAIN snaps /\ ready \subseteq Commits /\ unbuildable \subseteq Commits
  /\ weeks \in Seq(Column1) /\ Len(weeks) <= Len(snaps) /\ prevAt \in 0 .. Len(weeks)
  /\ sweep \in [Ids -> {Todo} \cup [r : Results, t : 0 .. MaxEdits]]
  /\ text \in [Ids -> 0 .. MaxEdits]
  /\ pool \subseteq Ids \X (Results \ {0}) /\ pages \subseteq Ids \X (Results \ {0})

(***************************************************************************)
(* Builders share the cache without a lock on its directories: still no    *)
(* binary is ever built from a source another builder is replacing, no two *)
(* compile the helper at once, and no adapter is written while the helper  *)
(* it names is not today's (engine.go:303-310).                            *)
(***************************************************************************)
BuildersDoNotMeet ==
  /\ \A c \in Commits, p \in Packages : bins[c][p] # "bad"
  /\ \A a, b \in Builders : At(a, "compile") /\ At(b, "compile") => a = b
  /\ \A b \in Builders : (At(b, "adapter") \/ At(b, "fill")) /\ By(b).merge => helper = tools

(***************************************************************************)
(* The inductive invariant behind BuildersDoNotMeet: nobody builds between *)
(* two runs or while the report is written, the pool and main never both;  *)
(* two builders are never at one commit, nor at one still to be handed     *)
(* out; what a builder compiles is whole, and the helper it names is made. *)
(***************************************************************************)
Busy(b) == call[b].pc \notin {"none", "ok", "failed"}
Resting(bs) == \A b \in bs : call[b] = NoCall
WhoBuilds ==
  /\ phase \notin {"build", "compare", "sweep"} => Resting(Builders)
  /\ phase = "build" => Resting({Main})
  /\ phase \in {"compare", "sweep"} => Resting(Pool)
  /\ phase = "compare" /\ call[Main] # NoCall => InCompare /\ NewSnap.sha \in Commits /\ ~NewSnap.same
  /\ phase = "sweep" => ~Busy(Main)
  /\ phase = "off" => ~mergeBuilt /\ mergeMu = None
NeverMeet ==
  /\ \A a, b \in Builders : Busy(a) /\ Busy(b) /\ Of(a) = Of(b) => a = b
  /\ phase = "build" => /\ jobs \subseteq Jobs(snaps)
                        /\ \A b \in Builders, i \in jobs : Busy(b) /\ Held(snaps[i]) => Of(b) # snaps[i].sha
BuildsAreSound ==
  /\ \A b \in Builders : At(b, "build") => tree[Of(b)] = "whole"
  /\ \A b \in Builders : At(b, "helper") \/ At(b, "compile") => mergeMu = b
  /\ mergeBuilt => helper = tools
  /\ \A b \in Builders : (At(b, "adapter") \/ At(b, "fill")) /\ By(b).merge => mergeBuilt
  /\ \A c \in Commits, p \in Packages : bins[c][p] # "bad"
BuildInv == CacheTypeOK /\ snaps \in Seq(Snapshot) /\ WhoBuilds /\ NeverMeet /\ BuildsAreSound

Engine(k) == snaps[k].sha
Steady(k, d) == \E r \in Results : Lays[Engine(k)][d][weeks[k].texts[d]] = {r}

\* The columns tell the history once, and forward.
ColumnsAreTheHistory ==
  screen # <<>> =>
    LET v == screen[1]
        pinned == ColumnsOf(v)
    IN  /\ Timely(pinned) => (~Misplaced(v, screen[2]) => ReadForward(pinned)) /\ NoneTwice(v, pinned)
        /\ Timely(screen[2]) => SpansAddUp(v, screen[2])
        /\ NewestWorkShows(v, screen[2])

(***************************************************************************)
(* The columns tell the history once and forward, whatever flags and       *)
(* lineages chose them (weeks.go:631-653, "Order is not cosmetic").  And a *)
(* row compares a column's engine with the newest earlier one that was     *)
(* swept: for a diagram nobody edited in between, laid out by engines that *)
(* agree with themselves, it has moved exactly if they disagree.           *)
(***************************************************************************)
RowsCompareEngines ==
  /\ ColumnsAreTheHistory
  /\ \A k \in DOMAIN weeks : weeks[k].rows # <<>> =>
       LET j == weeks[k].against
       IN  /\ j < k /\ Swept(j) /\ \A i \in j + 1 .. k - 1 : ~Swept(i)
           /\ \A d \in Ids : Steady(j, d) /\ Steady(k, d) /\ weeks[j].texts[d] = weeks[k].texts[d] =>
                (d \in Moved(weeks[k]) <=>
                   Lays[Engine(j)][d][weeks[j].texts[d]] # Lays[Engine(k)][d][weeks[k].texts[d]])

\* Mutant of Carried: what an engine cannot lay out keeps the picture it had.
CarriedOver(w, had) == [d \in Ids |-> IF d \in w.drawn /\ w.gen[d] # 0 THEN w.gen[d] ELSE had[d]]
\* galleries, one column: what moved is drawn anew, or gone if it has no picture; the rest is carried over.
Carried(w, had) ==
  [d \in Ids |-> IF d \in w.drawn /\ w.gen[d] # 0 THEN w.gen[d] ELSE IF d \in Moved(w) THEN 0 ELSE had[d]]
\* The picture every column has of a diagram; 0 for none.
Gallery[k \in 0 .. Len(weeks)] ==
  IF k = 0 THEN [d \in Ids |-> 0] ELSE Carried(weeks[k], Gallery[k - 1])

(***************************************************************************)
(* The gallery of a column shows what its engine draws although only what  *)
(* moved was drawn for it (gallery.go:3-13 and 53-56): no picture is ever  *)
(* another engine's, and none is missing unless the cap kept a row of that *)
(* diagram from being drawn.                                               *)
(***************************************************************************)
GalleryIsTheColumn ==
  cap # 0 => \A k \in DOMAIN weeks : Swept(k) =>
    \A d \in Ids : \/ Gallery[k][d] = weeks[k].gen[d]
                   \/ /\ Gallery[k][d] = 0
                      /\ \E i \in 1 .. k : d \in Moved(weeks[i]) \ weeks[i].drawn

(***************************************************************************)
(* The inductive invariant behind what the columns say: a column compares  *)
(* with the newest earlier one that was swept, the first one that was with *)
(* none; only what moved is drawn for it, but all of the first; and what   *)
(* was not swept says nothing.                                             *)
(***************************************************************************)
NewestSwept(j, k) ==
  /\ j # 0 => j \in 1 .. k - 1 /\ Swept(j)
  /\ \A i \in j + 1 .. k - 1 : ~Swept(i)
Compared(k) ==
  LET w == weeks[k]
  IN  IF w.against = 0 THEN w.rows = <<>> /\ w.drawn = (IF cap = 0 THEN {} ELSE Ids)
      ELSE w.rows = [d \in Ids |-> Status(weeks[w.against].gen[d], w.gen[d])] /\ w.drawn \subseteq Moved(w)
HistoryInv ==
  /\ phase = "sweep" => Len(weeks) < Len(snaps) /\ NewSnap.sha # NoSHA
  /\ NewestSwept(prevAt, Len(weeks) + 1)
  /\ \A k \in DOMAIN weeks :
       IF Swept(k) THEN weeks[k].gen \in [Ids -> Results] /\ NewestSwept(weeks[k].against, k) /\ Compared(k)
       ELSE weeks[k].rows = <<>> /\ weeks[k].drawn = {}

\* The engine of a commit is asked for with this recipe by some request.
Asked(c, r) == \E cols \in Plans : \E i \in DOMAIN cols : cols[i].sha = c /\ cols[i].recipe = r

(***************************************************************************)
(* Two hypotheses on the requests, which the code leaves to who writes the *)
(* config: a recipe without an adapter builds layout-gen alone (what a     *)
(* cached engine is recognised by, engine.go), and no two recipes with one *)
(* are asked of the same commit, whose adapters would pass for each other. *)
(***************************************************************************)
OneRecipeEach ==
  /\ \A r \in Recipes : ~Recipe[r].pipe => \A i \in DOMAIN Recipe[r].pkgs : Recipe[r].pkgs[i] = LayoutGen
  /\ \A c \in Commits, r, q \in Recipes :
       Asked(c, r) /\ Asked(c, q) /\ Recipe[r].pipe /\ Recipe[q].pipe => r = q

(***************************************************************************)
(* The inductive invariant by which every engine that is swept is all      *)
(* there: an adapter was written for a recipe that is asked of its commit, *)
(* behind all of its packages; an empty one is being filled; and a builder *)
(* has built every package before the one it is at.                        *)
(***************************************************************************)
Built(c, r) == \A i \in DOMAIN Recipe[r].pkgs : bins[c][Recipe[r].pkgs[i]] # None
Finished(c, r) == Built(c, r) /\ (Recipe[r].pipe => adapter[c] = r)
Along(b) ==
  /\ call[b].pc \in {"stat", "export", "untar"} => call[b].n = 1
  /\ At(b, "build") => /\ call[b].n \in DOMAIN By(b).pkgs
                       /\ \A i \in 1 .. call[b].n - 1 : bins[Of(b)][By(b).pkgs[i]] # None
  /\ call[b].pc \in {"lock", "helper", "compile"} => By(b).merge
  /\ call[b].pc \in {"adapter", "fill"} => By(b).pipe
  /\ call[b].pc \in {"lock", "helper", "compile", "adapter", "fill"} => Built(Of(b), call[b].r)
  /\ At(b, "clean") => Finished(Of(b), call[b].r)
AdaptersAreSound ==
  \A c \in Commits :
    /\ adapter[c] \in Recipes => /\ Asked(c, adapter[c]) /\ Recipe[adapter[c]].pipe
                                 /\ Built(c, adapter[c])
    /\ adapter[c] = "empty" => \E b \in Builders : At(b, "fill") /\ Of(b) = c
EnginesInv ==
  /\ snaps = <<>> \/ snaps \in Plans
  /\ \A b \in Builders : call[b] # NoCall => Asked(Of(b), call[b].r) /\ Along(b)
  /\ At(Main, "ok") => Finished(Of(Main), call[Main].r)
  /\ AdaptersAreSound

(***************************************************************************)
(* And the one by which a column holds what its own engine gave: main's    *)
(* engine is the next column's, and what was swept so far is one of the    *)
(* layouts that engine gives for the text it was given.                    *)
(***************************************************************************)
Gave(c, d, r, t) == r \in Lays[c][d][t]
SweptInv ==
  /\ phase \in {"compare", "sweep"} /\ call[Main] # NoCall =>
       Of(Main) = NewSnap.sha /\ call[Main].r = NewSnap.recipe
  /\ phase = "sweep" => NewSnap.sha = Workdir \/ At(Main, "ok")
  /\ phase \in {"build", "compare"} => sweep = NoSweep
  /\ phase = "sweep" => \A d \in Ids : sweep[d] # Todo => Gave(NewSnap.sha, d, sweep[d].r, sweep[d].t)
  /\ \A k \in DOMAIN weeks : Swept(k) => \A d \in Ids : Gave(Engine(k), d, weeks[k].gen[d], weeks[k].texts[d])

\* What the pages of a finished report refer to is in the pool, whatever earlier runs left there.
ReportIsServed == phase = "off" /\ whole => pages \subseteq pool
\* The inductive invariant behind it: pruning takes no picture that is referred to.
ReportInv ==
  /\ phase # "off" => ~whole
  /\ phase \in {"prune", "clear", "pages"} => Refs \subseteq pool
  /\ ReportIsServed

\* A run that is not killed ends.
RunsEnd == phase # "off" ~> phase = "off"

=============================================================================
