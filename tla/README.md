# A verification development for ipm-tools

ipm-tools reads *ipmt*, a small text language for diagrams of events, things and concepts; infers
the kind of every node; validates the graph; lays it out; draws it as SVG; and keeps the SVGs that
are embedded in Markdown files in step with the text beside them. Around that stand a language
server, a proxy that records its sessions, a corpus of test cases extracted from the documentation,
a rule language that tests layouts, and a tool that rebuilds and compares old layout engines. This
directory holds TLA+ modules of the parts of it whose correctness depends on order, on failure or
on a search, the TLC models that check them on small instances, and proofs, checked by TLAPS, that
hold for every instance.

Paths are relative to `src/`. The tools are TLC for the runs and tlapm 1.4.5 (SMT, Zenon, LS4) for
the proofs.

## 1. The system

| component | state it keeps | operations | who it talks to | what is hard about it |
|---|---|---|---|---|
| **Block ids** (`pkg/mdembed/key.go`, second pass of `AnalyzeMarkdown` in `process.go:222-322`) | none between calls; the ids are in the markers of the document | keep an id, insert a key between two, append a key | every md-embed and ipm.embed run | long sequences of edits: intervals fill up, blocks are moved or copied |
| **md-embed runs, ipm.embed, ipm.check** (`cmd/md-embed/main.go`, `cmd/ipm-rpc/commands.go`, `pkg/mdembed/{process,render,svgmeta}.go`) | the Markdown files, the SVG directory, what one run expects there | analyse, render, write an SVG, remove a renamed one, write the markers, prune; `--check`, `--force`, `--in` | the file system; the editor; other runs | no lock, no transaction: crashes, concurrent runs, saves in between; a block in error ends the run |
| **Marker lines** (`pkg/mdembed/{marker,scan,process}.go`) | the lines of one document | attach a marker to a block, insert and rewrite one, clean blank lines | the block analysis | a marker between two blocks belongs to one of them; the next run must find what this one wrote |
| **ipmt parser and serializer** (`pkg/ipm/parser`, `pkg/ipmtext`) | the table of names and aliases of one parse | read lines of node specs and arrows; write a graph | called by everything | forward references, aliases, names that look like generated ones |
| **Node-kind solver** (`pkg/nodekind/{solve,graph}.go`) | candidates and confidence of every node | dedupe, prune candidates, pick primaries, default, drop edges, break cycles | parser before, validator and layout after | a fixpoint with a pass bound, a backtracking search, guarantees promised to the validator |
| **Validator** (`pkg/ipm/validate`) | none | rules on a graph, with suggestions | reads what the solver writes | rules over paths; a type table that exists a second time in the solver; suggestions of one rule against another |
| **Language server** (`cmd/ipm-rpc/server.go` and others) | the text of the open documents under a mutex | didOpen/Change/Close, hover, tokens, shutdown, exit | the editor over JSON-RPC | diagnostics are published after the unlock; requests run concurrently |
| **RPC tee, states corpus** (`cmd-dev/ipm-rpc-tee`, `cmd-dev/states-curate`) | one capture file, the curated scenes | copy both directions of a session and record them; replay a capture into scenes | between editor and server | two goroutines and one recorder that may fail; an interrupted curation |
| **Layout engine** (`pkg/layout7`) | positions and routes of one layout | membership, skeleton, tiles, placing, routing | parser and validator before, SVG after | what a shared node hangs at, which way time reads, what stands together, after any edit |
| **Layout geometry, passes on a drawing** (`pkg/layout`) | a drawing | pin ports, order ports on a side, detour round boxes | a consumer that moves nodes | each pass reads positions that earlier passes or the consumer have changed |
| **Rule language, layout tests** (`pkg/dsltorules`, `pkg/layouttest`, `cmd-dev/layout-test-runner`) | the rules of a document and the scope they stand under | read, compact, apply | the engine | which case a rule belongs to, which of two rules counts |
| **Layout audit findings, diffs** (`pkg/layoutcheck`, `pkg/layoutdiff`) | none | findings over a drawing; pairing of two drawings | the engine | numeric tests of lines and boxes; renumbered nodes; a shifted canvas |
| **Layout timeline, engine cache** (`cmd-dev/layout-timeline`, `pkg/layoutaudit`) | cached sources and binaries of old engines, a pool of pictures, the report | choose columns, build, sweep, compare, draw, prune | git, the Go tool, the file system | builders that share a cache; runs that are killed; engines that cannot be built |
| **Test-case corpus tools** (`cmd-dev/sync-test-cases`, `cmd-dev/refs-rehash`) | generated case files and a record of each directory | extract, name, write, remove, check | the documents, the runner | files are written after the record that speaks of them |
| **Output** (`pkg/ipmsvg`, `pkg/mdhtml`, `pkg/ipmtokens`), **front ends** (`cmd/*`), **other development tools** | none between calls | format, print | - | text from finished data; not modelled |

What makes them correct:

1. *Block ids*: an id in a marker is not changed; no two blocks of a document share one, because
   the id names the SVG; keys follow the order of the document, so that there is room for the next.
2. *Runs*: whatever crashed, failed or concurrent runs and whatever edits came before, one
   undisturbed run brings markers and SVGs in step with the sources and removes the SVGs nobody
   refers to, and a second one changes nothing; `--check` says whether that holds.
3. *Marker lines*: a run keeps the author's lines, and the next run finds every marker at its block.
4. *Solver*: it never guesses; what it leaves open is really open; its choice among the open
   kinds is the best one; the graph it returns passes the validator, also after it has been written
   as text and read again.
5. *Server and tee*: answers are about one state of a document; the last diagnostics are those of
   the last text; recording a session does not change it, and the record tells it in order.
6. *Layout*: what hangs at what, which way time reads and what stands together follow from the
   diagram, and not from the order of its nodes or from an edit elsewhere.
7. *Tools around the layout*: a verdict is about the case it stands under; a report shows what it
   says; builders do not meet; a fixture that is removed belongs to no case.

`PROJECT.json` lists the hazards behind these, each at its line, with the properties that would
notice it going wrong.

## 2. Modules

| module | models | kind |
|---|---|---|
| `EmbedKeys` | `keyBetween`, `keyAfter`, and the second pass as a function of a document (`AssignIds`, `Rekeyed`) | operators |
| `KeyAssign` | the same pass as the loop it is, one step per block | state machine |
| `MdEmbed` (uses `EmbedKeys`) | md-embed, ipm.embed and ipm.check over a tree of files, with crashes and the user's saves | state machine |
| `MarkerLines` (uses `EmbedKeys`) | one document as its lines: scanning, attachment, rewriting, clean-ups, run after run | state machine |
| `NodeKind` (uses `Validate`, `IpmtText`) | `solveCore`, one step per turn of each of its loops, and the graph and the text made of its result | state machine |
| `Validate` | the rules of ipm-validate, those that are errors and those that warn; its treatment of Markdown blocks, and its exit codes | operators |
| `IpmtText` | the tokenizer, the parser and the serializer | operators |
| `DocViews`; `LspSession` | what editor and server hold of a document; what an editor may rely on | operators; abstract specification |
| `RpcServer` (implements `LspSession`) | ipm-rpc: its cache, notes, tasks, shutdown | state machine |
| `LspWire` | two pipes, one for each direction | abstract specification |
| `RpcTee` (implements `LspWire`) | the two pumps and the recorder | state machine |
| `CaptureCorpus` (extends `RpcTee`) | takes, captures and the curation of scenes | state machine |
| `EngineCache` | `BuildEngineWith` over the shared cache, one step per file operation | state machine without a `Next` of its own |
| `Columns` | which columns a history, lineages and flags give | operators |
| `Timeline` (composes `EngineCache` and `Columns`) | runs of layout-timeline | state machine |
| `SyncCases` | extraction, naming and the record; the runs of sync-test-cases and refs-rehash | state machine |
| `LayoutMembership`, `LayoutSkeleton`, `LayoutTiles` | the combinatorial stages of layout7 | operators |
| `Layout` (uses these, `IpmtText`, `Validate`) | an author who edits a text that is read, validated and laid out | state machine |
| `Geometry` | a drawing: points, boxes, ports, routes | operators |
| `LayoutRules`, `RuleText` | what the rules say of a drawing; how they are read from tokens | operators |
| `RuleBook` | the layout-test runner over a document of cases and rules | state machine |
| `LayoutCheck`, `LayoutDiff` | the findings of the audit; the report of changes between two drawings | operators |
| `Canvas` | a drawing that a consumer changes and that passes put right | state machine |
| `SetInduction` | a least element, and the two inductions the proofs need, for sets | proofs |
| `KeyAssignProofs`, `NodeKindProofs`, `MdEmbedProofs`, `RpcServerProofs`, `CaptureProofs`, `TimelineProofs`, `SyncCasesProofs` | theorems about the module of that name (`CaptureProofs`: about `RpcTee` and `CaptureCorpus`) | proofs |
| `MC...` | instances for TLC | models |

A definition named *X* followed by a word (`KeepBlockForgets`) and commented as a mutant is a
plausible bug in *X*. It is used by nothing; `PROJECT.json` names the property that fails when it
takes the place of *X*. The definitions named `...Inv` are inductive invariants.

### EmbedKeys and KeyAssign

A key is three base-36 characters; its lexicographic order is the order of the number it stands for,
so a key is that number: `KeyMax = 46655` ("zzz"), `KeyFirst = 1296` ("100"), `KeyStep = 36`
("010"). Other ids (the name of an included file, an id written by hand) are values outside.

| TLA+ | code |
|---|---|
| `es` | `results` after the first pass: is the block embedded, and under which id |
| `i`, `prev` | the index of the loop, `prevKey` |
| `ids` | `NewMarker.ID` of the results |
| `Preserved`, `NextKey` | the `preserved` flags and `nextKey`, both computed before the loop |
| `SkipEntry`, `KeepEntry`, `AssignEntry`, `ExhaustEntry` | the branches of the loop; the last when even `keyAfter` finds nothing |
| `fell` | history: an interval had no room, or the key space was exhausted |

`AssignIds` is the same code as a function of the document, and the one `MdEmbed` and `MarkerLines`
call. The two forms of the same lines are not compared by a run.

### MdEmbed

A file is the sequence of its blocks. A block has a source (a visible fence's text up to the
normalisation the hash applies, or the name an include line gives), the flag of its fence, a shape
(whole, not closed, an include without `src=`) and a marker. An SVG on disk is what its meta comment
and its picture say: the source and the flag it was rendered from, the file and the id of the block it was
rendered for (`source-file`, `source-id`), and whether it is complete. One run is a record in `run[p]`; its `pc` is where it is:

| pc | actions | code (`main.go` unless said otherwise) |
|---|---|---|
| `idle` | `StartCli`, `StartRpc` | `main` up to its loop over the files, `cmdEmbedOrCheck` |
| `open` | `OpenFile` | read of the file and `AnalyzeMarkdown` |
| `block` | `SkipBlock`, `KeepBlock`, `CountStale`, `LeaveSvg`, `WriteSvg`, `AbortRender` | the loop over the blocks in `processFile`, `RenderAndWriteSVG` |
| `drop` | `DropRenamed` | `os.Remove` of the SVG of a re-keyed block, `render.go` |
| `block`, at the end | `WriteMd` | `ApplyMarkers` and `os.WriteFile` |
| `open`, nothing to do | `ListOrphans`, `Finish` | `pruneOrphans`, return |
| `prune` | `PruneOne`, `Finish` | `os.Remove` of one orphan |
| any | `Crash` | the process is killed; it may leave half an SVG |

`SaveDoc`, `SaveInclude` and `LoseSvg` are the user: an edit of a document (`EditKinds` names the
kinds a run allows), of an included source, and a deleted or reverted SVG. The text that is written
is the one that was read, with the markers of the analysis: a save in between is lost, as in the
code. There is no lock to model.

`synced`, `swept`, `dropped` and `checked` are history: what the last undisturbed run had done when it
ended. A run is undisturbed (`calm`) when no other was under way when it started and no other started
and nothing was saved while it ran. The properties are about undisturbed runs because nothing can be
promised of the others; but the states in which they *start* are whatever disturbed, crashed and
failed runs left.

### MarkerLines

`doc` is the sequence of lines: text, blank, a run of fence characters with its info string, a line of
ipmt, an include, an inline fragment (`<!--ipmt-->` with or without a code span), a marker with its
position, its picture, `<details>`. `BlocksOf` is `ScanBlocks`, `Attach` is `attachMarker` with
`claimedLine`, `Analyze` is `AnalyzeMarkdown`, `ApplyMarkers` with `CapAwaySideBlanks` is the rewriting.
`Run` is a whole run on the document; `Insert` and `Delete` are the author (`Pastes` is what may be
put in). `crashed` says that the clean-up ran past the end of the file (section 3).

### NodeKind

Nodes are `1..NumNodes` in the order of declaration. `dom[i]` is the candidate list of node `i` (its
order is left out, except for its head), `conf[i]` its confidence, `alive` the edges that are left.

| pc | actions | code (`solve.go`) |
|---|---|---|
| `dedupe` | `Dedupe` | `dedupe` |
| `order` | `VisitNode`, `NextPass`, `LastPass` | `orderCandidates` |
| `pick` | `PassOver`, `TryKind`, `Retreat`, `Picked` | `assignPrimaries` and its recursive search; `tried` and `pick` are the frames of the recursion |
| `defaults` | `ApplyDefaults` | `applyDefaults`, when called as `SolveWithDefaults` |
| `drop` | `DropInvalidEdges` | `dropInvalidEdges` |
| `cycles` | `Root`, `CutBackEdge`, `Descend`, `KeepCrossEdge`, `Return`, `Acyclic` | `breakCycles`; `path` is the stack of the recursive DFS, `seen` and `color` its marks, `cut` what it dropped |

The end of the module is the result as others see it: `GraphNodes`, `GraphEdges` and `KeptEdges`
(`graph.go`), the validator's verdict on it (`OutputIsValid`, by way of `V == INSTANCE Validate`) and
the text written for it, read again (`OutputReads`, by way of `I == INSTANCE IpmtText`). The table of
type pairs is written down twice, in `NodeKind` from `typePairValid` and in `Validate` from the
validator's table, because it is in the code twice.

### RpcServer

| variables | code |
|---|---|
| `views`, `received`, `panel`, `polite` | the editor: its documents, what it has been told, the diagnostics it shows, whether it waited for the answer to shutdown |
| `log`, `taken` | the messages in the order sent, and how many the connection has read |
| `heap`, `docs` | the document structs, and the map from URI to one, under the mutex |
| `note`, `tasks`, `diags`, `answers` | the notification at work, the requests at work, what waits to be published, what was answered |
| `attached`, `shutdownReceived`, `exitCode`, `stopping`, `stopped` | `server.go:98-190` |
| `last`, `ended` | history for the properties |

`SendOpen`, `SendChange`, `SendClose`, `SendAsk`, `SendShutdown`, `SendExit`, `Receive` are the
editor; `Attach`, `TakeNote`, `TakeAsk`, `Interrupt`, `Stop`, `Return` the connection and `main`;
`StoreOpen`, `StoreChange`, `StoreClose`, `Publish`, `HandleExit` the notifications, where publishing is
a step after the unlock; `Snapshot`, `ReadText`, `AnswerAsk`, `HandleShutdown` the requests, where
finding the document and reading its text are two steps. `LspSession` has the editor's state only.

### RpcTee and CaptureCorpus

`left` is what each end still says, `sent`, `toServer`, `served`, `said`, `toEditor` the messages on
their way, `srv`, `pump`, `open`, `inClosed` the ends; `holder`, `off`, `enc`, `seq`, `file` the
recorder with its mutex. `PumpUp` and `PumpDown` forward and then record, one step each for `Lock`,
`Number`, `Encode` or `EncodeFails`, and `Unlock` or `GiveUp`; `EndUp` and `EndDown` end a pump;
`ServerEnds`, `ServerDies` and `Close` end a session; `PassOver` is a message with no line of its own.
`CaptureCorpus` adds `takes` (what really happened in each session), `captures`, `corpus` and the
curation run `all`, `todo`: `KeepTake`, `Restart`, `StartCurate`, `CurateOne`, `CurateStops`.

### EngineCache, Columns, Timeline

`EngineCache` has one record per source tree, binary and adapter of a commit, the merge helper and
its mutex, and in `call` what each builder does: `Stat`, `ExportStart`/`ExportEnd`, `ExportFails`,
`BuildPackage`, `LockMerge`, `EnsureMergeTool`, `CompileHelper`, `HelperFails`, `WriteAdapter`, `FillAdapter`, `CleanUp`, in the order of
`engine.go`. `Faults` says in whose builds git, tar or the build of the helper may fail. `Columns` is `weeks.go` and `lineage.go`: sampling a history, head columns, several
lineages, and the undated and published columns. `Timeline` runs both: `List`, `StartRun`, `TakeJob`,
`JobDone`, `BuildAllDone`; then for each column `SkipColumn`, `AskEngine`, `NoEngine`, `BuildWorkdir`,
`StartSweep`, `SweepDiagram`, `SweepDone`, `CompareDone`, `PutPane`, `PanesDone`; then `RemoveOrphan`,
`PruneDone`, `ClearPages`, `WritePages`. `EditDiagram` and `Crash` may come at any step.

### SyncCases

What one run computes comes first: `Extract` by the four lanes, `Collapse` (equal contents),
`ResolveCollisions` (names), together `CasesOf`; `BuildRefs`, `RefsEqual`, `Extras`. A destination's
`_refs.json` is a function from the sources that give a case to their hash and its items. Then what
happens to the files: `Start`, `WriteRefs`, `WriteFile`, `FindExtras`, `RemoveExtra`, `NextDest`, `Finish`,
`Crash`, between them the author's `Put` and `Edit`, the generators (`Generate`) and refs-rehash (`Rehash`).
`verdict`, `calm` and `patchy` are history: what the last complete run found, whether nothing has been
touched since it started, and whether a killed or filtered run has been there since. At the end of the
module stand what the theorems assume of the documents: `NamesAreDistinct`, `LanguagesAreKept`,
`DiagramsHaveOneHome`.

### Layout

`text` is what the author wrote (`TypeLine`, up to `Room` lines more), `pc` the stage: `ReadText` or
`RefuseText` (parser and validator), `ResolveMembership`, `BuildSkeleton`, `Assemble`. `mem`, `skel` and
`board` are the results: who is whose anchor; ranks, rows and grids; rings and tiles.

### RuleBook, LayoutRules, RuleText, LayoutCheck, LayoutDiff, Canvas

`RuleBook` has a document of cases (`items`: scopes and rules at line numbers), an `engine` and a
`report`; `WriteItem` and `EraseItem` are the author of the rules, `EditCase` the author of a case, whose diagram
may become invalid (`unfit`) or valid again, `ChangeEngine` the development of the engine,
`RunTests` the runner with everything it carries from line to line. `Canvas` has a drawing:
`MoveNode` and `PinPort` are a consumer, `ApplyPins`, `OrderPorts` and `Detour` the passes. `MCLayoutTests`
adds to it what the engine may do between two drawings (`Relayout`, `Grow`, `Hide`, `Renumber`).

### Abstractions

* `MdEmbed` leaves out `--no-prune`, `--dry-run` with `--force`, `--force-meta` and the generated-by
  stamp (a render whose only difference is the stamp leaves the file, `LeaveSvg`), blank lines, and
  which of two neighbouring blocks a marker belongs to: that is the subject of `MarkerLines`.
* One step in `MdEmbed`: reading a file and analysing it; listing the SVG directory for pruning;
  replacing a Markdown file; and for one block, reading its SVG, comparing it and writing it. The step
  stands at the write: an SVG another run puts there, or removes, between the read and the write is
  overwritten, or it already shows what would be written and the model leaves it (the two may differ in the flag
  of a fence changed since, and in the block a shared `path=` was drawn for). Between any two other calls
  anything may happen. A crash while an SVG is written leaves it cut short before its meta comment or behind
  it (`Cuts`; the run has the first). I/O errors other than a file that is gone are a `Crash`.
* `IpmtText` has a text in two forms: lines of node specs and arrows (`ParseLines`), and passages of rows
  as they are typed, with quotes, comments, continuations, labels and markers (`Parse`, which makes
  lines of them first). Escapes, tabs, quotes over several rows and positions are left out. `RuleText` works
  on tokens. `Layout` has no distances. In `Geometry` a port
  stands at hundredths of its side, and quotients are compared as fractions.
* `RpcServer` leaves out what hover and tokens compute. `RpcTee` leaves out the JSON of a line; its editor reads to
  the end what it is sent, so the tee never fails to forward to it.
* In `SyncCases` the items of a record are a set where the code has a sequence. An item carries its line and the
  sequence is in the order of lines, so one follows from the other. A file `--rm-extra` wants removed can be removed.
* Where the code tests one condition after another, the models have `IF` chains: an overlapping `CASE` is
  an unordered choice in TLA+, which TLC happens to evaluate in order and a proof may not.

## 3. Runs

Every `.cfg` is run on the module of its name with `MC` in front (`tlc -config Layout.cfg MCLayout`;
`KeyAssign_*`, `MdEmbed_*` and `NodeKind_graphs` on `MCKeyAssign`, `MCMdEmbed`, `MCNodeKind`). Deadlock
is checked where the system never stops: `KeyAssign`, `MdEmbed`, `SyncCases`.

| run | question | instance | distinct states |
|---|---|---|---|
| `KeyAssign_small` | does one pass keep ids, keep them distinct and in order? | every document of at most four blocks, each live or not, with any of nine keys, a name or no id | 1,215,369 |
| `MdEmbed_runs` | does an undisturbed run repair what crashed, failed and concurrent runs and the author leave; does `--check` tell? | one file with a visible block and an include, at most two blocks; one md-embed (whole tree, or `--check`) and one ipm.embed or ipm.check at full interleaving; two saves of nine kinds; a source in error; one crash, which may cut an SVG before its meta comment | 2,598,955 |
| `MdEmbed_tree` | is anything carried wrongly from file to file; does a second run change anything; does a run end well? | three files, one of them ignored, an include, `path=` overrides, every combination of flags, three saves (an include edited or missing, a `path=` set or taken off, an SVG lost or reverted), one crash | 293,083 |
| `MarkerLines` | does a run find what the one before wrote, and keep the author's lines? | files of up to three parts with markers on either side, copies, `<details>`, examples in fences, skipped blocks; inline fragments; one more insertion or deletion; two blank lines allowed at a marker | 75,739 |
| `NodeKind_graphs` | is the solver exact, and does its output validate, as a graph and as text? | four nodes: every graph of at most three edges with one edge per pair, every ring, every list of two edges (duplicates and self-loops among them); with and without defaults | 1,062,566 |
| `RpcServer` | does the server give an editor what `LspSession` promises? | one document in two languages, two edits, one request, shutdown, exit and a signal in every order | 606,770 |
| `CaptureCorpus` | is the tee two pipes, and is the corpus what was typed? | two sessions of two messages with a capture that may fail at any line; curations that may be interrupted | 821,766 |
| `Timeline` | do builders keep out of each other's way, and do report, gallery and columns tell the truth? | two runs of two requests, two builders beside main, two diagrams, one edit, an export or a helper that fails for one of the commits, a kill at any step; the columns of some 776 requests over four configurations and small histories | 1,318,949 |
| `SyncCases` | is what the record says there, and is only what is retired removed? | two documents, five configurations, three turns of edits, generators, refs-rehash, filtered and killed runs, torn writes | 1,986,980 |
| `Layout` | does the layout follow from the diagram, and the text mean the diagram? | every diagram of four nodes and three edges over eight choices of kinds, six larger ones with composites, shared things, satellites and chains of ties, texts of two lines of any kind; up to three lines more | 643,489 |
| `LayoutTests` | are verdicts about their case; do rules, audit and report agree; do the passes on a drawing do what they say? | three cases on seven lines with up to two of 52 rules, under scopes or none, and diagrams that may be invalid; three engine versions; four drawings under two changes | 160,025 |

`KeyAssign_code` is the one run that shows a disagreement (below). Between them the passing runs fire
every action. Each takes between a quarter of a minute and four minutes with two workers.

### What each run checks

| run | properties |
|---|---|
| `KeyAssign_small` | `KeyAssignInv`, which contains `TypeOK`, `ExistingIdsKept` and, under its conditions, `DistinctIds` and `KeysAscend` |
| `MdEmbed_runs` | `RunsRepair` (that is `RunsSync` and `NoOrphans`), `CheckIsHonest` |
| `MdEmbed_tree` | `Idempotent`, `RunsSettle` (under `FairSpec`) |
| `MarkerLines` | `Idempotent`, `TextKept` |
| `NodeKind_graphs` | `SolverInv`, `PruningIsExact`, `PrimariesAreBest`, `CutsCloseCycles`, `OutputIsValid`, `OutputReads` |
| `RpcServer` | `ServerInv`, `AnswersAreSnapshots`, `SessionSpec` (refinement of `LspSession`), `ExitEnds` |
| `CaptureCorpus` | `CaptureIsAMerge`, `WireSpec` (refinement of `LspWire`), `CorpusIsOfTheTake`, `CorpusCovers` |
| `Timeline` | `BuildersDoNotMeet`, `RowsCompareEngines` (with `ColumnsAreTheHistory`), `GalleryIsTheColumn`, `ReportIsServed`, `RunsEnd` |
| `SyncCases` | `TwoRunsSettle`, `CheckIsHonest`, `RemovalsAreOfTheRetired` |
| `Layout` | `HangsAtOne`, `TimeReadsDown`, `TiedStandTogether`, `TextMeansTheDiagram`, `SuggestionsHelp`, `StoriesKeep` |
| `LayoutTests` | `VerdictsAreDeclared`, `RulesAndAuditAgree`, `ReportIsSound`, `PortsInOrder`, `DetoursClear` |

### The bounds

* *KeyAssign*: four blocks and nine keys are enough for a block before, between and after two preserved
  ones, a duplicate, an interval with one key of room, one with none, and a full key space in one
  document; the proof removes the bound.
* *MdEmbed*: two saves let one edit prepare what the next one spoils (a marker is written, then
  copied; an include is written, then lost), with a run between them and after them. One crash at any
  step is followed by any run; a second would start from a state that a run after the first could
  also have reached. With three files a third save is needed: an include, an SVG lost, and a `path=`.
* *NodeKind*: three edges on four nodes give every path and every star on which pruning, picking and
  the preferences depend; a ring is the longest way information has to go, and the only thing that
  makes the passes come near their bound `n + 2`; lists of two edges exercise `dedupe`.
* *RpcServer*: two edits are an old text and a new one, and what is published may be overtaken by
  either; the proof removes the bound. `EagerClient` is `FALSE`: with an editor that does not wait for
  the server to be attached, messages may be dropped (below).
* *CaptureCorpus*: two messages each way give every order of forwarding and recording; two sessions
  are one capture after another in one file. The proof removes both bounds.
* *Timeline*: three callers are two that race and one that comes later; two columns are one that is
  compared with the other, and the request with a commit that does not build has one between them.
* *SyncCases*: three turns of the author and the tools are a change, a run that is killed, and a
  change before the next.
* *MarkerLines*, *Layout*, *LayoutTests*: each case of the code that looks at its neighbours has all
  its neighbours in some document; larger documents repeat them. In *LayoutTests* the rules that compete for one
  key stand under every scope; each of the other texts stands in one place only, under a global scope, and is read
  of the three drawings of the first case: what it means is checked there, and not how it competes.

### Fairness

`MdEmbed!FairSpec` assumes weak fairness of the steps of each process, `RpcServer` and `CaptureCorpus` of
the server's goroutines, of the pumps and of an end that reads what it is sent, `Timeline` of the
steps of a run and its builders. None of these waits for anything but a mutex whose holder is
itself fair, a file operation, or the other end of a pipe that an editor reads; so once started they go
on until they return or are killed. Nothing is assumed of starts, saves, edits, requests and crashes.
`RunsSettle` speaks of a run that is not killed: it asks for the bound on crashes to be used up;
a source in error ends a run by design, and a disturbed run may be undone by whoever disturbs it.

### Where the code and its documents disagree

`KeyAssign_code` checks one sentence, and TLC finds the behaviour that breaks it: docs/md-embed.md:298
says that blocks get different ids, "so the two never share one SVG". `keyBetween` has no room below
the next key and `process.go:293` takes a step past the previous key without looking who has it. With
the code's own numbers the sixth insertion after the first block of a fresh document gets the id of
the next block.

The others were met while modelling. The properties are stated so that they hold beside them.

*md-embed.*
- docs/md-embed.md:3 "running twice on an unchanged source is a no-op": a copy-pasted block is
  re-keyed, and the SVG under its old id, which is that of the block it was copied from, is removed
  (`render.go:97`); the second run renders it again. Hence `dropped` in `RunsSync` and `Idempotent`.
  Two blocks of different sources whose markers have one `path=` overwrite each other's SVG on every run,
  and none ends with both in sync: `RunsSync` and `RunsSettle` are about trees where they agree (`SharersAgree`).
  Two of one source share it, but its meta comment names the block it was drawn for last, so a run with
  `--force` writes it once for each (`svgmeta.go:35-43`, `render.go:82-86`); so it does once where a `path=` takes
  over another block's SVG. `Idempotent` names these cases (`Restamped`). No document speaks of `path=`.
- docs/md-embed.md:3 "keeps committed diagrams in sync": the hash covers the text of a fence, not its
  flags; after `unresolved` or `defaults` is put on or taken off, the old SVG counts as fresh.
- docs/md-embed.md:330 prunes SVGs "that no marker references": it keeps those of blocks it
  processed; a block whose fence is invalid for the moment, or whose file is ignored, loses its SVG
  and keeps its marker. Pruning can also remove an SVG that ipm.embed wrote after md-embed had
  listed what it expects.
- `main.go:231, 343-346`: `rerender` counts blocks, but is decremented also for a block counted as
  inserted or rehashed, when its SVG is already there after a crash: -1.
- Two blocks that were swapped, and a third appended behind them, can end with one id
  (docs/md-embed.md:297-298); a second include of a name put *before* the first takes over its id and
  its SVG (docs/md-embed.md:296); an SVG cut off behind its meta comment counts as fresh; a save
  between md-embed's read and its write is overwritten (`main.go:366`).

*Marker lines.*
- `process.go:381-383` promises that the clean-up stays inside the file: with a `pos=before` marker
  near its end and more blank lines than the cap, `capAwaySideBlanks` panics (`process.go:394`).
- That clean-up and `pos=before` do not know of fences (`fence.go:19-21`, `scan.go:77`).
- A block put directly above a `pos=before` marker takes it over (docs/md-embed.md:297, `scan.go:210-230`).
- mdhtml shows the `pos=before` figure of the next block above the source of the previous one.
- A rewritten marker loses the attributes it does not know (`process.go:200` against
  `marker.go:27-30`); the marker of a deleted block stays (docs/md-embed.md:59 says it goes); a stale
  `pos=` on a marker that is current is not made canonical (docs/md-embed.md:199, 216).

*Solver, parser, validator.*
- docs/ipmt-unresolved.md:33 "Event is never a default": a grey node with the candidates event and
  concept that is no target of Expresses prefers thing, cannot be one, and gets event.
  `solve.go:100-102` says that defaults are "otherwise Event"; the code takes thing. A part that is
  also expressed is forced to be an event without any LeadsTo.
- `ipmtext.go:17-20`: generated aliases (`e1`, `t2`) collide with node names of that form; an
  alias-only node loses its label when written; the alias of a node declared again is dropped
  (docs/ipmt-spec.md:123 knows); an alias used before its declaration makes a thing of that name and
  the declaration's name and kind are lost (`parse.go:49-52`). `toRecs` keys nodes by name, so
  nodes that only have an alias become one.
- docs/ipmt-parser.md:88-90 rejects duplicates of an ordered pair; the code rejects conflicting
  relations of an unordered one; `validator.go` says the parser enforces 1.1, but it accepts
  self-loops. A dangling arrow `a -->` is silently accepted.
- docs/ipmt-spec.md:230 says that two dashes without a head are invalid; `A-- B`, `a --::P-- b` and
  `a <--near-- b` are read as names with dashes in them. A row that begins with `#` inside a quote that is
  continued over rows is dropped as a comment, and indented rows below a comment go with it.
- Rule 2.6 skips strongly connected components of one node, so a whole that leads to a part of its
  part passes; 2.8 may then name the source itself as container, and following it closes a real
  cycle. Rule 2.9 takes the whole with the lowest number, the layout the last one.

*Server.* Messages before `attachJRPC` are dropped, and an exit that arrives then never stops the server;
`SessionSpec` and `ExitEnds` are about an editor that waits.

*Tee and corpus.* After one failed write the encoder fails for ever; a diagnostics line may be recorded
before the state it is about; a server that dies first leaves the tee waiting for the editor;
sessions in one file are interleaved by a stable sort on their numbers; a scene first seen unrendered
stays so; includes are resolved from the last text of the buffer. `ipm.embed` calls its argument
`file`, the tee reads `uri`: such a save gets the scene ".", and curating it removes the whole
corpus, against the `--out` help of `states-curate/main.go:89`.

*Timeline.*
- An adapter in the cache leaves a stale merge helper in use, against `engine.go:303-310`; adapters are
  cached by commit only; a torn one counts as cached; a source tree stays after a crash; one commit in
  two repositories gives two jobs in the same directories (`LineagesAssumption` excludes it). Of two recipes
  with an adapter for one commit, the adapter of one passes for the other's (`OneRecipeEach` is a hypothesis).
- Columns of commits of the same second: `insertByDate` orders by date only, so an older commit may
  land behind its descendant and the head column may be repeated, against `weeks.go:640-648` "Order
  is not cosmetic". The "now" column has no date, so the published column stands before it; without
  any dated column it stands behind the working tree. `--head-commits 0 --head-hours N` shows nothing,
  against `weeks.go:566-569`. `window.from` is documented as exclusive (`config.go:213`), `--since` is not.
  Recent and head columns lose the recipe of their lineage. The published column's span is not counted.
- `noteQuietEngine` overwrites the warning of nondeterminism (`main.go:1051-1071`, `1007-1014`);
  `--limit` drops diagrams from the gallery; a diagram edited during a run shows as a change of the
  engine; `renderCurrent` builds without the tip's recipe; a crash between pruning and the pages
  leaves old pages with missing pictures (`ReportIsServed` is about the pages of a run that came so
  far); a torn picture is kept for ever; the note of an edited corpus is lost after a run that was killed.

*Test-case corpus.* `--check` never reads a fixture (docs/dev-tools/sync-test-cases.md, `ci.yml:50`):
one edited by hand, and then rehashed, passes. Names are numbered per base only, so "x" and "x-02"
may clash (`nameutil.go:42`). Equal contents anywhere drop a case with its expectation. A filtered
run may name a case differently. Temporary files are never extra. A new case has no `outputs.ipmt`
until the second run, and the runner skips it till then. The extractor does not know of nested fences
where other readers do. refs-rehash adds to a record the hash of a leftover "ipmt" file of a retired
case in another language, so that a settled directory changes once more. A document edited between a run's
read and its record is recorded with its new hash and its old cases; this is why `LanguagesAreKept` is a
hypothesis of `ChecksAreTrue`.

*Layout.* A flow A to b1 and b2 to A with b1 and b2 parts of B passes every error rule and closes a
cycle once it is lifted: no start, no end (`place.go:1443` against docs/layout-principles.md:85). A concept tied to one event
and to an otherwise unconnected thing leaves the event's component; satellites leave empty components
that still count as tiles. layout-gen and ipmsvg lay out without validating.

*Passes on a drawing, reports.* `ports_order.go:20-26` says a re-deal "cannot introduce a crossing": it
can between partners of different depth, and two opposite edges whose ports are swapped oscillate;
"the set of fractions is unchanged" does not survive the mirror and the nudge. A detour is judged
against the straight line, ignoring the bends an edge has. In layoutdiff the texts of findings hold absolute
coordinates, so a shift of the canvas over a standing finding is a new finding, against
`diff.go:19-21`; pins of edges without a route are never reported (`match.go:153-156`). A baseline
written while a changed file does not parse forgets that file.

*Rule language.* A rule with an id selector never replaces one for its type; of two rules with one key the
later counts, not the stricter; `has height=60` and `>=40` are one key, as are any two compound
conditions of a type; `text-len` in a compound rule without a match fails; a local scope matches
by the anchor of a heading only. docs/dev/layout-gen/dsl-reference.md:115-121 and 161 give every fence a scope of
its own, local as long as it names none. The runner knows no fences (`main.go:171-253`): it starts with a global scope,
which is also what dsl-reference.md:111 calls the default, and keeps the last one until the next, past fences and
headings and into a section's preamble. So an item without a scope binds every case while no fence before it named
one, and otherwise as the last of those did. A scope wider than the one before is refused from one heading to the
next and not fence by fence (dsl-reference.md:138), a heading with "rules" in it does not count, and `@scope parent`
after the heading of a test is no error (dsl-reference.md:1015 says it is). Elsewhere too: an
invalid tag expression silently never applies (`scope.go:116`); trailing tokens are ignored.

## 4. What the properties say

`MdEmbed`. `InSync(f)` is the purpose of the program for one file: each embedded block has a marker
with an id of its own and the hash of its source, and the SVG it names is complete and shows that
source as the fence asks. `RunsSync` says an undisturbed run establishes it for every file it went
through and no run takes it away again, crashed and concurrent ones included, except that the run
that re-keys a copied block may remove an SVG of that file, which the next one brings back.
`NoOrphans` is the converse for the SVG directory, `Idempotent` says that then no run, not even with
`--force`, changes a document, and writes or removes no SVG, except that a forced one may draw an SVG under a
`path=` anew for another of its blocks, and `CheckIsHonest` ties the exit status of `--check` to `InSync`. The runs
leave out what the disagreements above provoke: a change of flags between two renderable ones, an SVG
cut behind its meta comment, an exhausted key space. `PassIsCurrent` is what a passing check can know
without these conditions; it and `FailIsHonest` are proved.

`MarkerLines`. `TextKept`: no line of the author's is lost, doubled or overwritten, and no foreign marker
changed, and after a run every live block has a marker the scanner finds at it.
`Idempotent`: the next run changes nothing (except in a source that contains a pair of markers itself).

`NodeKind`. `SolverInv` contains `NeverGuesses`: pruning takes from a node only kinds that no typing of
the whole graph gives it. `PruningIsExact` is the converse: what is left is the node's kind in some
typing, within the passes the code allows. `PrimariesAreBest`: the picks are, node by node, the best that any typing allows.
`CutsCloseCycles`: `breakCycles` drops an edge only if it closes a cycle with edges that stay, and
leaves none. `OutputIsValid`: no rule of ipm-validate finds an error in the result, happens-before (2.6)
included, be it a file or a block of a page, and the publish gate lets it pass; what is grey is
warned of. `OutputReads`: the text written for it is read as the same graph, and no line of it is idle.

`RpcServer`. `AnswersAreSnapshots`: an answer is about one state of the document, and one no older
than what the editor had sent before it asked. `SessionSpec`: what is on display only goes forward
in the edits it takes into account, is never of a document closed since, and in the end is of the
last text. `ExitEnds`: a server that is sent exit ends, whatever is queued.

`CaptureCorpus`. `WireSpec`: each end gets what the other says, in order and in the end all of it,
whatever becomes of the recording. `CaptureIsAMerge`: a capture is numbered as it stands, nothing
follows a torn line, and each direction is in it in order and without a gap. `CorpusIsOfTheTake`:
what is curated is a function of what the editor typed, not of which pump wrote first.
`CorpusCovers`: every recorded source is in its scene, and nothing of an earlier or interrupted run is.

`Timeline`. `BuildersDoNotMeet`: no binary is of a source another builder replaces, no two compile
the helper at once, none writes an adapter while the helper it names is not there.
`RowsCompareEngines`: a column has a row for a diagram nobody edited exactly if its engine lays it
out differently from the newest one swept before it; and the columns tell the history once and
forward. `GalleryIsTheColumn`: pictures carried on from column to column are those the engine would
draw. `ReportIsServed`: the pictures the pages refer to are there. `RunsEnd`.

`SyncCases`. `TwoRunsSettle`: two complete runs bring files and records in step with the documents,
whatever killed, filtered or overtaken runs left. `CheckIsHonest`: when `--check` passes after a complete run
that nothing cut short since, every snippet has its file with its content and the runner finds it.
`RemovalsAreOfTheRetired`: `--rm-extra` removes nothing that belongs to a case.

`Layout`. `HangsAtOne`: what hangs together hangs at one event. `TimeReadsDown`: every event has
one place, and an event stands below those that lead to it, also through grids. `TiedStandTogether`:
every component is tiled once, around one placed before, and tied ones stand together.
`StoriesKeep`: one near-to more, or one expresses between events, takes no node out of its component.
`TextMeansTheDiagram`: what is parsed is what validator and layout take it for, and what is written
for it is read as the same graph. `SuggestionsHelp`: the suggestions of 1.4, 2.7 and 2.8 can be followed.

`LayoutTests`. `VerdictsAreDeclared`: a case is tested by the items whose scope, as the docs give it to each fence,
reaches it, of rules about one thing by the strongest; and there is no verdict without a rule, or with a case
the validator refuses. It claims a verdict where the runner's scopes come to those of the docs (`ScopesAreTheirOwn`):
a local item has a heading, and one without a scope follows a local one under the same heading. Without that
it fails, as section 3 tells. `RulesAndAuditAgree`: audit and rules judge a line alike, and as it is seen.
`ReportIsSound`: a report of no change means the same picture; its shift leaves as many nodes still as any
other; both ways round it tells of the same additions; nothing the audit finds worse is a matter of taste.
`PortsInOrder`: after the pass no two ties leave a side at one place, and two whose partners stand level
and were not moved do not cross. `DetoursClear`: a detour is taken only where a box stood in the way, and meets none; and
the last one taken crosses no more of the lines as they run in the end than a clean way round a corner of a box in its
way would, so it was not chosen against lines that are no longer there.

## 5. What is proved

All theorems are checked by tlapm from the named assumptions on the constants; there is no other.

| assumption | what it says, and why |
|---|---|
| `KeysAssumption`, `InputsAssumption` | the key space is an interval of naturals with its first key inside and a positive step; documents are sequences of entries; names and the empty id are no numbers (`key.go`) |
| `NodesAssumption`, `InputAssumption` | there is a node; edge lists are lists of edges between nodes (`toRecs`; for the empty graph there is nothing to do) |
| `EmbedAssumption`, `TreeAssumption`, `KeptAssumption` | `--check` excludes `--force` (`main.go:106`); an RPC call is on one file; the tree starts with documents and includes of their types; values that stand for "none" are no values; a `path=` leads out of the SVG directory (one that leads into it is not modelled); the files of the walk are those no pattern ignores - this is what `SelectSeq` computes, which the prover cannot unfold, and TLC evaluates |
| `DocAssumption`, `ServerAssumption` | types of the documents, edits and bounds |
| `TeeAssumption`, `TornAssumption`, `CurationAssumption` | types of the sessions and of what is curated; a torn line is no line |
| `CacheAssumption`, `TimelineAssumption`, `LogAssumption` | types of recipes, histories and requests; every recipe builds something |
| `LineagesAssumption` | repositories share no commits: with shared ones builders do meet (section 3) |
| `ConfigsAssumption`, `DocumentsAssumption` | types of the configurations and documents of the test-case corpus; every destination is listed |
| `LinesAssumption` | types of `MarkerLines`, of which no theorem speaks |

Some theorems have hypotheses, because the claim is false without them. They are about constants, stated by
name in the theorem, and TLC evaluates those of `SyncCases` and `Timeline` as assumptions of `MCSyncCases`
(`CorpusAssumption`) and `MCTimeline` (`RecipesAssumption`), so the runs are about instances that satisfy them.

| hypothesis | what it says, and what happens without it |
|---|---|
| `PlainTree`, `[]RoomForKeys` | below, with the theorems of `MdEmbedProofs` |
| `OneRecipeEach` | a commit is built by one recipe; otherwise the adapter of one passes for the other's |
| `NamesAreDistinct` | the cases of a destination have a file each: no heading is spelled as another one with a number behind it (`nameutil.go:42` counts per base only) |
| `LanguagesAreKept` | a text that is moved or edited back comes in the language it had; otherwise the record may name a file under another extension |
| `DiagramsHaveOneHome` | a text that is no rule is extracted once; otherwise two destinations hold it by turns |

Induction over data is out of the prover's reach, so an argument that would be one is turned round:
what fails for some number fails for a least one (`SetInduction`), and that one is refuted by what
holds below it.

**`KeyAssignProofs`** - `KeyAssignInvariant`, `TypeCorrect`, `ExistingIdsAreKept`,
`KeysAscendInDocumentOrder`, `IdsAreDistinct`, for every key space, step and document. That ids are
distinct is not inductive: that the next key is new depends on where `prevKey` stands.
`KeyAssignInv` adds that ids not yet handled are those of the first pass (`NotYetHandled`), that those
that had to be kept were (`KeptSoFar`), and, under the two conditions, that `prev` separates what
is handled from the preserved keys to come (`HandledBelowPrev`, `PrevBelowNext`) and what is handled
ascends. The arithmetic is in `KeyBetweenInside` and `KeyAfterAbove`.

**`NodeKindProofs`** - for any number of nodes and any list of edges:

* `SolverInvariant`, `TypeCorrect`, `TheSolverNeverGuesses`, `SafetyNetCatchesNothing`. The last is the
  least obvious fact about this code. A backtracking search may fail, and then the canonical
  candidates stand, valid or not. It does not fail because *only event can ever be forced*: the typing
  that makes every node an event satisfies every rule (`EventsFit`), so by `NeverGuesses` event stays a
  candidate everywhere, a decided node is an event, and the first grey node never runs out of kinds.
* `SettledPruningIsExact`: once a pass changes nothing, every candidate that is left is the node's kind
  in some typing of the whole graph. `SettledInv` says that a pass without a change has
  looked at every edge.
* `ThePruningIsExact` (the property `PruningIsExact`): the passes the code allows are enough, so the pass it gives up
  after has changed nothing. The comment at `solve.go:389`, that a node decides at most once, is not reason enough: a
  grey node may lose a candidate more than once. `InTimeInv` is the reason: a kind that a node loses
  reaches it along edges, one a pass at least, and there are no long chains of different causes. A concept
  is lost only for want of concepts; a thing for want of things, in which case the node is *struck*, or for want of
  concepts that struck nodes lose first. So after `p` passes `p` nodes have lost theirs, or all that
  ever will, or one that loses it is still to be visited; the things that wait for struck nodes start that much later.
* `PrimariesAreTheBest`: `BestInv` says that whatever typing is better than the picks so far has
  been tried and refuted; `Retreat` never leaves the first grey node.
* `CyclesAreBroken`: `SearchInv` is the invariant of the depth-first search - the path is a path, a
  finished node has only finished successors, a dropped edge goes back to the path. A cycle that is
  left would have a node that is finished first.
* `TheOutputIsValid`: every rule of ipm-validate that is an error, for the result as a file and as a block, and
  the publish gate. 2.6 is recursive over the graph: a pair that it finds in a
  cycle would be in a set of pairs without a sink, whose events make a cycle of the solver's own
  graph, which `CyclesAreBroken` excludes.
* `TheOutputReads`: the text written for the result, read line by line, is the same graph. After `k` lines the parser
  holds the nodes or edges of the first `k` (`IsRead`, kept by `NodeRead` and `EdgeRead`, which unfold every step of
  `ParseLine`), because no name or alias of a node is another's (`AliasesAreNew`), every edge is in the parser's table
  and one is left of a pair (`OutputInv`), and a grey node has two candidates at least (`GreyIsOpen`): a `::?` marker with one
  is refused. `EdgeLineMatters` and `NodeLineMatters`: a text without one of its lines is of another graph.

**`MdEmbedProofs`** - for any tree, any number of processes, saves and crashes, and any kinds of
edits:

* `TypeCorrect`: `FitInv` adds to `TypeOK` what a run has in hand (`RunsAreFit`): it is on files no pattern
  ignores, a block it would write has a source, one that does not write neither drops nor prunes.
* `PassesAreCurrent`: when an undisturbed `--check` of the tree passes, every live block has a marker with the hash of its
  source and an SVG rendered from it, and this stays so as long as the verdict stands, that is until
  something is saved or a run that writes starts. `FailsAreHonest`: when it fails, there is a
  file out of sync, or a block with a missing source or bad metadata. `CheckInv` is their invariant: an undisturbed run
  is alone (`CalmIsAlone`), while a verdict stands nobody writes (`VerdictStands`), and every file is
  still to be read, or its blocks so far are current, or all of them are (`ChecksAreRight`). The lemma
  the argument turns on is `ResultsTell`: what the analysis says of a block against what the tree holds.
  Neither needs the conditions under which `CheckIsHonest` holds in the runs.
* `TreesAreRepaired` (the property `RunsRepair`, so `RunsSync` and `NoOrphans`), `RunsAreIdempotent` and
  `ChecksAreHonest` have two hypotheses. Changed flags, SVGs cut short and exhausted keys break
  the claims (section 3); `path=` is left out because two blocks may give the same path.
  `PlainTree` is on the constants: no second way to render a fence (`solved`), no
  `path=`, no SVG cut behind its meta comment; the constants of the run `MdEmbed_runs` satisfy it.
  `RoomForKeys` is on the states: the ids `AnalyzeMarkdown` would give the live blocks of a file now are
  distinct and not empty. `IdsAreDistinct` of `KeyAssignProofs` says when they are.
* Their invariant is `RepairInv`. `RunsRepair` alone is not inductive: it says nothing of a run
  that is halfway. `TreeInv` is the state between two steps: synced files have current markers with
  ids of their own (`Fixed`), those without a re-keyed block show the right SVGs (`Shown`), and after a swept
  tree each SVG is named by some block. `RunInv` is what a run at work has in hand. On a synced
  file it is what the file holds now (`HandIsCurrent`), so even a run that began before the last save
  writes nothing stale there. The SVGs of a file it has not reached, or has passed, are not among its orphans
  (`PruningIsSafe`): this is where an undisturbed run and one that merely overlaps with it part. And
  what an undisturbed run has behind it is repaired, and is all it keeps besides what blocks name (`Repairs`).
  The lemmas it turns on: the analysis of a repaired file finds nothing to do but render (`FixedTells`),
  a file that is written is repaired (`WritingFixes`), and what is in hand of a synced file is what it
  holds (`SyncedHand`).

**`RpcServerProofs`** - for any documents, edits and requests: `ServerInvariant`, `TypeCorrect`,
`AnswersCorrect`, `ExitCodeCorrect`, `SessionSafety`. `ServerInv` is in eight parts: what the log says of the
views (`LogInv`, `ViewsInv`), the notification at work and the cache (`NoteInv`), what waits to be
published and what is on display (`DiagsInv`, `PanelInv`), requests and answers (`TasksInv`,
`AnswersInv`), the end (`ExitInv`). `SessionSafety` is the refinement: initial states map to initial
states, and every step is a step of `LspSession` or a stutter.

**`CaptureProofs`** - over any number of sessions and messages: `TeeInvariant`, `TypeCorrect`, `CapturesAreMerges`, `WireSafety`.
`TeeInv` is `TypeOK`, `WireInv` (where each message is) and `RecorderInv`: one pump holds the mutex
(`OneHolder`), what it has in hand (`InHand`), the numbers given and written (`NumbersInv`), and
that each direction's lines are those messages it is through with (`BalanceInv`).

**`TimelineProofs`** - for any number of commits, builders, recipes and runs: `BuildInvariant` and
`BuildersNeverMeet` (who holds which tree, binary, adapter and the helper, at every step of each);
`ReportsAreServed` (`ReportInv`: what the pages refer to, what this run keeps, and what may go);
`ColumnsAreTold` (`TypeOK` with `HistoryInv`: the columns written so far are of the engines that were
swept); `RowsCompareNeighbours` (which engine a column's rows compare it with); and
`GalleriesAreOfTheirColumns`, by a least column whose gallery is wrong. Under `OneRecipeEach`, `EnginesAreWhole`
(`EnginesInv`: what is in the cache and what each builder has in hand is of the one recipe of its commit, so an
engine main goes on with is all there, whoever built it and whoever was killed) and `RowsCompareTheEngines`
(`SweptInv`: every column and every snapshot holds what its engine gives for the texts it was given): rows say exactly
what moved, which is `RowsCompareEngines` but for `ColumnsAreTheHistory`, a condition on the requests alone.

**`SyncCasesProofs`** - for any documents, configurations and number of turns:

* `RemovalsAreRight`: a file `--rm-extra` removes has the stem of no case of its destination. Its invariant
  `ExtrasAreOfNoCase` needs no assumption at all.
* `TwoRunsAreEnough` (the property `TwoRunsSettle`), under `NamesAreDistinct` and `DiagramsHaveOneHome`: two complete
  runs settle every destination. `Settling` says what a run has behind it, in the order of the code: record, files,
  extras, destination by destination. The first run's record speaks of files it writes only afterwards;
  the second finds them, and only then is the record the one a third would write.
* `ChecksAreTrue` (the property `CheckIsHonest`), under `NamesAreDistinct` and `LanguagesAreKept`. `--check` reads no
  fixture, so its verdict rests on the records: `Truthful` says that for whatever case an item of a record names
  the file is there with its content, unless a run that is to write it is at work or the last one was killed or filtered.

## 6. What is only model-checked, and why

* Liveness (`RunsSettle`, `RunsEnd`, `ExitEnds`, `CorpusCovers`, the fair halves of `SessionSpec` and
  `WireSpec`) is outside the prover's reach, as are `ENABLED` and inductions with an operator parameter.
* `RunsRepair`, `MdEmbed!Idempotent` and `CheckIsHonest` are proved only under `PlainTree`. The run `MdEmbed_tree`
  checks `Idempotent` also with `path=` on the markers, of which `RepairInv` says nothing.
* `CorpusIsOfTheTake`, `CorpusCovers`, `ColumnsAreTheHistory`, `MarkerLines`: what folds, `SelectSeq` and sorts
  compute for every input is an induction over data. `TheOutputReads` meets only folds over lines, where the step from a line
  to the next is all that is needed (`LinesAreSteps`); of the parser it covers the lines that `Serialize` writes, not typed passages.
* `CheckIsHonest` and `TwoRunsSettle` of `SyncCases`, and `RowsCompareEngines` of `Timeline`, are proved only under the
  hypotheses of section 5, which the code does not ensure (section 3); of the last, `ColumnsAreTheHistory` is not proved.
* `Layout` (`HangsAtOne`, `TimeReadsDown`, `TiedStandTogether`, `TextMeansTheDiagram`, `SuggestionsHelp`, `StoriesKeep`),
  `RuleBook` and `Canvas` (the properties of `LayoutTests`): their operators are folds, sorts and `RECURSIVE` definitions.
* That `AssignIds` and the loop of `KeyAssign` are the same function.

## 7. Not modelled, and the plan

Not modelled because a model would show nothing: formatting of SVG and HTML, front ends,
the HTML of reports, generators and printers of the repository (sequential, no state between calls),
explanations of the solver's result, reading of configuration files. Of the layout engine, placing and
routing are left out: a numeric search over distances, without small instances. Of the server, what
hover, tokens and formatting compute from a text.

The plan for the proofs:

1. `RepairInv` with `path=` markers no two blocks share.
2. `MarkerLines!TextKept` with the folds written as functions, so that a least line can be refuted.
3. `HangsAtOne` of `Layout`, which is about one pass over the nodes.

## 8. Running it

    tlc -workers 2 -config MdEmbed_runs.cfg MCMdEmbed.tla
    tlapm MdEmbedProofs.tla

The largest run is `MdEmbed_runs`, two and a half million distinct states; the longest proof is
`MdEmbedProofs`, three to four minutes.
