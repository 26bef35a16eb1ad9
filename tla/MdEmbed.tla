------------------------------ MODULE MdEmbed ------------------------------
(***************************************************************************)
(* md-embed and ipm-rpc's ipm.embed on one tree of Markdown files: each    *)
(* run reads a file, analyses its ipmt blocks, writes an SVG per block     *)
(* that needs one, rewrites the markers, and (the CLI, on the whole tree)  *)
(* removes the SVGs it did not meet.  Every file-system call is a step of  *)
(* its own: the runs interleave with each other and with the user's saves, *)
(* and may be killed between any two steps.                                *)
(*                                                                         *)
(* A document is the sequence of its blocks; the prose, the blank lines    *)
(* and the line numbers are left out, and every marker belongs to the      *)
(* block it stands next to.                                                *)
(***************************************************************************)
EXTENDS EmbedKeys, SequencesExt

CONSTANTS
  FileOrder,    \* the .md files in the order of the walk
  Ignored,      \* those an embed-ignore pattern matches
  Srcs,         \* the ipmt sources, up to the normalisation HashIPMT applies
  BadSrcs,      \* those that do not parse or render
  Names,        \* the .ipmt files an ipm-include can name
  AuthorIds,    \* ids an author writes into a marker by hand
  Overrides,    \* the values of a marker's path=, all outside the SVG directory
  Clis, Rpcs,   \* the md-embed and ipm.embed runs
  CliModes,     \* the combinations of flags md-embed is started with
  RpcModes,     \* and the ones of arguments ipm.embed and ipm.check are called with
  InitDocs,     \* the trees the system may start from
  InitIncs,     \* the include sources it starts with
  EditKinds,    \* the kinds of save the user makes
  MaxBlocks, MaxSaves, MaxCrashes,      \* bounds
  Cuts,         \* where a crash may cut an SVG short: before the meta comment or after it
  Missing, NoMarker, NoPath, NoHash

Files == Range(FileOrder)
Procs == Clis \cup Rpcs

Opts == [force : BOOLEAN, write : BOOLEAN, whole : BOOLEAN]

ASSUME EmbedAssumption ==
  \* --check and --force together are refused; an RPC handles one file.
  /\ CliModes \subseteq {o \in Opts : o.force => o.write}
  /\ RpcModes \subseteq {o \in Opts : ~o.whole}
  /\ {MaxBlocks, MaxSaves, MaxCrashes} \subseteq Nat
  /\ BadSrcs \subseteq Srcs
  /\ Ignored \subseteq Files
  /\ Clis \cap Rpcs = {}
  /\ Names \cap Srcs = {}
  /\ Cuts \subseteq {"before", "after"}
  /\ EditKinds \subseteq {"content", "mode", "flag", "fence", "insert", "delete", "copy", "path",
                         "author", "include", "svg"}
  /\ {Missing, NoMarker, NoPath, NoHash, NoId} \cap (Files \cup Srcs \cup Names \cup Overrides) = {}

(***************************************************************************)
(* A block is [src, flag, shape, marker]: the source of a visible fence or *)
(* the name an include line gives; the flag of the fence; whether it has a *)
(* closing fence ("open": not) or a src= attribute ("nosrc": not).  NoHash *)
(* stands for the author's placeholder hash=tbd.                           *)
(***************************************************************************)
Flags == {"plain", "solved", "embedfalse", "bad"}
Shapes == {"whole", "open", "nosrc"}
BlockIds == Keys \cup Names \cup AuthorIds \cup {NoId}
PathAttrs == Overrides \cup {NoPath}
Marker == [id : BlockIds, hash : Srcs \cup {NoHash}, path : PathAttrs]
Block == [src : Srcs \cup Names, flag : Flags, shape : Shapes, marker : Marker \cup {NoMarker}]

\* The SVG files: under the SVG directory by file and id, or where a path= says.
SvgDirPaths == Files \X BlockIds
SvgPaths == SvgDirPaths \cup Overrides

\* What a file holds: the source it was rendered from and how, the file and the id of
\* the block it was rendered for (source-file, source-id), cut short or not.
Svg == [hash : Srcs \cup {NoHash}, mode : Flags, from : SvgDirPaths, whole : BOOLEAN]

ASSUME TreeAssumption ==
  /\ InitDocs \subseteq [Files -> Seq(Block)]
  /\ InitIncs \subseteq [Names -> Srcs \cup {Missing}]
  /\ Missing \notin Svg
  /\ NoMarker \notin Marker
  /\ Overrides \cap SvgDirPaths = {}

VARIABLES
  docs,      \* file -> its blocks, as saved
  incs,      \* include name -> its source, or Missing
  svgs,      \* the SVG files on disk: a function on the paths that exist
  run,       \* process -> the state of its run
  synced,    \* history: files some undisturbed run completed since the last save
  swept,     \* history: an undisturbed run of the whole tree did, pruning included
  dropped,   \* history: those of them in which it removed the SVG of a re-keyed block
  checked,   \* history: the verdict of the last undisturbed --check, "none" once stale
  saves, crashes    \* counters the bounds cap

history == <<synced, swept, dropped, checked>>
counters == <<saves, crashes>>
vars == <<docs, incs, svgs, run, history, counters>>

-----------------------------------------------------------------------------
(* AnalyzeMarkdown. *)

\* ScanBlocks: an unterminated fence swallows the rest of the file.
Scanned(doc) ==
  LET opens == {j \in DOMAIN doc : doc[j].shape = "open"}
  IN  IF opens = {} THEN doc
      ELSE SubSeq(doc, 1, CHOOSE j \in opens : \A k \in opens : j <= k)

IsInclude(b) == b.src \in Names
HasMarker(b) == b.marker # NoMarker /\ b.marker.id # NoId
Content(b, is) == IF IsInclude(b) THEN is[b.src] ELSE b.src

\* The outcome of the first pass, in the order the code asks.
FirstOutcome(b, is) ==
  IF b.shape = "open"                     THEN "Unterminated"
  ELSE IF b.shape = "nosrc"               THEN "Malformed"
  ELSE IF Content(b, is) = Missing        THEN "MissingSrc"
  ELSE IF b.flag = "bad"                  THEN "BadMeta"
  ELSE IF b.flag = "embedfalse"           THEN "NoEmbed"
  ELSE IF ~HasMarker(b)                   THEN "InsertMarker"
  ELSE IF b.marker.hash # Content(b, is)  THEN "Rehash"
  ELSE "OK"

SkipOutcomes == {"Unterminated", "Malformed", "MissingSrc", "BadMeta", "NoEmbed"}
Live(b, is) == FirstOutcome(b, is) \notin SkipOutcomes

FirstId(b) == IF HasMarker(b) THEN b.marker.id ELSE IF IsInclude(b) THEN b.src ELSE NoId
Override(b) == IF HasMarker(b) THEN b.marker.path ELSE NoPath
PathOf(f, id, override) == IF override # NoPath THEN override ELSE <<f, id>>

\* The SVG a re-keyed block leaves under its old id.
RenamedFrom(f, b, id) ==
  IF HasMarker(b) /\ Override(b) = NoPath /\ id # b.marker.id THEN <<f, b.marker.id>> ELSE NoPath

(***************************************************************************)
(* Both passes over a file as saved.  The second pass re-keys the blocks   *)
(* that do not keep their id, which makes them Rehash or InsertMarker.     *)
(***************************************************************************)
Analyze(f, doc, is) ==
  LET bs  == Scanned(doc)
      es  == [j \in DOMAIN bs |-> [live |-> Live(bs[j], is),
                                   id   |-> IF Live(bs[j], is) THEN FirstId(bs[j]) ELSE NoId]]
      ids == AssignIds(es)
      rekeyed == Rekeyed(es)
      Outcome(j) == IF j \in rekeyed
                    THEN IF HasMarker(bs[j]) THEN "Rehash" ELSE "InsertMarker"
                    ELSE FirstOutcome(bs[j], is)
  IN  [j \in DOMAIN bs |->
         [outcome |-> Outcome(j),
          file    |-> f,
          id      |-> ids[j],
          hash    |-> Content(bs[j], is),
          mode    |-> bs[j].flag,
          path    |-> PathOf(f, ids[j], Override(bs[j])),
          renamed |-> RenamedFrom(f, bs[j], ids[j])]]

\* ApplyMarkers: the document with every marker as the analysis computed it.
ApplyMarkers(doc, results) ==
  [j \in DOMAIN doc |->
     IF j \in DOMAIN results /\ results[j].outcome \notin SkipOutcomes \cup {"OK"}
     THEN [doc[j] EXCEPT !.marker = [id |-> results[j].id, hash |-> results[j].hash,
                                     path |-> Override(doc[j])]]
     ELSE doc[j]]

-----------------------------------------------------------------------------
(* The SVG files. *)

SvgAt(path) == IF path \in DOMAIN svgs THEN svgs[path] ELSE Missing
WithSvg(path, svg) == [p \in DOMAIN svgs \cup {path} |-> IF p = path THEN svg ELSE svgs[p]]
WithoutSvg(path) == [p \in DOMAIN svgs \ {path} |-> svgs[p]]

\* RenderSVGBytes and its meta comment, but for the generated-by stamp.
Rendered(r) == [hash |-> r.hash, mode |-> r.mode, from |-> <<r.file, r.id>>, whole |-> TRUE]
CutShort(r, cut) ==
  [Rendered(r) EXCEPT !.hash = IF cut = "before" THEN NoHash ELSE r.hash, !.whole = FALSE]

\* Mutant of Fresh: any file at the path will do.
FreshExists(r) == SvgAt(r.path) # Missing

\* SVGIsFresh: the meta comment, near the top of the file, names the source.
Fresh(r) == SvgAt(r.path) # Missing /\ SvgAt(r.path).hash = r.hash

-----------------------------------------------------------------------------
(* The runs. *)

Idle == [pc |-> "idle"]
Busy(p) == run[p].pc # "idle"
AllIdleBut(p) == \A q \in Procs \ {p} : ~Busy(q)

\* A start or a save disturbs every run under way.
Disturbed(rs) == [q \in Procs |-> IF rs[q].pc = "idle" THEN rs[q] ELSE [rs[q] EXCEPT !.calm = FALSE]]

\* Processes the files of todo; see the fields where the steps use them.
Started(p, todo, opts) ==
  /\ checked' = IF opts.write THEN "none" ELSE checked
  /\ UNCHANGED <<docs, incs, svgs, synced, swept, dropped, counters>>
  /\ run' = [Disturbed(run) EXCEPT ![p] =
              [pc |-> "open", todo |-> todo, opts |-> opts, file |-> NoPath, text |-> <<>>,
               blocks |-> <<>>, b |-> 1, keep |-> {}, orphans |-> {}, stale |-> FALSE,
               dropped |-> {}, calm |-> AllIdleBut(p)]]

\* The files of the walk no embed-ignore pattern matches, in its order.
Kept == SelectSeq(FileOrder, LAMBDA f : f \notin Ignored)

\* What SelectSeq does here, for the proofs.
ASSUME KeptAssumption == Kept \in Seq(Files) /\ Range(Kept) = Files \ Ignored

\* md-embed with its flags: force, write (off for --check), whole (off for --in).
StartCli(p, opts) ==
  /\ p \in Clis
  /\ ~Busy(p)
  /\ Kept # <<>>
  /\ IF opts.whole THEN Started(p, Kept, opts) ELSE \E f \in Range(Kept) : Started(p, <<f>>, opts)

\* ipm.embed {file, force}, and ipm.check, which is the same walk without the writes.
StartRpc(p, f, opts) ==
  /\ p \in Rpcs
  /\ ~Busy(p)
  /\ f \in Files \ Ignored
  /\ Started(p, <<f>>, opts)

\* os.ReadFile and AnalyzeMarkdown of the first file of todo.
Opened(p, todo, keep, stale) ==
  /\ run[p].pc = "open"
  /\ run[p].todo # <<>>
  /\ LET f       == Head(run[p].todo)
         results == Analyze(f, docs[f], incs)
     IN  run' = [run EXCEPT ![p].todo = todo,
                            ![p].file = f,
                            ![p].text = docs[f],
                            ![p].blocks = results,
                            ![p].b = 1,
                            ![p].keep = keep,
                            ![p].stale = stale,
                            ![p].pc = IF results = <<>> THEN "open" ELSE "block"]
  /\ UNCHANGED <<docs, incs, svgs, history, counters>>

\* Mutant of OpenFile: keepSVG starts anew with every file.
OpenFileFreshKeep(p) == Opened(p, Tail(run[p].todo), {}, run[p].stale)

\* The next file of the walk; one without blocks is left at once.
OpenFile(p) == Opened(p, Tail(run[p].todo), run[p].keep, run[p].stale)

AtBlock(p) == run[p].pc = "block" /\ run[p].b <= Len(run[p].blocks)
Current(p) == run[p].blocks[run[p].b]
Skipped(p) == Current(p).outcome \in SkipOutcomes
Unchanged(p) == Current(p).outcome = "OK" /\ Fresh(Current(p)) /\ ~run[p].opts.force

\* A block that is not embedded; a missing source and bad metadata make the file stale.
SkipBlock(p) ==
  /\ AtBlock(p)
  /\ Skipped(p)
  /\ LET broken == Current(p).outcome \in {"MissingSrc", "BadMeta"}
     IN  run' = [run EXCEPT ![p].b = @ + 1, ![p].stale = @ \/ broken]
  /\ UNCHANGED <<docs, incs, svgs, history, counters>>

\* Mutant of KeepBlock: only the SVGs a run writes are kept.
KeepBlockForgets(p) ==
  /\ AtBlock(p)
  /\ ~Skipped(p)
  /\ Unchanged(p)
  /\ run' = [run EXCEPT ![p].b = @ + 1]
  /\ UNCHANGED <<docs, incs, svgs, history, counters>>

\* The marker is current and so is the SVG.
KeepBlock(p) ==
  /\ AtBlock(p)
  /\ ~Skipped(p)
  /\ Unchanged(p)
  /\ run' = [run EXCEPT ![p].b = @ + 1, ![p].keep = @ \cup {Current(p).path}]
  /\ UNCHANGED <<docs, incs, svgs, history, counters>>

\* Mutant of CountStale: a block to be re-rendered is not counted.
CountStaleMarkersOnly(p) ==
  /\ AtBlock(p)
  /\ ~Skipped(p)
  /\ ~Unchanged(p)
  /\ ~run[p].opts.write
  /\ run' = [run EXCEPT ![p].b = @ + 1,
                        ![p].keep = @ \cup {Current(p).path},
                        ![p].stale = @ \/ Current(p).outcome # "OK"]
  /\ UNCHANGED <<docs, incs, svgs, history, counters>>

\* --check and ipm.check: anything that would be written makes the file stale.
CountStale(p) ==
  /\ AtBlock(p)
  /\ ~Skipped(p)
  /\ ~Unchanged(p)
  /\ ~run[p].opts.write
  /\ run' = [run EXCEPT ![p].b = @ + 1,
                        ![p].keep = @ \cup {Current(p).path},
                        ![p].stale = TRUE]
  /\ UNCHANGED <<docs, incs, svgs, history, counters>>

\* A block whose SVG RenderAndWriteSVG is called for.
MustRender(p) == AtBlock(p) /\ ~Skipped(p) /\ ~Unchanged(p) /\ run[p].opts.write
Renders(p) == MustRender(p) /\ Current(p).hash \notin BadSrcs

\* The file on disk differs from the rendered one only in its generated-by stamp.
SameOnDisk(p) == Current(p).renamed = NoPath /\ SvgAt(Current(p).path) = Rendered(Current(p))

\* The block is taken over into the markers; one that was OK is now Rerender.
Handled(p, pc) ==
  run' = [run EXCEPT ![p].pc = pc,
                     ![p].b = IF pc = "block" THEN @ + 1 ELSE @,
                     ![p].keep = @ \cup {Current(p).path},
                     ![p].blocks[run[p].b].outcome = IF @ = "OK" THEN "Rerender" ELSE @]

\* The write is skipped.
LeaveSvg(p) ==
  /\ Renders(p)
  /\ SameOnDisk(p)
  /\ Handled(p, "block")
  /\ UNCHANGED <<docs, incs, svgs, history, counters>>

\* os.WriteFile of the SVG; a renamed block drops its old file next.
WriteSvg(p) ==
  /\ Renders(p)
  /\ ~SameOnDisk(p)
  /\ svgs' = WithSvg(Current(p).path, Rendered(Current(p)))
  /\ Handled(p, IF Current(p).renamed \in {NoPath, Current(p).path} THEN "block" ELSE "drop")
  /\ UNCHANGED <<docs, incs, history, counters>>

\* os.Remove of the renamed block's old file; a missing one is tolerated.
DropRenamed(p) ==
  /\ run[p].pc = "drop"
  /\ svgs' = WithoutSvg(Current(p).renamed)
  /\ run' = [run EXCEPT ![p].pc = "block", ![p].b = @ + 1, ![p].dropped = @ \cup {run[p].file}]
  /\ UNCHANGED <<docs, incs, history, counters>>

\* A parse or render error ends the whole run: nothing after it happens.
AbortRender(p) ==
  /\ MustRender(p)
  /\ Current(p).hash \in BadSrcs
  /\ run' = [run EXCEPT ![p] = Idle]
  /\ UNCHANGED <<docs, incs, svgs, history, counters>>

\* ApplyMarkers on the text read at the start, then os.WriteFile when it changed.
WriteMd(p) ==
  /\ run[p].pc = "block"
  /\ run[p].b > Len(run[p].blocks)
  /\ LET text == ApplyMarkers(run[p].text, run[p].blocks)
     IN  docs' = IF run[p].opts.write /\ text # run[p].text
                 THEN [docs EXCEPT ![run[p].file] = text] ELSE docs
  /\ run' = [run EXCEPT ![p].pc = "open"]
  /\ UNCHANGED <<incs, svgs, history, counters>>

Prunes(p) == run[p].opts.write /\ run[p].opts.whole

\* pruneOrphans lists the SVG directory: every file no processed block expects.
ListOrphans(p) ==
  /\ run[p].pc = "open"
  /\ run[p].todo = <<>>
  /\ Prunes(p)
  /\ run' = [run EXCEPT ![p].pc = "prune",
                        ![p].orphans = (DOMAIN svgs \ Overrides) \ run[p].keep]
  /\ UNCHANGED <<docs, incs, svgs, history, counters>>

\* os.Remove of one of them; the run ends when somebody removed it first.
PruneOne(p) ==
  /\ run[p].pc = "prune"
  /\ \E path \in run[p].orphans :
        IF path \in DOMAIN svgs
        THEN /\ svgs' = WithoutSvg(path)
             /\ run' = [run EXCEPT ![p].orphans = @ \ {path}]
        ELSE /\ run' = [run EXCEPT ![p] = Idle]
             /\ UNCHANGED svgs
  /\ UNCHANGED <<docs, incs, history, counters>>

\* The run is over; the history notes what it leaves behind if nothing disturbed it.
Finish(p) ==
  /\ \/ run[p].pc = "open" /\ run[p].todo = <<>> /\ ~Prunes(p)
     \/ run[p].pc = "prune" /\ run[p].orphans = {}
  /\ run' = [run EXCEPT ![p] = Idle]
  /\ LET calm == run[p].calm
         opts == run[p].opts
     IN  /\ synced' = IF ~(calm /\ opts.write) THEN synced
                      ELSE IF opts.whole THEN Files \ Ignored
                      ELSE synced \cup {run[p].file}
         /\ dropped' = IF ~(calm /\ opts.write) THEN dropped
                       ELSE IF opts.whole THEN run[p].dropped
                       ELSE (dropped \ {run[p].file}) \cup run[p].dropped
         /\ swept' = (swept \/ (calm /\ Prunes(p)))
         /\ checked' = IF calm /\ p \in Clis /\ opts.whole /\ ~opts.write
                       THEN IF run[p].stale THEN "fail" ELSE "pass"
                       ELSE checked
  /\ UNCHANGED <<docs, incs, svgs, counters>>

\* The process is killed between two steps, or while it writes an SVG.
Crash(p) ==
  /\ Busy(p)
  /\ crashes < MaxCrashes
  /\ crashes' = crashes + 1
  /\ run' = [run EXCEPT ![p] = Idle]
  /\ \/ UNCHANGED svgs
     \/ /\ Renders(p)
        /\ ~SameOnDisk(p)
        /\ \E cut \in Cuts : svgs' = WithSvg(Current(p).path, CutShort(Current(p), cut))
  /\ UNCHANGED <<docs, incs, history, saves>>

Step(p) ==
  \/ OpenFile(p) \/ SkipBlock(p) \/ KeepBlock(p) \/ CountStale(p)
  \/ LeaveSvg(p) \/ WriteSvg(p) \/ DropRenamed(p) \/ AbortRender(p)
  \/ WriteMd(p) \/ ListOrphans(p) \/ PruneOne(p) \/ Finish(p)

-----------------------------------------------------------------------------
(* The user. *)

NewBlock(src) == [src |-> src, flag |-> "plain", shape |-> "whole", marker |-> NoMarker]

\* The documents one save of a kind can make of doc.
EditedDocs(kind, doc) ==
  LET visible == {j \in DOMAIN doc : ~IsInclude(doc[j])}
      marked  == {j \in DOMAIN doc : HasMarker(doc[j])}
      room    == Len(doc) < MaxBlocks
      places  == {k \in 1 .. Len(doc) + 1 : room}
  IN CASE kind = "content" -> {[doc EXCEPT ![j].src = s] : j \in visible, s \in Srcs}
       [] kind = "mode"    -> {[doc EXCEPT ![j].flag = g] : j \in visible, g \in {"plain", "solved"}}
       [] kind = "flag"    -> {[doc EXCEPT ![j].flag = g] :
                                 j \in visible, g \in {"plain", "embedfalse", "bad"}}
       [] kind = "fence"   -> {[doc EXCEPT ![j].shape = g] : j \in visible, g \in {"whole", "open"}}
                            \cup {[doc EXCEPT ![j].shape = g] :
                                    j \in DOMAIN doc \ visible, g \in {"whole", "nosrc"}}
       [] kind = "insert"  -> {InsertAt(doc, j, NewBlock(s)) :
                                 j \in places, s \in Srcs \cup Names}
       [] kind = "delete"  -> {RemoveAt(doc, j) : j \in DOMAIN doc}
       [] kind = "copy"    -> {InsertAt(doc, j + 1, doc[j]) : j \in {k \in marked : room}}
       [] kind = "path"    -> {[doc EXCEPT ![j].marker.path = o] : j \in marked, o \in PathAttrs}
       [] kind = "author"  -> {[doc EXCEPT ![j].marker =
                                  [id |-> n, hash |-> NoHash, path |-> NoPath]] :
                                 j \in visible \ marked, n \in AuthorIds}

\* A save makes every earlier observation stale and disturbs the runs under way.
Saved ==
  /\ saves < MaxSaves
  /\ saves' = saves + 1
  /\ run' = Disturbed(run)
  /\ synced' = {}
  /\ dropped' = {}
  /\ swept' = FALSE
  /\ checked' = "none"
  /\ UNCHANGED crashes

SaveDoc(f) ==
  /\ \E kind \in EditKinds \ {"include", "svg"} : \E doc \in EditedDocs(kind, docs[f]) :
        doc # docs[f] /\ docs' = [docs EXCEPT ![f] = doc]
  /\ Saved
  /\ UNCHANGED <<incs, svgs>>

SaveInclude(n) ==
  /\ "include" \in EditKinds
  /\ \E s \in (Srcs \cup {Missing}) \ {incs[n]} : incs' = [incs EXCEPT ![n] = s]
  /\ Saved
  /\ UNCHANGED <<docs, svgs>>

\* An SVG is deleted, or reverted to a complete one rendered from another source.
LoseSvg ==
  /\ "svg" \in EditKinds
  /\ \E path \in DOMAIN svgs :
        \/ svgs' = WithoutSvg(path)
        \/ \E s \in (Srcs \ BadSrcs) \ {svgs[path].hash} :
              svgs' = [svgs EXCEPT ![path].hash = s, ![path].whole = TRUE]
  /\ Saved
  /\ UNCHANGED <<docs, incs>>

-----------------------------------------------------------------------------

Init ==
  /\ docs \in InitDocs
  /\ incs \in InitIncs
  /\ svgs = [path \in {} |-> Missing]
  /\ run = [p \in Procs |-> Idle]
  /\ synced = {}
  /\ dropped = {}
  /\ swept = FALSE
  /\ checked = "none"
  /\ saves = 0
  /\ crashes = 0

Next ==
  \/ \E p \in Procs : Step(p) \/ Crash(p)
  \/ \E p \in Clis, opts \in CliModes : StartCli(p, opts)
  \/ \E p \in Rpcs, f \in Files, opts \in RpcModes : StartRpc(p, f, opts)
  \/ \E f \in Files : SaveDoc(f)
  \/ \E n \in Names : SaveInclude(n)
  \/ LoseSvg

Spec == Init /\ [][Next]_vars

\* A run that was started goes on: nothing in it waits for anything.
FairSpec == Spec /\ \A p \in Procs : WF_vars(Step(p))

-----------------------------------------------------------------------------

Result ==
  [outcome : SkipOutcomes \cup {"InsertMarker", "Rehash", "OK", "Rerender"},
   file : Files, id : BlockIds, hash : Srcs \cup {Missing}, mode : Flags,
   path : SvgPaths, renamed : SvgPaths \cup {NoPath}]

RunType ==
  [pc : {"open", "block", "drop", "prune"}, todo : Seq(Files), opts : Opts,
   file : Files \cup {NoPath}, text : Seq(Block), blocks : Seq(Result), b : Nat \ {0},
   keep : SUBSET SvgPaths, orphans : SUBSET SvgDirPaths, stale : BOOLEAN,
   dropped : SUBSET Files, calm : BOOLEAN]

TypeOK ==
  /\ docs \in [Files -> Seq(Block)]
  /\ incs \in [Names -> Srcs \cup {Missing}]
  /\ DOMAIN svgs \subseteq SvgPaths /\ \A path \in DOMAIN svgs : svgs[path] \in Svg
  /\ run \in [Procs -> {Idle} \cup RunType]
  /\ synced \subseteq Files \ Ignored /\ dropped \subseteq synced
  /\ swept \in BOOLEAN
  /\ checked \in {"none", "pass", "fail"}
  /\ saves \in 0 .. MaxSaves /\ crashes \in 0 .. MaxCrashes

\* The blocks of a file as saved that get an SVG, and where it is.
LiveBlocks(f) == {j \in DOMAIN Scanned(docs[f]) : Live(docs[f][j], incs)}
SvgOf(f, j) == PathOf(f, docs[f][j].marker.id, docs[f][j].marker.path)

\* A complete rendering of a source the way a fence asks for, whichever block it was for.
Shows(svg, source, mode) ==
  svg # Missing /\ svg.hash = source /\ svg.mode = mode /\ svg.whole

(***************************************************************************)
(* The purpose of the program, for one file: every live block has a marker *)
(* with an id of its own and the hash of its source, and the SVG it names  *)
(* exists, is complete, and shows that source the way the fence asks for.  *)
(***************************************************************************)
InSync(f) ==
  \A j \in LiveBlocks(f) :
     LET b == docs[f][j]
     IN  /\ HasMarker(b)
         /\ \A k \in LiveBlocks(f) \ {j} : docs[f][k].marker # NoMarker =>
               docs[f][k].marker.id # b.marker.id
         /\ b.marker.hash = Content(b, incs)
         /\ Shows(SvgAt(SvgOf(f, j)), Content(b, incs), b.flag)

\* Two blocks whose markers name one SVG, by path=, have one source and one way to render it.
MarkedBlocks ==
  UNION {{<<f, j>> : j \in {k \in LiveBlocks(f) : HasMarker(docs[f][k])}} : f \in Files \ Ignored}
SharersAgree ==
  \A x, y \in MarkedBlocks :
     LET b == docs[x[1]][x[2]]
         c == docs[y[1]][y[2]]
     IN  SvgOf(x[1], x[2]) = SvgOf(y[1], y[2]) => Content(b, incs) = Content(c, incs) /\ b.flag = c.flag

(***************************************************************************)
(* An undisturbed run that ends without an error leaves every file it      *)
(* processed in sync, whatever crashed or concurrent runs and whatever     *)
(* saves came before it, and nothing but a save takes that away.  The      *)
(* exception is a file with a copied block, of which it removed an SVG:    *)
(* that file is in sync after one more run.  Blocks of different sources   *)
(* under one path= are never in sync together.                             *)
(***************************************************************************)
RunsSync == SharersAgree => \A f \in synced \ dropped : InSync(f)

\* The SVGs of the SVG directory are all named by live blocks.
Swept == \A path \in DOMAIN svgs \ Overrides :
           \E f \in Files \ Ignored : \E j \in LiveBlocks(f) :
              HasMarker(docs[f][j]) /\ SvgOf(f, j) = path

(***************************************************************************)
(* An undisturbed run over the whole tree also leaves no SVG in the SVG    *)
(* directory that no live block names, and none comes back.                *)
(***************************************************************************)
NoOrphans == swept => Swept

\* Both: what a run repairs, whoever was at work before it.
RunsRepair == RunsSync /\ NoOrphans

(***************************************************************************)
(* --check passes on a tree that is in sync, and only there.               *)
(***************************************************************************)
OutOfSync ==
  \/ \E f \in Files \ Ignored : ~InSync(f)
  \/ \E f \in Files : \E j \in DOMAIN docs[f] :
       FirstOutcome(docs[f][j], incs) \in {"MissingSrc", "BadMeta"}
FailIsHonest == checked = "fail" => OutOfSync
CheckIsHonest ==
  /\ checked = "pass" => \A f \in Files \ Ignored : InSync(f)
  /\ FailIsHonest

(***************************************************************************)
(* What it can know when it passes, whatever saves and killed or           *)
(* concurrent runs came before: every live block has a marker with the     *)
(* hash of its source that no run would write anew, and the SVG it names   *)
(* exists and was rendered from that source.                               *)
(***************************************************************************)
IsCurrent(f, j) ==
  LET b == docs[f][j]
  IN  /\ Analyze(f, docs[f], incs)[j].outcome = "OK"
      /\ HasMarker(b)
      /\ b.marker.hash = Content(b, incs)
      /\ SvgAt(SvgOf(f, j)) # Missing
      /\ SvgAt(SvgOf(f, j)).hash = Content(b, incs)
PassIsCurrent == checked = "pass" => \A f \in Files \ Ignored : \A j \in LiveBlocks(f) : IsCurrent(f, j)

(***************************************************************************)
(* The inductive invariant behind these two: what a run has in hand, and   *)
(* what an undisturbed --check has seen so far.                            *)
(***************************************************************************)
RunIsFit(r) ==
  /\ r.opts.whole => (r.opts.force => r.opts.write)
  /\ ~r.opts.write => r.pc \in {"open", "block"}
  /\ r.pc = "prune" => r.opts.whole
  /\ (Range(r.todo) \cup r.dropped) \cap Ignored = {}
  /\ r.pc \in {"block", "drop"} => r.file \in Files \ Ignored
  /\ \A j \in DOMAIN r.blocks : r.blocks[j].outcome \notin SkipOutcomes => r.blocks[j].hash # Missing
  /\ r.opts.whole \/ IF r.file = NoPath THEN Len(r.todo) = 1 /\ r.dropped = {}
                     ELSE r.todo = <<>> /\ r.file \notin Ignored /\ r.dropped \subseteq {r.file}

RunsAreFit == \A p \in Procs : Busy(p) => RunIsFit(run[p])
CalmIsAlone == \A p \in Procs : Busy(p) /\ run[p].calm => AllIdleBut(p)
VerdictStands == checked # "none" => \A p \in Procs : Busy(p) => ~run[p].opts.write

\* The file is still to be read, or is looked at, or was found current.
PassSoFar(r, f) ==
  \/ f \in Range(r.todo)
  \/ r.pc = "block" /\ f = r.file /\ \A j \in LiveBlocks(f) : j < r.b => IsCurrent(f, j)
  \/ \A j \in LiveBlocks(f) : IsCurrent(f, j)
CheckSoFar(r) ==
  /\ r.pc = "block" => r.blocks = Analyze(r.file, docs[r.file], incs)
  /\ IF r.stale THEN OutOfSync ELSE \A f \in Files \ Ignored : PassSoFar(r, f)
ChecksAreRight ==
  \A p \in Procs :
     Busy(p) /\ run[p].calm /\ run[p].opts.whole /\ ~run[p].opts.write => CheckSoFar(run[p])

CheckInv == /\ TypeOK /\ RunsAreFit /\ CalmIsAlone /\ VerdictStands /\ ChecksAreRight
            /\ PassIsCurrent /\ FailIsHonest

(***************************************************************************)
(* Once a tree is synced and swept, no run, forced or not, changes a       *)
(* document, or writes or removes an SVG; where a copied block lost an     *)
(* SVG, a run that removes none comes first.  The exception is an SVG      *)
(* under a path= that was last rendered for another block than the one     *)
(* the run is at, because two markers name it or one did before: its meta  *)
(* comment holds that block's file and id, and a forced run replaces them. *)
(***************************************************************************)
Settled == swept /\ synced = Files \ Ignored /\ saves' = saves
Restamped(path) ==
  /\ path \in Overrides
  /\ svgs'[path].from # svgs[path].from
  /\ SharersAgree => \E p \in Procs : Busy(p) /\ run[p].opts.force
Idempotent ==
  [][(Settled /\ dropped = {}) =>
       /\ UNCHANGED docs
       /\ DOMAIN svgs' = DOMAIN svgs
       /\ \A path \in DOMAIN svgs : svgs'[path] = svgs[path] \/ Restamped(path)]_vars

(***************************************************************************)
(* A run over the whole tree that is not killed (the crashes the bound     *)
(* allows are over) brings it in sync, whatever earlier runs left behind,  *)
(* unless something disturbs it, a block it has to render is in error, or  *)
(* two blocks that name one SVG differ.                                    *)
(***************************************************************************)
NothingBad == \A f \in Files \ Ignored : \A j \in LiveBlocks(f) :
                 Content(docs[f][j], incs) \notin BadSrcs
RunsSettle ==
  \A p \in Clis :
     (Busy(p) /\ run[p].calm /\ Prunes(p) /\ NothingBad /\ SharersAgree /\ crashes = MaxCrashes) ~>
        \/ (\A f \in Files \ Ignored : InSync(f)) /\ Swept
        \/ Busy(p) /\ ~run[p].calm

=============================================================================
