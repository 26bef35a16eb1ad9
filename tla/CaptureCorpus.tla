--------------------------- MODULE CaptureCorpus ---------------------------
(***************************************************************************)
(* From a demo take to the corpus (docs/dev-tools/states-corpus.md): the   *)
(* sessions an editor has through ipm-rpc-tee, the capture files they      *)
(* leave, and the runs of states-curate over those files, any of which may *)
(* be interrupted.                                                         *)
(*                                                                         *)
(* A text is the sequence of the ipmt sources in it: a .ipmt buffer has at *)
(* most one, a Markdown buffer those of its blocks.  sha1 has no           *)
(* collisions here, so a source is its own hash.                           *)
(***************************************************************************)
EXTENDS RpcTee, SequencesExt, FiniteSetsExt

CONSTANTS
  Dir,           \* uri -> the components of its directory
  Sources,
  Layout,        \* source -> what it lays out to, or Rejected
  Rejected,
  SceneOrder,    \* the names of scenes, sorted
  OldCorpus      \* what is in the corpus directory before: scene -> its directory

ASSUME CurationAssumption ==
  /\ Dir \in [Uris -> Seq(STRING)] /\ \A u \in Uris : Dir[u] # <<>>
  /\ DOMAIN Layout = Sources

VARIABLES
  takes,         \* history: what each finished session forwarded, and whether no write failed
  captures,      \* the capture files, in the order of their names
  corpus,        \* scene -> its directory
  all,           \* the --all flag of the run
  todo           \* the scenes it has yet to write

-----------------------------------------------------------------------------
(* What states-curate (cmd-dev/states-curate/main.go) makes of the lines.   *)

DirOf(uri) == IF uri = NoUri THEN <<".">> ELSE Dir[uri]

\* sceneOf: the directory below the first "workspaces", else the last one of the path.
SceneOf(uri) ==
  LET parts == DirOf(uri)
      roots == {i \in 1 .. Len(parts) - 1 : parts[i] \in {"workspaces", "workspace"}}
  IN  IF roots # {} THEN parts[Min(roots) + 1]
      ELSE IF Last(parts) # "" THEN Last(parts) ELSE "unknown"

\* readCaptures: the lines of all files, file after file; a torn one is skipped.
ReadCaptures(files) == FlattenSeq([i \in DOMAIN files |-> SelectSeq(files[i], LAMBDA l : l # Torn)])

Scenes(lines) == {SceneOf(lines[i].uri) : i \in DOMAIN lines}

\* groupByScene and the stable sort: the lines of a scene by seq, those of one seq as read.
SceneLines(lines, scene) ==
  LET mine == SelectSeq(lines, LAMBDA l : SceneOf(l.uri) = scene)
      place == SetToSortSeq(DOMAIN mine, LAMBDA i, j :
                 mine[i].seq < mine[j].seq \/ (mine[i].seq = mine[j].seq /\ i < j))
  IN  [k \in DOMAIN mine |-> mine[place[k]]]

\* renderedAfter: the next full embed of the document comes before its next edit.
RenderedAfter(lines, i) ==
  LET next == {j \in DOMAIN lines : j > i /\ lines[j].uri = lines[i].uri
                                   /\ lines[j].cadence \in Edits \cup {"embed", "save"}}
  IN  next # {} /\ lines[Min(next)].cadence \in {"embed", "save"}

\* The sources of a scene's lines, one after the other.
Occurrences(lines) ==
  FlattenSeq([i \in DOMAIN lines |->
    IF lines[i].cadence \in Edits
    THEN [k \in DOMAIN lines[i].text |-> [source |-> lines[i].text[k], at |-> i]]
    ELSE <<>>])

\* Mutant of Keeps: rejected sources are compared by their layout as well.
KeepsOneRejected(entries, seen, s) ==
  /\ s \notin seen
  /\ all \/ ~\E e \in ToSet(entries) : Layout[e.source] = Layout[s]

\* A source is kept unless it has been seen, or (without --all) is valid and its layout has.
Keeps(entries, seen, s) ==
  /\ s \notin seen
  /\ all \/ Layout[s] = Rejected \/ ~\E e \in ToSet(entries) : Layout[e.source] = Layout[s]

\* curateScene: the manifest of a scene.
CurateScene(lines) ==
  LET Entry(o) == [source |-> o.source, layout |-> Layout[o.source],
                   rendered |-> RenderedAfter(lines, o.at)]
      Step(acc, o) ==
        [seen |-> acc.seen \cup {o.source},
         entries |-> IF Keeps(acc.entries, acc.seen, o.source)
                     THEN Append(acc.entries, Entry(o)) ELSE acc.entries]
  IN  FoldLeft(Step, [seen |-> {}, entries |-> <<>>], Occurrences(lines)).entries

-----------------------------------------------------------------------------
curator == <<takes, captures, corpus, all, todo>>
allVars == <<vars, curator>>

Root == "."
NoManifest == <<>>

CorpusInit ==
  /\ Init
  /\ takes = <<>> /\ captures = <<>>
  /\ corpus = OldCorpus
  /\ all = FALSE /\ todo = <<>>

TeeStep(A) == A /\ UNCHANGED curator
Record1(p) == PassOver(p) \/ Record(p)
Tee ==
  \/ TeeStep(Send) \/ TeeStep(Close)
  \/ TeeStep(Serve) \/ TeeStep(ServerEnds) \/ TeeStep(ServerDies)
  \/ TeeStep(PumpUp) \/ TeeStep(PumpDown) \/ TeeStep(EndUp) \/ TeeStep(EndDown)
  \/ \E p \in Pumps : TeeStep(Record1(p))

\* The session is over: a capture that was ever opened is a file, whose name is up to the pid.
KeepTake ==
  /\ Ended
  /\ sessions \notin DOMAIN takes
  /\ takes' = Append(takes, [msgs |-> toServer, whole |-> enc = "open"])
  /\ captures' \in IF enc = "nil" THEN {captures}
                   ELSE {InsertAt(captures, i, file) : i \in 1 .. Len(captures) + 1}
  /\ UNCHANGED <<vars, corpus, all, todo>>

\* The editor starts its server again: another tee, with a recorder of its own.
Restart ==
  /\ sessions < MaxSessions
  /\ sessions \in DOMAIN takes /\ todo = <<>>
  /\ sent' = <<>> /\ open' = TRUE
  /\ toServer' = <<>> /\ served' = 0 /\ said' = <<>> /\ toEditor' = <<>>
  /\ inClosed' = FALSE /\ srv' = "up"
  /\ pump' = [p \in Pumps |-> Recv]
  /\ off' \in BOOLEAN /\ enc' = "nil" /\ seq' = 0 /\ file' = <<>>
  /\ sessions' = sessions + 1
  /\ UNCHANGED <<left, holder, curator>>

-----------------------------------------------------------------------------
(* curate. *)

Lines == ReadCaptures(captures)

\* The scenes of the captures in the order of their names.
StartCurate ==
  /\ sessions \in DOMAIN takes
  /\ todo = <<>>
  /\ Lines # <<>>
  /\ all' \in BOOLEAN
  /\ todo' = SelectSeq(SceneOrder, LAMBDA s : s \in Scenes(Lines))
  /\ UNCHANGED <<vars, takes, captures, corpus>>

\* RemoveAll and MkdirAll of the scene's directory; that of scene "." is the corpus itself.
Cleared(scene) ==
  [s \in (IF scene = Root THEN {} ELSE DOMAIN corpus) \cup {scene} |->
     IF s = scene THEN [files |-> {}, manifest |-> NoManifest] ELSE corpus[s]]

\* Mutant of Written: what the directory held before stays.
WrittenOver(scene) ==
  LET entries == CurateScene(SceneLines(Lines, scene))
      old == IF scene \in DOMAIN corpus THEN corpus[scene].files ELSE {}
  IN  [Cleared(scene) EXCEPT ![scene] =
         [files |-> old \cup {e.source : e \in ToSet(entries)}, manifest |-> entries]]

Written(scene) ==
  LET entries == CurateScene(SceneLines(Lines, scene))
  IN  [Cleared(scene) EXCEPT ![scene] =
         [files |-> {e.source : e \in ToSet(entries)}, manifest |-> entries]]

CurateOne ==
  /\ todo # <<>>
  /\ corpus' = Written(Head(todo))
  /\ todo' = Tail(todo)
  /\ UNCHANGED <<vars, takes, captures, all>>

\* The run is interrupted, or fails: some of the files are written, and no manifest.
CurateStops ==
  /\ todo # <<>>
  /\ \E part \in SUBSET Written(Head(todo))[Head(todo)].files :
       corpus' = [Cleared(Head(todo)) EXCEPT ![Head(todo)].files = part]
  /\ todo' = <<>>
  /\ UNCHANGED <<vars, takes, captures, all>>

Curate == StartCurate \/ CurateOne \/ CurateStops

CorpusNext == Tee \/ KeepTake \/ Restart \/ Curate

\* The server reads, and the goroutines get to run.
Fairness ==
  /\ WF_allVars(TeeStep(Serve)) /\ WF_allVars(TeeStep(ServerEnds))
  /\ WF_allVars(TeeStep(PumpUp)) /\ WF_allVars(TeeStep(PumpDown))
  /\ WF_allVars(TeeStep(EndUp)) /\ WF_allVars(TeeStep(EndDown))
  /\ \A p \in Pumps : WF_allVars(TeeStep(Record1(p)))
CorpusSpec == CorpusInit /\ [][CorpusNext]_allVars /\ Fairness

-----------------------------------------------------------------------------

MessagesOf(p) == IF p = "client" THEN ClientMsg ELSE ServerMsg
PumpStates(msgs) == {Recv, Done} \cup [pc : {"observe", "write", "encode"}, msg : msgs]
CaptureLines == {Torn} \cup {Numbered(n, m) : n \in 1 .. 2 * MaxSends,
                                             m \in {m \in ClientMsg \cup ServerMsg : Recorded(m)}}

TypeOK ==
  /\ left \in 0 .. MaxSends /\ left + Len(sent) <= MaxSends
  /\ sent \in Seq(ClientMsg) /\ toServer \in Seq(ClientMsg)
  /\ said \in Seq(ServerMsg) /\ toEditor \in Seq(ServerMsg)
  /\ served \in 0 .. Len(toServer)
  /\ srv \in {"up", "done", "dead"} /\ open \in BOOLEAN /\ inClosed \in BOOLEAN
  /\ DOMAIN pump = Pumps
  /\ \A p \in Pumps : pump[p] \in PumpStates(MessagesOf(p))
  /\ holder \in Pumps \cup {Free} /\ off \in BOOLEAN /\ enc \in {"nil", "open", "broken"}
  /\ seq \in Nat
  /\ file \in Seq(CaptureLines)
  /\ sessions \in Nat \ {0} /\ takes \in Seq([msgs : Seq(ClientMsg), whole : BOOLEAN]) /\ all \in BOOLEAN

\* The tee as the editor and the server see it.
Wire == INSTANCE LspWire WITH
  UpMsgs <- ClientMsg, DownMsgs <- ServerMsg, MaxUp <- MaxSends, MaxDown <- MaxSends,
  up <- sent, gotUp <- SubSeq(toServer, 1, served), down <- said, gotDown <- toEditor,
  server <- srv

(***************************************************************************)
(* Invisible and never fatal (docs/dev-tools/states-corpus.md): with the   *)
(* tee in between, whatever becomes of the capture, each end receives what *)
(* the other says, in order and in the end all of it, and no early end.    *)
(***************************************************************************)
WireSpec == Wire!Spec

\* The messages of a direction, and those of the first n that are recorded.
Forwarded(p) == IF p = "client" THEN toServer ELSE toEditor
RecordedOf(msgs, n) == {k \in 1 .. n : Recorded(msgs[k])}
\* The lines of a direction among the first n, and a line without its number.
CadencesOf(p) == IF p = "client" THEN EditorCadences ELSE {"diagnostics"}
WrittenBy(p, lines, n) == {i \in 1 .. n : lines[i] # Torn /\ lines[i].cadence \in CadencesOf(p)}
Bare(l) == [f \in DOMAIN l \ {"seq"} |-> l[f]]

\* A line is of a recorded message, and as many of its direction come before it as before that message.
TellsOf(p, i) == \E k \in DOMAIN Forwarded(p) :
  /\ Recorded(Forwarded(p)[k])
  /\ Bare(file[i]) = LineOf(Forwarded(p)[k])
  /\ Cardinality(WrittenBy(p, file, i)) = Cardinality(RecordedOf(Forwarded(p), k))

(***************************************************************************)
(* Two goroutines write one capture: the lines are numbered as they stand  *)
(* in it, nothing follows a torn one, and each direction is there in its   *)
(* order, without a gap, up to the first write that failed.                *)
(***************************************************************************)
CaptureIsAMerge ==
  \A i \in DOMAIN file :
    IF file[i] = Torn THEN i = Len(file)
    ELSE /\ file[i].seq = i
         /\ \E p \in Pumps : i \in WrittenBy(p, file, i) /\ TellsOf(p, i)

(***************************************************************************)
(* Why the tee is two pipes, and why the capture is a merge: what goes     *)
(* with the two properties through every step.                             *)
(***************************************************************************)
IsPartOf(s, t) == Len(s) <= Len(t) /\ \A i \in 1 .. Len(s) : s[i] = t[i]
WireInv ==
  /\ IsPartOf(toServer, sent) /\ IsPartOf(toEditor, said)
  /\ Len(said) = served
  /\ inClosed => pump["client"] = Done
  /\ pump["client"] = Done => srv # "up" \/ (~open /\ toServer = sent)
  /\ Len(takes) = sessions \/ Len(takes) = sessions - 1
  /\ Len(takes) = sessions => Ended

\* At the recorder, and not yet numbered, or not yet in the capture.
AtRecorder(p) == pump[p].pc \in {"observe", "write", "encode"}
Unnumbered(p) == IF pump[p].pc \in {"observe", "write"} THEN 1 ELSE 0
Unwritten(p) == IF AtRecorder(p) /\ Recorded(pump[p].msg) THEN 1 ELSE 0
Recording == enc = "open" \/ (enc = "nil" /\ ~off)
Balanced(p) ==
  Cardinality(RecordedOf(Forwarded(p), Len(Forwarded(p)))) = Cardinality(WrittenBy(p, file, Len(file))) + Unwritten(p)

OneHolder == \A p \in Pumps : holder = p <=> pump[p].pc \in {"write", "encode"}
InHand == \A p \in Pumps : AtRecorder(p) =>
  /\ Forwarded(p) # <<>> /\ pump[p].msg = Forwarded(p)[Len(Forwarded(p))]
  /\ pump[p].pc # "observe" => Recorded(pump[p].msg)
NumbersInv ==
  /\ seq + Unnumbered("client") + Unnumbered("server") <= Len(toServer) + Len(toEditor)
  /\ enc = "nil" => seq = 0 /\ file = <<>> /\ \A p \in Pumps : pump[p].pc # "encode"
  /\ enc = "open" => /\ \A i \in DOMAIN file : file[i] # Torn
                     /\ seq = IF \E p \in Pumps : pump[p].pc = "encode" THEN Len(file) + 1 ELSE Len(file)
BalanceInv == Recording => \A p \in Pumps : Balanced(p)
RecorderInv == OneHolder /\ InHand /\ NumbersInv /\ BalanceInv
TeeInv == TypeOK /\ WireInv /\ RecorderInv /\ CaptureIsAMerge

ToRecord(msgs) ==
  LET some == SelectSeq(msgs, Recorded) IN [i \in DOMAIN some |-> LineOf(some[i])]
\* What a scene's messages carry: the sources one after the other, and what is new about one.
Mine(msgs, scene) == SelectSeq(ToRecord(msgs), LAMBDA m : SceneOf(m.uri) = scene)
IsFresh(occ, i) == \A j \in 1 .. i - 1 :
  /\ occ[j].source # occ[i].source
  /\ all \/ Layout[occ[i].source] = Rejected \/ Layout[occ[j].source] # Layout[occ[i].source]
LaidOut(msgs, i) == \E j \in i + 1 .. Len(msgs) :
  /\ msgs[j].cadence = "embed" /\ msgs[j].uri = msgs[i].uri
  /\ \A k \in i + 1 .. j : msgs[k].uri = msgs[i].uri => msgs[k].cadence \notin Edits
Expected(msgs) ==
  LET occ == Occurrences(msgs)
      kept == SelectSeq([i \in DOMAIN occ |-> i], LAMBDA i : IsFresh(occ, i))
  IN  [i \in DOMAIN kept |->
         LET o == occ[kept[i]]
         IN  [source |-> o.source, layout |-> Layout[o.source], rendered |-> LaidOut(msgs, o.at)]]

\* The last step of a run that was not interrupted.
CurateDone == CurateOne /\ todo' = <<>>

(***************************************************************************)
(* What a run leaves does not depend on which pump got to write first:     *)
(* for a scene whose lines are of one session it is what the messages of   *)
(* the editor say, up to the first write that failed: its valid states      *)
(* once per layout (all of them with --all), its rejected ones, in the     *)
(* order they were typed, with whether the editor had them laid out next.  *)
(***************************************************************************)
CorpusIsOfTheTake == [][CurateDone =>
  \A k \in DOMAIN takes, scene \in Scenes(Lines) :
    (\A j \in DOMAIN takes \ {k} : Mine(takes[j].msgs, scene) = <<>>) =>
      /\ LET msgs == takes[k].msgs
         IN  \E n \in IF takes[k].whole THEN {Len(msgs)} ELSE 0 .. Len(msgs) :
               corpus'[scene].manifest = Expected(Mine(SubSeq(msgs, 1, n), scene))
      /\ corpus'[scene].files = {e.source : e \in ToSet(corpus'[scene].manifest)}]_allVars

(***************************************************************************)
(* After a run every recorded source is in its scene, itself or, without   *)
(* --all, one of its layout; no layout is there twice; and nothing is left *)
(* of an earlier corpus, or of a run that was interrupted.                 *)
(***************************************************************************)
CorpusCovers == [][CurateDone =>
  \A scene \in Scenes(Lines) :
    LET files == corpus'[scene].files
        typed == {o.source : o \in ToSet(Occurrences(SceneLines(Lines, scene)))}
    IN  /\ files \subseteq typed
        /\ \A s \in typed :
             \/ s \in files
             \/ ~all /\ Layout[s] # Rejected /\ \E t \in files : Layout[t] = Layout[s]
        /\ ~all => \A s, t \in files : Layout[s] = Layout[t] => s = t \/ Layout[s] = Rejected]_allVars

=============================================================================
