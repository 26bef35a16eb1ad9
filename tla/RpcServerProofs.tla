-------------------------- MODULE RpcServerProofs --------------------------
(***************************************************************************)
(* Theorems about ipm-rpc, for every set of documents and languages, any   *)
(* number of edits and requests, and any interleaving of its goroutines.   *)
(***************************************************************************)
EXTENDS RpcServer, TLAPS

USE DocAssumption, ServerAssumption

(* ---------------------------------------------------------------------- *)
(* What the operators return.                                              *)

\* A closed document, an opened and a changed one are documents.
LEMMA DocTypes ==
  ASSUME NEW max \in Nat
  PROVE  /\ Closed \in DocStates(max) /\ ~Closed.open
         /\ \A text \in 0 .. max, lang \in Langs : Opened(text, lang) \in DocStates(max)
         /\ \A d \in DocStates(max) :
              /\ d.open \in BOOLEAN /\ d.text \in 0 .. max /\ d.lang \in Langs
              /\ \A text \in 0 .. max : Changed(d, text) \in DocStates(max)
<1>1. Closed \in DocStates(max) /\ ~Closed.open /\ Closed.text = 0 /\ Closed.lang = NoLang
  BY DEF DocStates, Closed
<1>2. ASSUME NEW text \in 0 .. max, NEW lang \in Langs PROVE Opened(text, lang) \in DocStates(max)
  BY DEF DocStates, Opened
<1>3. ASSUME NEW d \in DocStates(max)
      PROVE  d.open \in BOOLEAN /\ d.text \in 0 .. max /\ d.lang \in Langs
  <2>1. CASE d = Closed
    BY <1>1, <2>1 DEF Closed
  <2>2. CASE d \in [open : {TRUE}, text : 0 .. max, lang : Langs]
    BY <2>2
  <2> QED
    BY <2>1, <2>2 DEF DocStates
<1>4. ASSUME NEW d \in DocStates(max), NEW text \in 0 .. max PROVE Changed(d, text) \in DocStates(max)
  BY <1>3 DEF DocStates, Changed
<1> QED
  BY <1>1, <1>2, <1>3, <1>4

\* The findings of a document are findings.
LEMMA DiagnoseType ==
  ASSUME NEW u \in Uris, NEW d \in DocStates(MaxEdits)
  PROVE  Diagnose(u, d) \in Findings
BY DocTypes DEF Diagnose, Findings, Nothing

\* The cached value of a document is one.
LEMMA CachedType ==
  ASSUME TypeOK, NEW u \in Uris
  PROVE  Cached(u) \in DocStates(MaxEdits)
<1>1. docs[u] \in 0 .. Len(heap) /\ heap \in Seq(DocStates(MaxEdits))
  BY DEF TypeOK, Ptrs
<1>2. CASE docs[u] = 0
  BY <1>2, DocTypes DEF Cached
<1>3. CASE docs[u] # 0
  BY <1>1, <1>3 DEF Cached
<1> QED
  BY <1>2, <1>3

LEMMA EditsInType ==
  ASSUME TypeOK, NEW k \in 0 .. Len(log)
  PROVE  EditsIn(k) \in 0 .. MaxEdits
<1>1. CASE k = 0
  BY <1>1 DEF EditsIn
<1>2. CASE k # 0
  <2>1. log[k] \in Message
    BY <1>2 DEF TypeOK
  <2> QED
    BY <1>2, <2>1 DEF EditsIn, Message
<1> QED
  BY <1>1, <1>2

\* The handler at work, if there is one, has a message.
LEMMA NoteType ==
  ASSUME TypeOK, note # Idle
  PROVE  /\ note.pc \in {"start", "publish"} /\ note.msg \in Message /\ note.ptr \in Ptrs
         /\ note.msg.uri \in Uris /\ note.msg.text \in 0 .. MaxEdits /\ note.msg.lang \in Langs
BY DEF TypeOK, Message

LEMMA AtNoteIsBusy == note.pc \in {"start", "publish"} => note # Idle
BY DEF Idle

(* ---------------------------------------------------------------------- *)
(* Type correctness.                                                       *)

LEMMA TypeInit == Init => TypeOK
<1> SUFFICES ASSUME Init PROVE TypeOK
  OBVIOUS
<1>1. [u \in Uris |-> Closed] \in [Uris -> DocStates(MaxEdits)]
  BY DocTypes
<1>2. Nothing \in Findings
  BY DEF Nothing, Findings
<1>3. views \in Seq([Uris -> DocStates(MaxEdits)]) /\ Len(views) \in 1 .. MaxEdits + 1
  BY <1>1 DEF Init
<1>4. /\ log \in Seq(Message) /\ heap \in Seq(DocStates(MaxEdits))
      /\ diags \in Seq([uri : Uris, findings : Findings])
      /\ Len(log) = 0 /\ Len(heap) = 0 /\ Len(diags) = 0
  BY DEF Init
<1>5. /\ received \in 0 .. Len(diags) /\ {taken, last} \subseteq 0 .. Len(log)
      /\ panel \in [Uris -> Findings] /\ docs \in [Uris -> Ptrs]
  BY <1>2, <1>4 DEF Init, Ptrs
<1>6. /\ note \in {Idle} \cup [pc : {"start", "publish"}, msg : Message, ptr : Ptrs]
      /\ tasks \subseteq [id : 1 .. taken, pc : {"start", "read", "reread"}, ptr : Ptrs, first : 0 .. MaxEdits]
      /\ {attached, shutdownReceived, stopping, stopped, ended, polite} \subseteq BOOLEAN
      /\ exitCode \in {0, 1}
  BY DEF Init
<1> QED
  BY <1>3, <1>4, <1>5, <1>6 DEF TypeOK

\* A message the editor sends.
LEMMA SentType ==
  ASSUME TypeOK, NEW op \in Edits \cup Asks \cup {"shutdown", "exit"}, NEW u \in Uris,
         NEW text \in 0 .. MaxEdits, NEW lang \in Langs, NEW n \in 0 .. MaxEdits,
         Sent(op, u, text, lang, n)
  PROVE  log' \in Seq(Message) /\ Len(log') = Len(log) + 1
<1>1. [op |-> op, uri |-> u, text |-> text, lang |-> lang, n |-> n] \in Message
  BY DEF Message
<1> QED
  BY <1>1 DEF Sent, TypeOK

LEMMA ViewType ==
  ASSUME TypeOK
  PROVE  /\ View \in [Uris -> DocStates(MaxEdits)]
         /\ SentEdits \in 0 .. MaxEdits
BY DEF TypeOK, View, SentEdits

LEMMA SendEditType ==
  ASSUME TypeOK, NEW op \in Edits, NEW u \in Uris, NEW text \in 0 .. MaxEdits, NEW lang \in Langs,
         NEW d \in DocStates(MaxEdits), SendEdit(op, u, text, lang, d)
  PROVE  TypeOK'
<1>1. SentEdits + 1 \in 0 .. MaxEdits
  BY ViewType DEF SendEdit
<1>2. log' \in Seq(Message) /\ Len(log') = Len(log) + 1
  BY <1>1, SentType DEF SendEdit
<1>3. [View EXCEPT ![u] = d] \in [Uris -> DocStates(MaxEdits)]
  BY ViewType
<1>4. views' \in Seq([Uris -> DocStates(MaxEdits)]) /\ Len(views') \in 1 .. MaxEdits + 1
  BY <1>1, <1>3 DEF SendEdit, TypeOK, SentEdits
<1> QED
  BY <1>2, <1>4 DEF SendEdit, TypeOK, server, cache, life, Ptrs, Idle

\* The three edits of an editor, as one.
LEMMA EditsAreSent ==
  ASSUME TypeOK, NEW u \in Uris,
         (\E lang \in Langs : SendOpen(u, lang)) \/ SendChange(u) \/ SendClose(u)
  PROVE  \E op \in Edits, text \in 0 .. MaxEdits, lang \in Langs, d \in DocStates(MaxEdits) :
           /\ SendEdit(op, u, text, lang, d)
           /\ d = Effect([op |-> op, uri |-> u, text |-> text, lang |-> lang, n |-> SentEdits + 1],
                         View[u])
<1> DEFINE Msg(op, text, lang) == [op |-> op, uri |-> u, text |-> text, lang |-> lang, n |-> SentEdits + 1]
<1>1. /\ View[u] \in DocStates(MaxEdits) /\ View[u].text \in 0 .. MaxEdits
      /\ SentEdits \in 0 .. MaxEdits
  BY ViewType, DocTypes
<1>2. ASSUME NEW lang \in Langs, SendOpen(u, lang)
      PROVE  \E text \in 0 .. MaxEdits, d \in DocStates(MaxEdits) :
               SendEdit("didOpen", u, text, lang, d) /\ d = Effect(Msg("didOpen", text, lang), View[u])
  <2>1. SentEdits + 1 \in 0 .. MaxEdits
    BY <1>1, <1>2 DEF SendOpen, SendEdit
  <2>2. Opened(SentEdits + 1, lang) \in DocStates(MaxEdits)
    BY <2>1, DocTypes
  <2>3. Effect(Msg("didOpen", SentEdits + 1, lang), View[u]) = Opened(SentEdits + 1, lang)
    BY DEF Effect
  <2> QED
    BY <1>2, <2>1, <2>2, <2>3 DEF SendOpen
<1>3. ASSUME SendChange(u)
      PROVE  \E text \in 0 .. MaxEdits, d \in DocStates(MaxEdits) :
               SendEdit("didChange", u, text, NoLang, d) /\ d = Effect(Msg("didChange", text, NoLang), View[u])
  <2>1. CASE SendEdit("didChange", u, SentEdits + 1, NoLang, Changed(View[u], SentEdits + 1))
    <3>1. SentEdits + 1 \in 0 .. MaxEdits
      BY <1>1, <2>1 DEF SendEdit
    <3>2. Changed(View[u], SentEdits + 1) \in DocStates(MaxEdits)
      BY <1>1, <3>1, DocTypes
    <3>3. Effect(Msg("didChange", SentEdits + 1, NoLang), View[u]) = Changed(View[u], SentEdits + 1)
      BY <1>1 DEF Effect, NoChange
    <3> QED
      BY <2>1, <3>1, <3>2, <3>3
  <2>2. CASE SendEdit("didChange", u, NoChange, NoLang, Changed(View[u], View[u].text))
    <3>1. Changed(View[u], View[u].text) \in DocStates(MaxEdits) /\ NoChange \in 0 .. MaxEdits
      BY <1>1, DocTypes DEF NoChange
    <3>2. Effect(Msg("didChange", NoChange, NoLang), View[u]) = Changed(View[u], View[u].text)
      BY DEF Effect
    <3> QED
      BY <2>2, <3>1, <3>2
  <2> QED
    BY <1>3, <2>1, <2>2 DEF SendChange
<1>4. ASSUME SendClose(u)
      PROVE  /\ SendEdit("didClose", u, NoChange, NoLang, Closed)
             /\ Closed = Effect(Msg("didClose", NoChange, NoLang), View[u])
             /\ NoChange \in 0 .. MaxEdits /\ Closed \in DocStates(MaxEdits)
  BY <1>4, DocTypes DEF SendClose, Effect, NoChange
<1>5. {"didOpen", "didChange", "didClose"} \subseteq Edits /\ NoLang \in Langs
  BY DEF Edits
<1>6. CASE \E lang \in Langs : SendOpen(u, lang)
  BY <1>2, <1>5, <1>6
<1>7. CASE SendChange(u)
  BY <1>3, <1>5, <1>7
<1>8. CASE SendClose(u)
  BY <1>4, <1>5, <1>8
<1> QED
  BY <1>6, <1>7, <1>8

\* Whatever else the editor sends carries no edit.
LEMMA OthersAreSent ==
  ASSUME TypeOK, (\E u \in Uris : SendAsk(u)) \/ SendShutdown \/ SendExit
  PROVE  \E op \in Asks \cup {"shutdown", "exit"}, u \in Uris :
           /\ MaySend
           /\ Sent(op, u, NoChange, NoLang, SentEdits)
           /\ polite' = IF op = "exit" THEN \E a \in answers : log[a.id].op = "shutdown" ELSE polite
           /\ UNCHANGED <<views, received, panel, server>>
<1>1. (CHOOSE u \in Uris : TRUE) \in Uris
  OBVIOUS
<1>2. CASE \E u \in Uris : SendAsk(u)
  BY <1>2 DEF SendAsk, Asks
<1>3. CASE SendShutdown
  BY <1>1, <1>3 DEF SendShutdown
<1>4. CASE SendExit
  BY <1>1, <1>4 DEF SendExit
<1> QED
  BY <1>2, <1>3, <1>4

LEMMA SendOtherType ==
  ASSUME TypeOK, NEW op \in Asks \cup {"shutdown", "exit"}, NEW u \in Uris,
         Sent(op, u, NoChange, NoLang, SentEdits), polite' \in BOOLEAN,
         UNCHANGED <<views, received, panel, server>>
  PROVE  TypeOK'
<1>1. log' \in Seq(Message) /\ Len(log') = Len(log) + 1
  <2>1. SentEdits \in 0 .. MaxEdits /\ NoChange \in 0 .. MaxEdits
    BY ViewType DEF NoChange
  <2> QED
    BY <2>1, SentType
<1> QED
  BY <1>1 DEF TypeOK, server, cache, life, Ptrs, Idle

LEMMA ReceiveType == TypeOK /\ Receive => TypeOK'
<1> SUFFICES ASSUME TypeOK, Receive PROVE TypeOK'
  OBVIOUS
<1> DEFINE Diag == [uri : Uris, findings : Findings]
<1>1. received' \in 0 .. Len(diags) /\ diags[received'] \in Diag
  <2>1. diags \in Seq(Diag) /\ received \in Nat /\ received < Len(diags) /\ received' = received + 1
    BY DEF TypeOK, Receive
  <2> HIDE DEF Diag
  <2>2. received' \in 1 .. Len(diags)
    BY <2>1
  <2> QED
    BY <2>1, <2>2
<1>2. panel' \in [Uris -> Findings]
  BY <1>1 DEF TypeOK, Receive
<1> QED
  BY <1>1, <1>2 DEF TypeOK, Receive, server, cache, life, Ptrs, Idle

LEMMA TakeType == TypeOK /\ (TakeNote \/ TakeAsk) => TypeOK'
<1> SUFFICES ASSUME TypeOK, TakeNote \/ TakeAsk PROVE TypeOK'
  OBVIOUS
<1>1. Pending => taken + 1 \in 1 .. Len(log) /\ Next1 \in Message
  BY DEF TypeOK, Next1, Pending
<1>2. CASE TakeNote
  <2>1. [pc |-> "start", msg |-> Next1, ptr |-> 0]
           \in [pc : {"start", "publish"}, msg : Message, ptr : Ptrs]
    BY <1>1, <1>2 DEF TakeNote, Ptrs, TypeOK
  <2>2. taken' \in 1 .. Len(log) /\ 1 .. taken \subseteq 1 .. taken'
    BY <1>1, <1>2 DEF TakeNote, TypeOK
  <2>3. tasks' \subseteq [id : 1 .. taken', pc : {"start", "read", "reread"}, ptr : Ptrs, first : 0 .. MaxEdits]
    BY <1>2, <2>2 DEF TakeNote, TypeOK
  <2> QED
    BY <1>2, <2>1, <2>2, <2>3 DEF TakeNote, TypeOK, editor, cache, life, Ptrs, Idle
<1>3. CASE TakeAsk
  <2>1. taken' \in 1 .. Len(log) /\ 1 .. taken \subseteq 1 .. taken'
    BY <1>1, <1>3 DEF TakeAsk, TypeOK
  <2>2. [id |-> taken + 1, pc |-> "start", ptr |-> 0, first |-> 0]
           \in [id : 1 .. taken', pc : {"start", "read", "reread"}, ptr : Ptrs, first : 0 .. MaxEdits]
    BY <1>3, <2>1 DEF TakeAsk, Ptrs, TypeOK
  <2>3. tasks' \subseteq [id : 1 .. taken', pc : {"start", "read", "reread"}, ptr : Ptrs, first : 0 .. MaxEdits]
    BY <1>3, <2>1, <2>2 DEF TakeAsk, TypeOK
  <2> QED
    BY <1>3, <2>1, <2>3 DEF TakeAsk, TypeOK, editor, cache, life, Ptrs, Idle
<1> QED
  BY <1>2, <1>3

LEMMA LifeType == TypeOK /\ (Attach \/ Interrupt \/ Stop \/ Return \/ HandleExit) => TypeOK'
<1> SUFFICES ASSUME TypeOK PROVE Attach \/ Interrupt \/ Stop \/ Return \/ HandleExit => TypeOK'
  OBVIOUS
<1>1. Attach \/ Interrupt \/ Return => TypeOK'
  BY DEF Attach, Interrupt, Return, TypeOK, editor, cache, life, Ptrs, Idle
<1>2. Stop => TypeOK'
  BY DEF Stop, TypeOK, editor, cache, life, Ptrs, Idle
<1>3. HandleExit => TypeOK'
  BY DEF HandleExit, TypeOK, editor, cache, life, Ptrs, Idle
<1> QED
  BY <1>1, <1>2, <1>3

\* A pointer stays one when a value is added, and the value is found under the new one.
LEMMA StoreType ==
  ASSUME TypeOK, note # Idle, NEW d \in DocStates(MaxEdits), Store(note.msg.uri, d),
         UNCHANGED <<editor, taken, tasks, diags, answers, life>>
  PROVE  TypeOK'
<1>1. /\ heap' \in Seq(DocStates(MaxEdits)) /\ Len(heap') = Len(heap) + 1
      /\ Len(heap) + 1 \in Ptrs' /\ Ptrs \subseteq Ptrs'
  BY DEF Store, TypeOK, Ptrs
<1>2. docs' \in [Uris -> Ptrs']
  BY <1>1, NoteType DEF Store, TypeOK
<1>3. note' \in [pc : {"start", "publish"}, msg : Message, ptr : Ptrs']
  BY <1>1, NoteType DEF Store, TypeOK
<1>4. tasks' \subseteq [id : 1 .. taken', pc : {"start", "read", "reread"}, ptr : Ptrs', first : 0 .. MaxEdits]
  BY <1>1 DEF TypeOK
<1> QED
  BY <1>1, <1>2, <1>3, <1>4 DEF TypeOK, editor, life, Idle

\* What didOpen and didChange store is a document.
LEMMA StoredTypes ==
  ASSUME TypeOK, note # Idle
  PROVE  /\ Opened(note.msg.text, note.msg.lang) \in DocStates(MaxEdits)
         /\ Changed(Cached(note.msg.uri), NewText(note.msg.uri)) \in DocStates(MaxEdits)
<1>1. Cached(note.msg.uri) \in DocStates(MaxEdits) /\ Cached(note.msg.uri).text \in 0 .. MaxEdits
  BY NoteType, CachedType, DocTypes
<1>2. NewText(note.msg.uri) \in 0 .. MaxEdits
  BY <1>1, NoteType DEF NewText
<1> QED
  BY <1>1, <1>2, NoteType, DocTypes

LEMMA HandleType == TypeOK /\ (StoreOpen \/ StoreChange \/ StoreClose \/ Publish) => TypeOK'
<1> SUFFICES ASSUME TypeOK, StoreOpen \/ StoreChange \/ StoreClose \/ Publish PROVE TypeOK'
  OBVIOUS
<1>1. note # Idle
  BY AtNoteIsBusy DEF StoreOpen, StoreChange, StoreClose, Publish, AtNote
<1>2. CASE StoreOpen
  BY <1>1, <1>2, StoredTypes, StoreType DEF StoreOpen
<1>3. CASE StoreChange
  BY <1>1, <1>3, StoredTypes, StoreType DEF StoreChange
<1>4. CASE StoreClose
  <2>1. docs' \in [Uris -> Ptrs]
    BY <1>1, <1>4, NoteType DEF StoreClose, TypeOK, Ptrs
  <2>2. note' \in [pc : {"start", "publish"}, msg : Message, ptr : Ptrs]
    BY <1>1, <1>4, NoteType DEF StoreClose, TypeOK
  <2> QED
    BY <1>4, <2>1, <2>2 DEF StoreClose, TypeOK, editor, life, Ptrs, Idle
<1>5. CASE Publish
  <2> DEFINE u == note.msg.uri
             f == IF note.ptr = 0 THEN Nothing ELSE Diagnose(u, heap[note.ptr])
  <2>1. f \in Findings
    <3>1. Nothing \in Findings
      BY DEF Nothing, Findings
    <3>2. note.ptr # 0 => heap[note.ptr] \in DocStates(MaxEdits)
      BY <1>1, NoteType DEF TypeOK, Ptrs
    <3> QED
      BY <1>1, <3>1, <3>2, NoteType, DiagnoseType
  <2>2. diags' \in Seq([uri : Uris, findings : Findings]) /\ Len(diags') >= Len(diags)
    <3> DEFINE Diag == [uri : Uris, findings : Findings]
               sent == [uri |-> u, findings |-> f]
    <3>1. sent \in Diag
      BY <1>1, <2>1, NoteType
    <3>2. diags' = Append(diags, sent) \/ diags' = diags
      BY <1>5 DEF Publish
    <3>3. diags \in Seq(Diag)
      BY DEF TypeOK
    <3> HIDE DEF Diag, sent
    <3>4. diags' \in Seq(Diag) /\ Len(diags') >= Len(diags)
      BY <3>1, <3>2, <3>3
    <3> QED
      BY <3>4 DEF Diag
  <2>3. received' \in 0 .. Len(diags')
    BY <1>5, <2>2 DEF Publish, TypeOK, editor
  <2> QED
    BY <1>5, <2>2, <2>3 DEF Publish, TypeOK, editor, cache, life, Ptrs, Idle
<1> QED
  BY <1>2, <1>3, <1>4, <1>5

LEMMA ServeType == ASSUME TypeOK, TasksInv, NEW t \in tasks, Serve(t) PROVE TypeOK'
<1> DEFINE Task == [id : 1 .. taken, pc : {"start", "read", "reread"}, ptr : Ptrs, first : 0 .. MaxEdits]
<1>1. t \in Task
  BY DEF TypeOK
<1>2. tasks' \subseteq Task
  <2>1. CASE Snapshot(t)
    <3> DEFINE p == docs[MsgOf(t).uri]
    <3>1. p \in Ptrs
      <4>1. t.id \in 1 .. taken /\ taken \in 0 .. Len(log) /\ log \in Seq(Message)
        BY <1>1 DEF TypeOK
      <4>2. log[t.id] \in Message
        BY <4>1
      <4> QED
        BY <4>2 DEF TypeOK, MsgOf, Message
    <3>2. [t EXCEPT !.pc = "read", !.ptr = p] \in Task
      BY <1>1, <3>1
    <3>3. tasks' \subseteq tasks \cup {[t EXCEPT !.pc = "read", !.ptr = p]}
      BY <2>1 DEF Snapshot, Replaced, Respond
    <3> QED
      BY <3>2, <3>3 DEF TypeOK
  <2>2. CASE ReadText(t)
    <3>1. t.ptr \in DOMAIN heap
      BY <2>2 DEF ReadText, TasksInv
    <3>2. heap[t.ptr] \in DocStates(MaxEdits)
      BY <3>1 DEF TypeOK
    <3>3. heap[t.ptr].text \in 0 .. MaxEdits
      BY <3>2, DocTypes
    <3>4. [t EXCEPT !.pc = "reread", !.first = heap[t.ptr].text] \in Task
      BY <1>1, <3>3
    <3> QED
      BY <2>2, <3>4 DEF ReadText, Replaced, TypeOK
  <2>3. CASE AnswerAsk(t) \/ HandleShutdown(t)
    BY <2>3 DEF AnswerAsk, HandleShutdown, Respond, TypeOK
  <2> QED
    BY <2>1, <2>2, <2>3 DEF Serve
<1>3. /\ UNCHANGED <<editor, taken, cache, note, diags, attached, exitCode, stopping, stopped, last, ended>>
      /\ shutdownReceived' \in BOOLEAN
  BY DEF Serve, Snapshot, ReadText, AnswerAsk, HandleShutdown, TypeOK, life
<1> QED
  BY <1>2, <1>3 DEF TypeOK, editor, cache, Ptrs, Idle

(* ---------------------------------------------------------------------- *)
(* The invariant.                                                          *)

LEMMA InitInv == Init => ServerInv
<1> SUFFICES ASSUME Init PROVE ServerInv
  OBVIOUS
<1>1. TypeOK
  BY TypeInit
<1>2. log = <<>> /\ Len(log) = 0 /\ DOMAIN log = {} /\ taken = 0
      /\ heap = <<>> /\ DOMAIN heap = {} /\ diags = <<>> /\ Len(diags) = 0 /\ DOMAIN diags = {}
      /\ Len(views) = 1 /\ views[1] = [u \in Uris |-> Closed]
      /\ note = Idle /\ tasks = {} /\ answers = {} /\ received = 0
  BY DEF Init
<1>3. EditsIn(taken) = 0 /\ EditsIn(Len(log)) = 0 /\ SentEdits = 0
      /\ ~AtWork({"start"}) /\ ~AtWork({"start", "publish"})
  BY <1>2 DEF EditsIn, SentEdits, AtWork, Idle
<1>4. LogInv /\ ViewsInv
  BY <1>2, <1>3 DEF LogInv, ViewsInv
<1>5. NoteInv
  BY <1>2, <1>3 DEF NoteInv, Stored, Cached, Init
<1>6. DiagsInv /\ TasksInv /\ AnswersInv
  BY <1>2, <1>3 DEF DiagsInv, Published, TasksInv, AnswersInv
<1>7. PanelInv
  BY <1>2 DEF PanelInv, Init, Diagnose, Closed
<1>8. ExitInv
  BY <1>2 DEF ExitInv, Init
<1> QED
  BY <1>1, <1>4, <1>5, <1>6, <1>7, <1>8 DEF ServerInv

\* The counts are those of views.
LEMMA Counts ==
  ASSUME TypeOK, LogInv, NoteInv
  PROVE  /\ Len(views) = SentEdits + 1 /\ SentEdits \in Nat
         /\ \A k \in 0 .. Len(log) : EditsIn(k) \in 0 .. SentEdits
         /\ Stored \in 0 .. SentEdits /\ Published \in 0 .. SentEdits
         /\ AtWork({"start", "publish"}) =>
              /\ taken \in DOMAIN log /\ note.msg = log[taken] /\ log[taken].op \in Edits
              /\ EditsIn(taken) = log[taken].n /\ EditsIn(taken - 1) = log[taken].n - 1
              /\ log[taken].n \in 1 .. SentEdits
<1>1. /\ Len(views) = SentEdits + 1 /\ SentEdits \in Nat /\ taken \in 0 .. Len(log)
      /\ Len(log) \in Nat /\ DOMAIN log = 1 .. Len(log)
  BY DEF TypeOK, SentEdits
<1>2. ASSUME NEW k \in 0 .. Len(log) PROVE EditsIn(k) \in 0 .. SentEdits
  <2>1. EditsIn(k) \in Nat /\ EditsIn(Len(log)) = SentEdits
    BY EditsInType DEF LogInv
  <2>2. CASE k < Len(log)
    <3> DEFINE top == Len(log)
    <3>1. /\ top \in DOMAIN log /\ k # 0 => k \in DOMAIN log
          /\ top - 1 \in 0 .. Len(log) /\ top # 0 /\ k < top
      BY <1>1, <2>2
    <3>2. EditsIn(top - 1) \in Nat /\ EditsIn(0) = 0 /\ EditsIn(top) = log[top].n
      <4>1. EditsIn(top - 1) \in 0 .. MaxEdits
        BY <3>1, EditsInType
      <4>2. EditsIn(0) = 0 /\ EditsIn(top) = log[top].n
        BY <3>1 DEF EditsIn
      <4> QED
        BY <4>1, <4>2
    <3>3. log[top].n = EditsIn(top - 1) + (IF log[top].op \in Edits THEN 1 ELSE 0)
      BY <3>1 DEF LogInv
    <3>4. k # 0 => EditsIn(k) <= EditsIn(top - 1)
      BY <3>1 DEF LogInv
    <3>5. EditsIn(k) <= EditsIn(top - 1)
      BY <2>1, <3>2, <3>4
    <3> QED
      BY <1>1, <2>1, <3>2, <3>3, <3>5
  <2>3. CASE k = Len(log)
    BY <1>1, <2>1, <2>3
  <2>4. k < Len(log) \/ k = Len(log)
    <3>1. Len(log) \in Nat
      BY <1>1
    <3> QED
      BY <3>1
  <2> QED
    BY <2>2, <2>3, <2>4
<1>3. ASSUME AtWork({"start", "publish"})
      PROVE  /\ taken \in DOMAIN log /\ note.msg = log[taken] /\ log[taken].op \in Edits
             /\ EditsIn(taken) = log[taken].n /\ EditsIn(taken - 1) = log[taken].n - 1
             /\ log[taken].n \in 1 .. SentEdits
  <2>1. taken > 0 /\ note.msg = log[taken] /\ log[taken].op \in Edits
    BY <1>3, AtNoteIsBusy DEF AtWork, NoteInv
  <2>2. taken \in DOMAIN log
    BY <1>1, <2>1
  <2>3. EditsIn(taken) = log[taken].n
    BY <2>1 DEF EditsIn
  <2>4. log[taken].n = EditsIn(taken - 1) + 1
    BY <2>1, <2>2 DEF LogInv
  <2>5. EditsIn(taken - 1) \in 0 .. SentEdits /\ EditsIn(taken) \in 0 .. SentEdits
    BY <1>1, <1>2, <2>1
  <2> QED
    BY <2>1, <2>2, <2>3, <2>4, <2>5
<1>4. EditsIn(taken) \in 0 .. SentEdits
  BY <1>1, <1>2
<1>5. AtWork({"start"}) => AtWork({"start", "publish"})
  BY DEF AtWork
<1>6. Stored \in 0 .. SentEdits /\ Published \in 0 .. SentEdits
  BY <1>1, <1>3, <1>4, <1>5 DEF Stored, Published
<1> QED
  BY <1>1, <1>2, <1>3, <1>6

\* What a message appended to the log changes of the counts and views.
LEMMA SentCounts ==
  ASSUME TypeOK, LogInv, NoteInv,
         NEW op \in Edits \cup Asks \cup {"shutdown", "exit"}, NEW u \in Uris,
         NEW text \in 0 .. MaxEdits, NEW lang \in Langs, NEW d \in DocStates(MaxEdits),
         Sent(op, u, text, lang, SentEdits'),
         \/ op \in Edits /\ views' = Append(views, [View EXCEPT ![u] = d])
         \/ op \notin Edits /\ views' = views
  PROVE  /\ DOMAIN log' = 1 .. Len(log) + 1 /\ DOMAIN log = 1 .. Len(log) /\ Len(log) \in Nat
         /\ Len(log') = Len(log) + 1
         /\ \A i \in DOMAIN log : log'[i] = log[i]
         /\ log'[Len(log) + 1] = [op |-> op, uri |-> u, text |-> text, lang |-> lang, n |-> SentEdits']
         /\ SentEdits' = SentEdits + (IF op \in Edits THEN 1 ELSE 0)
         /\ \A k \in 0 .. SentEdits : views'[k + 1] = views[k + 1]
         /\ op \in Edits => views'[SentEdits' + 1] = [views[SentEdits + 1] EXCEPT ![u] = d]
<1> DEFINE m == [op |-> op, uri |-> u, text |-> text, lang |-> lang, n |-> SentEdits']
           Views == [Uris -> DocStates(MaxEdits)]
           w == [View EXCEPT ![u] = d]
<1>1. log \in Seq(Message) /\ log' = Append(log, m)
  BY DEF TypeOK, Sent
<1>2. /\ DOMAIN log' = 1 .. Len(log) + 1 /\ DOMAIN log = 1 .. Len(log) /\ Len(log) \in Nat
      /\ Len(log') = Len(log) + 1
      /\ \A i \in DOMAIN log : log'[i] = log[i]
      /\ log'[Len(log) + 1] = m
  <2> HIDE DEF m
  <2> QED
    BY <1>1
<1>3. w \in Views /\ views \in Seq(Views) /\ SentEdits \in Nat /\ Len(views) = SentEdits + 1
      /\ View = views[SentEdits + 1]
  BY ViewType, Counts DEF TypeOK, View
<1>4. CASE op \in Edits /\ views' = Append(views, w)
  <2> HIDE DEF w, Views
  <2>1. /\ Len(views') = Len(views) + 1 /\ views'[Len(views) + 1] = w
        /\ \A k \in 1 .. Len(views) : views'[k] = views[k]
    BY <1>3, <1>4
  <2>2. SentEdits' = SentEdits + 1
    BY <1>3, <2>1 DEF SentEdits
  <2> QED
    BY <1>2, <1>3, <1>4, <2>1, <2>2 DEF w
<1>5. CASE op \notin Edits /\ views' = views
  <2>1. SentEdits' = SentEdits
    BY <1>5 DEF SentEdits
  <2> QED
    BY <1>2, <1>3, <1>5, <2>1
<1> QED
  BY <1>4, <1>5

\* A claim about an answer stays true while the editor goes on.
LEMMA SendAbout ==
  ASSUME TypeOK, LogInv, NoteInv,
         NEW op \in Edits \cup Asks \cup {"shutdown", "exit"}, NEW u \in Uris,
         NEW text \in 0 .. MaxEdits, NEW lang \in Langs, NEW d \in DocStates(MaxEdits),
         Sent(op, u, text, lang, SentEdits'),
         \/ op \in Edits /\ views' = Append(views, [View EXCEPT ![u] = d])
         \/ op \notin Edits /\ views' = views,
         NEW id \in DOMAIN log, NEW open, NEW t, About(id, open, t)
  PROVE  About(id, open, t)'
<1>1. PICK k \in log[id].n .. SentEdits :
        views[k + 1][log[id].uri].open = open /\ views[k + 1][log[id].uri].text = t
  BY DEF About
<1>2. log[id].n \in Nat /\ SentEdits \in Nat
  <2>1. log[id] \in Message
    BY DEF TypeOK
  <2> QED
    BY <2>1, Counts DEF Message
<1>3. k \in 0 .. SentEdits
  BY <1>2
<1>4. /\ log'[id] = log[id] /\ views'[k + 1] = views[k + 1]
      /\ SentEdits' = SentEdits + (IF op \in Edits THEN 1 ELSE 0)
  BY <1>3, SentCounts
<1>5. k \in log'[id].n .. SentEdits'
  BY <1>2, <1>4
<1> QED
  BY <1>1, <1>4, <1>5 DEF About

\* Whatever the editor sends keeps the invariant.
LEMMA SendInv ==
  ASSUME ServerInv, TypeOK', MaySend,
         NEW op \in Edits \cup Asks \cup {"shutdown", "exit"}, NEW u \in Uris,
         NEW text \in 0 .. MaxEdits, NEW lang \in Langs, NEW d \in DocStates(MaxEdits),
         Sent(op, u, text, lang, SentEdits'),
         \/ /\ op \in Edits
            /\ d = Effect([op |-> op, uri |-> u, text |-> text, lang |-> lang, n |-> SentEdits'], View[u])
            /\ views' = Append(views, [View EXCEPT ![u] = d])
         \/ op \notin Edits /\ views' = views,
         polite' => shutdownReceived,
         UNCHANGED <<received, panel, server>>
  PROVE  ServerInv'
<1> DEFINE m == [op |-> op, uri |-> u, text |-> text, lang |-> lang, n |-> SentEdits']
           top == Len(log) + 1
<1>0. /\ TypeOK /\ LogInv /\ ViewsInv /\ NoteInv /\ DiagsInv
      /\ PanelInv /\ TasksInv /\ AnswersInv /\ ExitInv
  BY DEF ServerInv
<1>1. /\ DOMAIN log' = 1 .. top /\ DOMAIN log = 1 .. Len(log) /\ Len(log) \in Nat /\ Len(log') = top
      /\ \A i \in DOMAIN log : log'[i] = log[i]
      /\ log'[top] = m
      /\ SentEdits' = SentEdits + (IF op \in Edits THEN 1 ELSE 0)
      /\ \A k \in 0 .. SentEdits : views'[k + 1] = views[k + 1]
      /\ op \in Edits => views'[SentEdits' + 1] = [views[SentEdits + 1] EXCEPT ![u] = d]
  BY <1>0, SentCounts
<1>2. /\ Len(views) = SentEdits + 1 /\ SentEdits \in Nat /\ taken \in 0 .. Len(log)
      /\ \A k \in 0 .. Len(log) : EditsIn(k) \in 0 .. SentEdits
      /\ Stored \in 0 .. SentEdits /\ Published \in 0 .. SentEdits
  BY <1>0, Counts DEF TypeOK
<1>3. \A k \in 0 .. Len(log) : EditsIn(k)' = EditsIn(k)
  BY <1>1 DEF EditsIn
<1>4. UNCHANGED <<taken, heap, docs, note, tasks, diags, answers, attached, shutdownReceived, exitCode,
                  stopping, stopped, last, ended, received, panel>>
  BY DEF server, cache, life
<1>5. Stored' = Stored /\ Published' = Published
  BY <1>2, <1>3, <1>4 DEF Stored, Published, AtWork
<1>6. LogInv'
  <2>1. ASSUME NEW i \in DOMAIN log'
        PROVE  log'[i].n = EditsIn(i - 1)' + (IF log'[i].op \in Edits THEN 1 ELSE 0)
    <3>1. CASE i \in DOMAIN log
      BY <1>0, <1>1, <1>3, <3>1 DEF LogInv
    <3>2. CASE i = top
      BY <1>0, <1>1, <1>3, <3>2 DEF LogInv
    <3> QED
      BY <1>1, <3>1, <3>2
  <2>2. ASSUME NEW i \in DOMAIN log', NEW j \in DOMAIN log', i < j
        PROVE  EditsIn(i)' <= EditsIn(j - 1)'
    <3>1. i \in DOMAIN log /\ i \in 0 .. Len(log) /\ j - 1 \in 0 .. Len(log)
      BY <1>1, <2>2
    <3>2. CASE j \in DOMAIN log
      BY <1>0, <1>3, <2>2, <3>1, <3>2 DEF LogInv
    <3>3. CASE j = top
      <4>1. EditsIn(j - 1) = SentEdits /\ EditsIn(i) <= SentEdits
        BY <1>0, <1>1, <1>2, <3>1, <3>3 DEF LogInv
      <4> QED
        BY <1>3, <3>1, <4>1
    <3> QED
      BY <1>1, <3>2, <3>3
  <2>3. EditsIn(Len(log))' = SentEdits'
    BY <1>1 DEF EditsIn
  <2>4. \A i \in DOMAIN log' : log'[i].op = "exit" => i = Len(log')
    BY <1>1 DEF MaySend
  <2>5. attached' \/ EagerClient
    BY <1>4 DEF MaySend
  <2> QED
    BY <2>1, <2>2, <2>3, <2>4, <2>5 DEF LogInv
<1>7. ViewsInv'
  <2>1. views'[1] = views[1]
    BY <1>1, <1>2
  <2>2. ASSUME NEW i \in DOMAIN log', log'[i].op \in Edits
        PROVE  views'[log'[i].n + 1] =
                 [views'[log'[i].n] EXCEPT ![log'[i].uri] = Effect(log'[i], views'[log'[i].n][log'[i].uri])]
    <3>1. CASE i \in DOMAIN log
      <4>1. log[i].n = EditsIn(i - 1) + 1 /\ EditsIn(i - 1) \in Nat /\ EditsIn(i) \in 0 .. SentEdits
            /\ EditsIn(i) = log[i].n
        <5>1. i - 1 \in 0 .. Len(log) /\ i \in 0 .. Len(log) /\ i # 0
          BY <1>1, <3>1
        <5>2. EditsIn(i) = log[i].n
          BY <5>1 DEF EditsIn
        <5> QED
          BY <1>0, <1>1, <1>2, <2>2, <3>1, <5>1, <5>2 DEF LogInv
      <4>2. views'[log[i].n + 1] = views[log[i].n + 1]
        BY <1>1, <4>1
      <4>3. views'[log[i].n] = views[log[i].n]
        <5>1. log[i].n - 1 \in 0 .. SentEdits /\ (log[i].n - 1) + 1 = log[i].n
          BY <1>2, <4>1
        <5> QED
          BY <1>1, <5>1
      <4> QED
        BY <1>0, <1>1, <2>2, <3>1, <4>2, <4>3 DEF ViewsInv
    <3>2. CASE i = top
      <4>1. op \in Edits /\ SentEdits' = SentEdits + 1
        BY <1>1, <2>2, <3>2
      <4>2. views'[SentEdits'] = views[SentEdits + 1] /\ View = views[SentEdits + 1]
        BY <1>1, <1>2, <4>1 DEF View
      <4>3. d = Effect(m, View[u])
        BY <4>1
      <4> QED
        BY <1>1, <3>2, <4>1, <4>2, <4>3
    <3> QED
      BY <1>1, <3>1, <3>2
  <2> QED
    BY <1>0, <2>1, <2>2 DEF ViewsInv
<1>8. NoteInv'
  <2>1. note # Idle => taken \in DOMAIN log
    BY <1>0, <1>1, <1>2 DEF NoteInv
  <2>2. \A v \in Uris : Cached(v)' = views'[Stored + 1][v]
    BY <1>0, <1>1, <1>2, <1>4 DEF NoteInv, Cached
  <2> QED
    BY <1>0, <1>1, <1>4, <1>5, <2>1, <2>2 DEF NoteInv, Idle
<1>9. DiagsInv'
  <2>1. Len(diags) \in Nat /\ DOMAIN diags = 1 .. Len(diags) /\ Len(diags) <= SentEdits
    BY <1>0, <1>2 DEF TypeOK, DiagsInv
  <2>2. ASSUME NEW k \in DOMAIN diags PROVE views'[k + 1] = views[k + 1] /\ views'[k] = views[k]
    <3>1. k \in 0 .. SentEdits /\ k - 1 \in 0 .. SentEdits /\ (k - 1) + 1 = k
      BY <1>2, <2>1
    <3> QED
      BY <1>1, <3>1
  <2> QED
    BY <1>0, <1>4, <1>5, <2>2 DEF DiagsInv
<1>10. PanelInv'
  <2>1. received \in 0 .. SentEdits
    BY <1>0, <1>2 DEF TypeOK, DiagsInv
  <2> QED
    BY <1>0, <1>1, <1>4, <2>1 DEF PanelInv
<1>11. TasksInv'
  <2>1. ASSUME NEW t \in tasks
        PROVE  t.id \in DOMAIN log /\ log'[t.id] = log[t.id]
    <3>1. t.id \in 1 .. taken
      BY <1>0 DEF TypeOK
    <3>2. t.id \in DOMAIN log
      BY <1>1, <1>2, <3>1
    <3> QED
      BY <1>1, <3>2
  <2>2. ASSUME NEW t \in tasks, t.pc # "start"
        PROVE  About(t.id, TRUE, heap[t.ptr].text)'
    BY <1>0, <1>4, <2>1, <2>2, SendAbout DEF TasksInv
  <2> QED
    BY <1>0, <1>4, <2>1, <2>2 DEF TasksInv
<1>12. AnswersInv'
  <2>1. ASSUME NEW a \in answers
        PROVE  /\ a.id \in DOMAIN log' /\ log'[a.id] = log[a.id]
               /\ log[a.id].op \in Asks => a.first = a.second /\ About(a.id, a.open, a.first)'
    <3>1. a.id \in DOMAIN log
      BY <1>0 DEF AnswersInv
    <3>2. log[a.id].op \in Asks => a.first = a.second /\ About(a.id, a.open, a.first)
      BY <1>0 DEF AnswersInv
    <3> QED
      BY <1>0, <1>1, <3>1, <3>2, SendAbout
  <2> QED
    BY <1>4, <2>1 DEF AnswersInv
<1>13. ExitInv'
  <2>1. \A a \in answers : a.id \in DOMAIN log
    BY <1>0 DEF AnswersInv
  <2>2. ASSUME NEW i \in 1 .. taken PROVE log'[i].op # "exit"
    <3>1. i \in DOMAIN log
      BY <1>1, <1>2
    <3> QED
      BY <1>1, <3>1 DEF MaySend
  <2>3. ended => ~Pending'
    BY <1>0, <1>4 DEF ExitInv, Pending
  <2> QED
    BY <1>0, <1>1, <1>4, <2>1, <2>2, <2>3 DEF ExitInv, Idle
<1> QED
  BY <1>6, <1>7, <1>8, <1>9, <1>10, <1>11, <1>12, <1>13 DEF ServerInv

\* What only the editor's messages can disturb.
LEMMA SameEditor ==
  ASSUME UNCHANGED <<log, views>>, attached => attached'
  PROVE  /\ LogInv => LogInv'
         /\ ViewsInv => ViewsInv'
         /\ PanelInv /\ UNCHANGED <<received, panel>> => PanelInv'
         /\ \A id, open, t : About(id, open, t) <=> About(id, open, t)'
         /\ \A k : EditsIn(k)' = EditsIn(k)
<1>1. \A k : EditsIn(k)' = EditsIn(k)
  BY DEF EditsIn
<1>2. SentEdits' = SentEdits
  BY DEF SentEdits
<1>3. LogInv => LogInv'
  BY <1>1, <1>2 DEF LogInv
<1>4. ViewsInv => ViewsInv'
  BY DEF ViewsInv
<1>5. PanelInv /\ UNCHANGED <<received, panel>> => PanelInv'
  BY DEF PanelInv
<1>6. \A id, open, t : About(id, open, t) <=> About(id, open, t)'
  BY <1>2 DEF About
<1> QED
  BY <1>1, <1>3, <1>4, <1>5, <1>6

\* The parts about handlers and findings depend on nothing else.
LEMMA SameNote ==
  ASSUME UNCHANGED <<log, views, taken, heap, docs, note>>
  PROVE  /\ NoteInv => NoteInv'
         /\ Stored' = Stored /\ Published' = Published
         /\ DiagsInv /\ diags' = diags /\ (stopped => stopped') => DiagsInv'
<1>1. Stored' = Stored /\ Published' = Published
  BY DEF Stored, Published, AtWork, EditsIn
<1>2. \A v \in Uris : Cached(v)' = Cached(v)
  BY DEF Cached
<1>3. NoteInv => NoteInv'
  BY <1>1, <1>2 DEF NoteInv, Idle
<1>4. DiagsInv /\ diags' = diags /\ (stopped => stopped') => DiagsInv'
  BY <1>1 DEF DiagsInv
<1> QED
  BY <1>1, <1>3, <1>4

LEMMA SameTasks ==
  ASSUME UNCHANGED <<log, views>>
  PROVE  /\ TasksInv /\ UNCHANGED <<tasks, heap>> => TasksInv'
         /\ AnswersInv /\ answers' = answers => AnswersInv'
<1>1. SentEdits' = SentEdits
  BY DEF SentEdits
<1>2. \A id, open, t : About(id, open, t)' <=> About(id, open, t)
  BY <1>1 DEF About
<1>3. TasksInv /\ UNCHANGED <<tasks, heap>> => TasksInv'
  BY <1>1 DEF TasksInv, About
<1>4. AnswersInv /\ answers' = answers => AnswersInv'
  BY <1>1 DEF AnswersInv, About
<1> QED
  BY <1>3, <1>4

LEMMA ReceiveInv == ASSUME ServerInv, Receive PROVE ServerInv'
<1>0. /\ TypeOK /\ LogInv /\ ViewsInv /\ NoteInv /\ DiagsInv
      /\ PanelInv /\ TasksInv /\ AnswersInv /\ ExitInv
  BY DEF ServerInv
<1>1. TypeOK'
  BY <1>0, ReceiveType
<1>2. UNCHANGED <<log, views, taken, heap, docs, note, tasks, diags, answers, attached, shutdownReceived,
                  exitCode, stopping, stopped, last, ended, polite>>
  BY DEF Receive, server, cache, life
<1>3. PanelInv'
  <2> SUFFICES ASSUME ~EagerClient
               PROVE  panel' = [v \in Uris |-> Diagnose(v, views[received' + 1][v])]
    BY <1>2 DEF PanelInv
  <2> DEFINE k == received + 1
  <2>1. received' = k /\ k \in DOMAIN diags /\ k \in Nat /\ k = received + 1
        /\ panel' = [panel EXCEPT ![diags[k].uri] = diags[k].findings]
    BY <1>0, <1>2 DEF TypeOK, Receive
  <2>2. ASSUME NEW v \in Uris PROVE panel'[v] = Diagnose(v, views[k + 1][v])
    <3>1. CASE v = diags[k].uri
      BY <1>0, <2>1, <3>1 DEF DiagsInv, TypeOK
    <3>2. CASE v # diags[k].uri
      <4>1. panel'[v] = panel[v] /\ panel[v] = Diagnose(v, views[k][v])
        BY <1>0, <2>1, <3>2 DEF PanelInv, TypeOK
      <4>2. views[k + 1][v] = views[k][v]
        BY <1>0, <2>1, <3>2 DEF DiagsInv
      <4> QED
        BY <4>1, <4>2
    <3> QED
      BY <3>1, <3>2
  <2>3. panel' \in [Uris -> Findings]
    BY <1>1 DEF TypeOK
  <2> QED
    BY <2>1, <2>2, <2>3
<1>4. LogInv' /\ ViewsInv'
  BY <1>0, <1>2, SameEditor
<1>5. NoteInv' /\ DiagsInv'
  BY <1>0, <1>2, SameNote
<1>6. TasksInv' /\ AnswersInv'
  BY <1>0, <1>2, SameTasks
<1>7. ExitInv'
  BY <1>0, <1>2 DEF ExitInv, Pending, Idle
<1> QED
  BY <1>1, <1>3, <1>4, <1>5, <1>6, <1>7 DEF ServerInv

LEMMA LifeInv == ASSUME ServerInv, Attach \/ Interrupt \/ Stop \/ Return PROVE ServerInv'
<1>0. /\ TypeOK /\ LogInv /\ ViewsInv /\ NoteInv /\ DiagsInv
      /\ PanelInv /\ TasksInv /\ AnswersInv /\ ExitInv
  BY DEF ServerInv
<1>1. TypeOK'
  BY <1>0, LifeType
<1>2. UNCHANGED <<log, views, taken, heap, docs, note, tasks, diags, answers, shutdownReceived,
                  exitCode, polite, received, panel>>
      /\ (attached => attached') /\ (stopped => stopped')
  BY DEF Attach, Interrupt, Stop, Return, editor, cache
<1>3. LogInv' /\ ViewsInv' /\ PanelInv'
  BY <1>0, <1>2, SameEditor
<1>4. NoteInv' /\ DiagsInv'
  BY <1>0, <1>2, SameNote
<1>5. TasksInv' /\ AnswersInv'
  BY <1>0, <1>2, SameTasks
<1>6. ended' => note = Idle /\ stopped' /\ ~Pending'
  <2>1. CASE Stop
    BY <1>0, <2>1 DEF Stop, ExitInv
  <2>2. CASE Attach \/ Interrupt
    BY <1>0, <1>2, <2>2 DEF Attach, Interrupt, ExitInv, Pending
  <2>3. CASE Return
    BY <1>2, <2>3 DEF Return, Pending
  <2> QED
    BY <2>1, <2>2, <2>3
<1>7. ExitInv'
  BY <1>0, <1>2, <1>6 DEF ExitInv, Idle
<1> QED
  BY <1>1, <1>3, <1>4, <1>5, <1>7 DEF ServerInv

\* The parts of ExitInv that matter while exit has not been taken.
LEMMA HandleExitInv == ASSUME ServerInv, HandleExit PROVE ServerInv'
<1>0. /\ TypeOK /\ LogInv /\ ViewsInv /\ NoteInv /\ DiagsInv
      /\ PanelInv /\ TasksInv /\ AnswersInv /\ ExitInv
  BY DEF ServerInv
<1>1. TypeOK'
  BY <1>0, LifeType
<1>2. UNCHANGED <<log, views, taken, heap, docs, tasks, diags, answers, shutdownReceived, stopped, last,
                  ended, polite, received, panel, attached>>
      /\ note' = Idle /\ note # Idle /\ note.msg.op = "exit" /\ note.pc = "start"
  BY AtNoteIsBusy DEF HandleExit, AtNote, editor, cache
<1>3. LogInv' /\ ViewsInv' /\ PanelInv'
  BY <1>0, <1>2, SameEditor
<1>4. TasksInv' /\ AnswersInv'
  BY <1>0, <1>2, SameTasks
<1>5. Stored' = Stored /\ Published' = Published
  <2>1. ~AtWork({"start"}) /\ ~AtWork({"start", "publish"})
    BY <1>2 DEF AtWork, Edits
  <2>2. ~AtWork({"start"})' /\ ~AtWork({"start", "publish"})'
    BY <1>2 DEF AtWork, Idle
  <2> QED
    BY <1>2, <2>1, <2>2 DEF Stored, Published, EditsIn
<1>6. NoteInv'
  BY <1>0, <1>2, <1>5 DEF NoteInv, Cached
<1>7. DiagsInv'
  BY <1>0, <1>2, <1>5 DEF DiagsInv
<1>8. ExitInv'
  BY <1>0, <1>2 DEF ExitInv, HandleExit
<1> QED
  BY <1>1, <1>3, <1>4, <1>6, <1>7, <1>8 DEF ServerInv

LEMMA TakeInv == ASSUME ServerInv, TakeNote \/ TakeAsk PROVE ServerInv'
<1>0. /\ TypeOK /\ LogInv /\ ViewsInv /\ NoteInv /\ DiagsInv
      /\ PanelInv /\ TasksInv /\ AnswersInv /\ ExitInv
  BY DEF ServerInv
<1>1. TypeOK'
  BY <1>0, TakeType
<1>2. UNCHANGED <<log, views, heap, docs, diags, answers, shutdownReceived, exitCode, stopping, stopped,
                  last, ended, polite, received, panel, attached>>
      /\ note = Idle /\ Pending /\ taken' = taken + 1
  BY DEF TakeNote, TakeAsk, editor, cache, life
<1>3. /\ taken \in 0 .. Len(log) /\ taken' \in DOMAIN log /\ taken + 1 \in DOMAIN log
      /\ DOMAIN log = 1 .. Len(log) /\ Len(log) \in Nat
  BY <1>0, <1>2 DEF TypeOK, Pending
<1>4. log[taken + 1].n = EditsIn(taken) + (IF log[taken + 1].op \in Edits THEN 1 ELSE 0)
  BY <1>0, <1>3 DEF LogInv
<1>5. LogInv' /\ ViewsInv' /\ PanelInv'
  BY <1>0, <1>2, SameEditor
<1>6. Stored = EditsIn(taken) /\ Published = EditsIn(taken)
  BY <1>2 DEF Stored, Published, AtWork, Idle
<1>7. EditsIn(taken)' = log[taken + 1].n /\ EditsIn(taken) \in Nat
  <2>1. EditsIn(taken) \in Nat
    BY <1>0, <1>3, EditsInType
  <2>2. EditsIn(taken)' = log[taken + 1].n
    BY <1>2, <1>3 DEF EditsIn
  <2> QED
    BY <2>1, <2>2
<1>8. /\ TakeNote => note' = [pc |-> "start", msg |-> log[taken + 1], ptr |-> 0]
                     /\ log[taken + 1].op \in Edits \cup {"exit"} /\ tasks' = tasks
      /\ TakeAsk => note' = Idle /\ log[taken + 1].op \in Asks \cup {"shutdown"}
                    /\ tasks' \subseteq tasks \cup {[id |-> taken + 1, pc |-> "start", ptr |-> 0, first |-> 0]}
  BY <1>2 DEF TakeNote, TakeAsk, Next1
<1>9. Stored' = Stored /\ Published' = Published
  <2>1. CASE TakeNote /\ log[taken + 1].op \in Edits
    <3>1. AtWork({"start"})' /\ AtWork({"start", "publish"})'
      BY <1>8, <2>1 DEF AtWork
    <3> QED
      BY <1>4, <1>6, <1>7, <2>1, <3>1 DEF Stored, Published
  <2>2. CASE TakeNote /\ log[taken + 1].op \notin Edits
    <3>1. ~AtWork({"start"})' /\ ~AtWork({"start", "publish"})'
      BY <1>8, <2>2 DEF AtWork
    <3> QED
      BY <1>4, <1>6, <1>7, <2>2, <3>1 DEF Stored, Published
  <2>3. CASE TakeAsk
    <3>1. ~AtWork({"start"})' /\ ~AtWork({"start", "publish"})' /\ log[taken + 1].op \notin Edits
      BY <1>8, <2>3 DEF AtWork, Idle, Edits, Asks
    <3> QED
      BY <1>4, <1>6, <1>7, <3>1 DEF Stored, Published
  <2> QED
    BY <2>1, <2>2, <2>3
<1>10. NoteInv'
  <2>1. \A v \in Uris : Cached(v)' = views'[Stored' + 1][v]
    BY <1>0, <1>2, <1>9 DEF NoteInv, Cached
  <2>2. note' # Idle =>
          /\ taken' > 0 /\ note'.msg = log'[taken'] /\ note'.msg.op \in Edits \cup {"exit"}
          /\ note'.pc = "start" /\ note'.ptr = 0
    BY <1>2, <1>3, <1>8
  <2> QED
    BY <1>0, <1>2, <2>1, <2>2 DEF NoteInv, Idle
<1>11. DiagsInv'
  BY <1>0, <1>2, <1>9 DEF DiagsInv
<1>12. TasksInv'
  <2>1. \A t \in tasks' : t \in tasks \/ (t.id = taken + 1 /\ t.pc = "start" /\ TakeAsk)
    BY <1>8
  <2>2. \A id, open, t : About(id, open, t)' <=> About(id, open, t)
    BY <1>2, SameEditor
  <2>3. ASSUME NEW t \in tasks'
        PROVE  /\ log'[t.id].op \in Asks \cup {"shutdown"}
               /\ t.pc # "start" => /\ log'[t.id].op \in Asks /\ t.ptr \in DOMAIN heap'
                                    /\ About(t.id, TRUE, heap[t.ptr].text)'
               /\ t.pc = "reread" => t.first = heap'[t.ptr].text
    <3>1. CASE t \in tasks
      <4>1. t.pc # "start" => About(t.id, TRUE, heap[t.ptr].text)'
        BY <1>0, <1>2, <3>1, SameTasks DEF TasksInv, About, SentEdits
      <4> QED
        BY <1>0, <1>2, <3>1, <4>1 DEF TasksInv
    <3>2. CASE t.id = taken + 1 /\ t.pc = "start" /\ TakeAsk
      BY <1>2, <1>8, <3>2
    <3> QED
      BY <2>1, <3>1, <3>2
  <2> QED
    BY <2>3 DEF TasksInv
<1>13. AnswersInv'
  BY <1>0, <1>2, SameTasks
<1>14. ExitInv'
  <2>1. ~ended
    BY <1>0, <1>2 DEF ExitInv
  <2>2. note' = Idle => \A i \in 1 .. taken' : log'[i].op = "exit" => i \in 1 .. taken
    <3> SUFFICES ASSUME note' = Idle, NEW i \in 1 .. taken', log'[i].op = "exit" PROVE i \in 1 .. taken
      OBVIOUS
    <3>1. log[taken + 1].op # "exit"
      BY <1>8 DEF Idle, Asks, TakeNote, TakeAsk
    <3> QED
      BY <1>2, <1>3, <3>1
  <2> QED
    BY <1>0, <1>2, <2>1, <2>2 DEF ExitInv
<1> QED
  BY <1>1, <1>5, <1>10, <1>11, <1>12, <1>13, <1>14 DEF ServerInv

\* An edit about to be stored: the cache is the view before it.
LEMMA AtStore ==
  ASSUME ServerInv, NEW op \in Edits, AtNote(op, "start"), UNCHANGED <<log, views, taken>>,
         note' = [note EXCEPT !.pc = "publish", !.ptr = note'.ptr]
  PROVE  /\ note # Idle /\ taken \in DOMAIN log /\ note.msg = log[taken] /\ note.ptr = 0
         /\ note'.pc = "publish" /\ note'.msg = note.msg /\ note' # Idle
         /\ Stored + 1 = log[taken].n /\ Stored' = log[taken].n /\ Published' = Published
         /\ \A v \in Uris : Cached(v) = views[log[taken].n][v]
         /\ views[log[taken].n] \in [Uris -> DocStates(MaxEdits)]
         /\ views[log[taken].n + 1] =
              [views[log[taken].n] EXCEPT ![note.msg.uri] = Effect(note.msg, views[log[taken].n][note.msg.uri])]
<1> DEFINE n == log[taken].n
           Views == [Uris -> DocStates(MaxEdits)]
<1>0. TypeOK /\ LogInv /\ ViewsInv /\ NoteInv
  BY DEF ServerInv
<1>1. note.pc = "start" /\ note.msg.op = op /\ note # Idle
  BY AtNoteIsBusy DEF AtNote
<1>2. AtWork({"start"}) /\ AtWork({"start", "publish"})
  BY <1>1 DEF AtWork
<1>3. /\ taken \in DOMAIN log /\ note.msg = log[taken] /\ log[taken].op \in Edits
      /\ EditsIn(taken) = n /\ EditsIn(taken - 1) = n - 1 /\ n \in 1 .. SentEdits
      /\ Len(views) = SentEdits + 1 /\ SentEdits \in Nat
  BY <1>0, <1>2, Counts
<1>4. note \in [pc : {"start", "publish"}, msg : Message, ptr : Ptrs]
  BY <1>0, <1>1 DEF TypeOK
<1>5. note'.pc = "publish" /\ note'.msg = note.msg /\ note' # Idle
  BY <1>4 DEF Idle
<1>6. ~AtWork({"start"})' /\ AtWork({"start", "publish"})'
  BY <1>1, <1>5 DEF AtWork
<1>7. EditsIn(taken)' = EditsIn(taken)
  BY DEF EditsIn
<1>8. Stored + 1 = n /\ Stored' = n /\ Published' = Published
  BY <1>2, <1>3, <1>6, <1>7 DEF Stored, Published
<1>9. views[n] \in Views
  <2>1. views \in Seq(Views) /\ n \in 1 .. Len(views)
    BY <1>0, <1>3 DEF TypeOK
  <2> HIDE DEF Views, n
  <2> QED
    BY <2>1
<1>10. \A v \in Uris : Cached(v) = views[n][v]
  BY <1>0, <1>8 DEF NoteInv
<1>11. views[n + 1] = [views[n] EXCEPT ![note.msg.uri] = Effect(note.msg, views[n][note.msg.uri])]
  BY <1>0, <1>3 DEF ViewsInv
<1>12. note.ptr = 0
  BY <1>0, <1>1 DEF NoteInv
<1> QED
  BY <1>1, <1>3, <1>5, <1>8, <1>9, <1>10, <1>11, <1>12

LEMMA StoreInv == ASSUME ServerInv, StoreOpen \/ StoreChange PROVE ServerInv'
<1> DEFINE u == note.msg.uri
           top == Len(heap) + 1
           n == log[taken].n
<1>0. /\ TypeOK /\ LogInv /\ ViewsInv /\ NoteInv /\ DiagsInv
      /\ PanelInv /\ TasksInv /\ AnswersInv /\ ExitInv
  BY DEF ServerInv
<1>1. TypeOK'
  BY <1>0, HandleType DEF Handle
<1>2. UNCHANGED <<log, views, taken, tasks, diags, answers, shutdownReceived, exitCode, stopping, stopped,
                  last, ended, polite, received, panel, attached>>
  BY DEF StoreOpen, StoreChange, editor, life
<1>3. PICK d \in DocStates(MaxEdits) : Store(u, d) /\ d = Effect(note.msg, Cached(u)) /\ d.open
  <2>1. note.pc = "start" /\ note.msg.op \in {"didOpen", "didChange"}
    BY DEF StoreOpen, StoreChange, AtNote
  <2>2. note # Idle
    BY <2>1, AtNoteIsBusy
  <2>3. u \in Uris /\ note.msg.text \in 0 .. MaxEdits /\ note.msg.lang \in Langs
    BY <1>0, <2>2, NoteType
  <2>4. Cached(u) \in DocStates(MaxEdits) /\ Cached(u).text \in 0 .. MaxEdits
    BY <1>0, <2>3, CachedType, DocTypes
  <2>5. CASE StoreOpen
    <3>1. Opened(note.msg.text, note.msg.lang) \in DocStates(MaxEdits)
      BY <2>3, DocTypes
    <3> QED
      BY <2>5, <3>1 DEF StoreOpen, AtNote, Effect, Opened
  <2>6. CASE StoreChange
    <3>1. NewText(u) \in 0 .. MaxEdits
      BY <2>3, <2>4 DEF NewText
    <3>2. Changed(Cached(u), NewText(u)) \in DocStates(MaxEdits)
      BY <2>4, <3>1, DocTypes
    <3>3. Changed(Cached(u), NewText(u)).open
      BY DEF Changed
    <3>4. Effect(note.msg, Cached(u)) = Changed(Cached(u), NewText(u))
      BY <2>6 DEF StoreChange, AtNote, Effect, NewText
    <3> QED
      BY <2>6, <3>2, <3>3, <3>4 DEF StoreChange
  <2> QED
    BY <2>5, <2>6
<1>4. PICK op \in Edits : AtNote(op, "start")
  BY DEF StoreOpen, StoreChange, Edits
<1>5. note \in [pc : {"start", "publish"}, msg : Message, ptr : Ptrs] /\ u \in Uris
  BY <1>0, <1>4, AtNoteIsBusy, NoteType DEF AtNote, TypeOK
<1>6. /\ heap \in Seq(DocStates(MaxEdits)) /\ Len(heap) \in Nat /\ DOMAIN heap = 1 .. Len(heap)
      /\ heap' = Append(heap, d) /\ docs' = [docs EXCEPT ![u] = top]
      /\ note' = [note EXCEPT !.pc = "publish", !.ptr = top] /\ note'.ptr = top
  BY <1>0, <1>3, <1>5 DEF TypeOK, Store
<1>7. /\ note # Idle /\ taken \in DOMAIN log /\ note.msg = log[taken]
      /\ note'.pc = "publish" /\ note'.msg = note.msg /\ note' # Idle
      /\ Stored' = n /\ Published' = Published
      /\ \A v \in Uris : Cached(v) = views[n][v]
      /\ views[n] \in [Uris -> DocStates(MaxEdits)]
      /\ views[n + 1] = [views[n] EXCEPT ![u] = Effect(note.msg, views[n][u])]
  <2>1. note' = [note EXCEPT !.pc = "publish", !.ptr = note'.ptr]
    BY <1>6
  <2> QED
    BY <1>2, <1>4, <2>1, AtStore
<1>8. /\ DOMAIN heap' = 1 .. top /\ heap'[top] = d
      /\ \A p \in 1 .. Len(heap) : heap'[p] = heap[p]
  BY <1>6
<1>9. \A v \in Uris : Cached(v)' = views'[Stored' + 1][v]
  <2> SUFFICES ASSUME NEW v \in Uris PROVE Cached(v)' = views[n + 1][v]
    BY <1>2, <1>7
  <2>1. docs[v] \in 0 .. Len(heap) /\ docs \in [Uris -> Ptrs]
    BY <1>0 DEF TypeOK, Ptrs
  <2>2. CASE v = u
    <3>1. Cached(v)' = d
      BY <1>5, <1>6, <1>8, <2>1, <2>2 DEF Cached
    <3> QED
      BY <1>3, <1>5, <1>7, <2>2, <3>1
  <2>3. CASE v # u
    <3>1. docs'[v] = docs[v]
      BY <1>6, <2>1, <2>3
    <3>2. Cached(v)' = Cached(v)
      BY <1>8, <2>1, <3>1 DEF Cached
    <3> QED
      BY <1>7, <2>3, <3>2
  <2> QED
    BY <2>2, <2>3
<1>10. NoteInv'
  <2>1. \A p \in DOMAIN heap' : heap'[p].open
    BY <1>0, <1>3, <1>6, <1>8 DEF NoteInv
  <2>2. docs'[u] = top
    BY <1>0, <1>5, <1>6 DEF TypeOK
  <2>3. taken > 0 /\ note.msg.op \in Edits
    BY <1>0, <1>4, <1>7 DEF NoteInv, AtNote
  <2> QED
    BY <1>2, <1>6, <1>7, <1>9, <2>1, <2>2, <2>3 DEF NoteInv, Idle
<1>11. LogInv' /\ ViewsInv' /\ PanelInv'
  BY <1>0, <1>2, SameEditor
<1>12. DiagsInv'
  BY <1>0, <1>2, <1>7 DEF DiagsInv
<1>13. TasksInv'
  <2>1. ASSUME NEW t \in tasks, t.pc # "start"
        PROVE  t.ptr \in DOMAIN heap' /\ heap'[t.ptr] = heap[t.ptr] /\ About(t.id, TRUE, heap[t.ptr].text)'
    <3>1. t.ptr \in DOMAIN heap /\ About(t.id, TRUE, heap[t.ptr].text)
      BY <1>0, <2>1 DEF TasksInv
    <3>2. t.ptr \in DOMAIN heap' /\ heap'[t.ptr] = heap[t.ptr]
      BY <1>6, <1>8, <3>1
    <3> QED
      BY <1>2, <3>1, <3>2 DEF About, SentEdits
  <2> QED
    BY <1>0, <1>2, <2>1 DEF TasksInv
<1>14. AnswersInv'
  BY <1>0, <1>2, SameTasks
<1>15. ExitInv'
  BY <1>0, <1>2, <1>7 DEF ExitInv, Idle
<1> QED
  BY <1>1, <1>10, <1>11, <1>12, <1>13, <1>14, <1>15 DEF ServerInv

LEMMA StoreCloseInv == ASSUME ServerInv, StoreClose PROVE ServerInv'
<1> DEFINE u == note.msg.uri
           n == log[taken].n
<1>0. /\ TypeOK /\ LogInv /\ ViewsInv /\ NoteInv /\ DiagsInv
      /\ PanelInv /\ TasksInv /\ AnswersInv /\ ExitInv
  BY DEF ServerInv
<1>1. TypeOK'
  BY <1>0, HandleType
<1>2. UNCHANGED <<log, views, taken, heap, tasks, diags, answers, shutdownReceived, exitCode, stopping,
                  stopped, last, ended, polite, received, panel, attached>>
  BY DEF StoreClose, editor, life
<1>3. AtNote("didClose", "start") /\ "didClose" \in Edits
  BY DEF StoreClose, Edits
<1>4. note \in [pc : {"start", "publish"}, msg : Message, ptr : Ptrs] /\ u \in Uris
  BY <1>0, <1>3, AtNoteIsBusy, NoteType DEF AtNote, TypeOK
<1>5. note' = [note EXCEPT !.pc = "publish"] /\ docs' = [docs EXCEPT ![u] = 0]
      /\ docs \in [Uris -> Ptrs]
  BY <1>0 DEF StoreClose, TypeOK
<1>6. note' = [note EXCEPT !.pc = "publish", !.ptr = note'.ptr] /\ note'.ptr = note.ptr
  BY <1>4, <1>5
<1>7. /\ note # Idle /\ taken \in DOMAIN log /\ note.msg = log[taken] /\ note.ptr = 0
      /\ note'.pc = "publish" /\ note'.msg = note.msg /\ note' # Idle
      /\ Stored' = n /\ Published' = Published
      /\ \A v \in Uris : Cached(v) = views[n][v]
      /\ views[n] \in [Uris -> DocStates(MaxEdits)]
      /\ views[n + 1] = [views[n] EXCEPT ![u] = Effect(note.msg, views[n][u])]
  BY <1>2, <1>3, <1>6, AtStore
<1>8. Effect(note.msg, views[n][u]) = Closed
  BY <1>3 DEF AtNote, Effect
<1>9. \A v \in Uris : Cached(v)' = views'[Stored' + 1][v]
  <2> SUFFICES ASSUME NEW v \in Uris PROVE Cached(v)' = views[n + 1][v]
    BY <1>2, <1>7
  <2>1. CASE v = u
    BY <1>4, <1>5, <1>7, <1>8, <2>1 DEF Cached
  <2>2. CASE v # u
    <3>1. Cached(v)' = Cached(v)
      BY <1>2, <1>5, <2>2 DEF Cached
    <3> QED
      BY <1>7, <2>2, <3>1
  <2> QED
    BY <2>1, <2>2
<1>10. NoteInv'
  <2>1. docs'[u] = 0
    BY <1>4, <1>5
  <2>2. taken > 0 /\ note.msg.op \in Edits
    BY <1>0, <1>3, <1>7 DEF NoteInv, AtNote
  <2> QED
    BY <1>0, <1>2, <1>6, <1>7, <1>9, <2>1, <2>2 DEF NoteInv, Idle
<1>11. LogInv' /\ ViewsInv' /\ PanelInv'
  BY <1>0, <1>2, SameEditor
<1>12. DiagsInv'
  BY <1>0, <1>2, <1>7 DEF DiagsInv
<1>13. TasksInv' /\ AnswersInv'
  BY <1>0, <1>2, SameTasks
<1>14. ExitInv'
  BY <1>0, <1>2, <1>7 DEF ExitInv, Idle
<1> QED
  BY <1>1, <1>10, <1>11, <1>12, <1>13, <1>14 DEF ServerInv

LEMMA PublishInv == ASSUME ServerInv, Publish PROVE ServerInv'
<1> DEFINE u == note.msg.uri
           n == log[taken].n
           f == IF note.ptr = 0 THEN Nothing ELSE Diagnose(u, heap[note.ptr])
           Diag == [uri : Uris, findings : Findings]
<1>0. /\ TypeOK /\ LogInv /\ ViewsInv /\ NoteInv /\ DiagsInv
      /\ PanelInv /\ TasksInv /\ AnswersInv /\ ExitInv
  BY DEF ServerInv
<1>1. TypeOK'
  BY <1>0, HandleType
<1>2. UNCHANGED <<log, views, taken, heap, docs, tasks, answers, shutdownReceived, exitCode, stopping,
                  stopped, last, ended, polite, received, panel, attached>>
      /\ note' = Idle /\ note.pc = "publish" /\ note # Idle
      /\ diags' = IF attached /\ ~stopped THEN Append(diags, [uri |-> u, findings |-> f]) ELSE diags
  BY AtNoteIsBusy DEF Publish, editor, cache, life
<1>3. note.msg.op \in Edits /\ note.ptr = docs[u] /\ u \in Uris
  BY <1>0, <1>2, NoteType DEF NoteInv
<1>4. AtWork({"start", "publish"}) /\ ~AtWork({"start"}) /\ ~AtWork({"start"})' /\ ~AtWork({"start", "publish"})'
  BY <1>2, <1>3 DEF AtWork, Idle
<1>5. /\ taken \in DOMAIN log /\ note.msg = log[taken] /\ log[taken].op \in Edits
      /\ EditsIn(taken) = n /\ n \in 1 .. SentEdits /\ SentEdits \in Nat /\ Len(views) = SentEdits + 1
  BY <1>0, <1>4, Counts
<1>6. EditsIn(taken)' = EditsIn(taken)
  BY <1>2 DEF EditsIn
<1>7. Stored = n /\ Stored' = n /\ Published = n - 1 /\ Published' = n
  BY <1>4, <1>5, <1>6 DEF Stored, Published
<1>8. NoteInv'
  BY <1>0, <1>2, <1>7 DEF NoteInv, Cached
<1>9. LogInv' /\ ViewsInv' /\ PanelInv'
  BY <1>0, <1>2, SameEditor
<1>10. TasksInv' /\ AnswersInv'
  BY <1>0, <1>2, SameTasks
<1>11. ExitInv'
  <2>1. \A i \in 1 .. taken : log[i].op # "exit"
    <3> SUFFICES ASSUME NEW i \in 1 .. taken, log[i].op = "exit" PROVE FALSE
      OBVIOUS
    <3>1. taken \in 1 .. Len(log) /\ Len(log) \in Nat
      BY <1>0, <1>5 DEF TypeOK
    <3>2. i \in DOMAIN log /\ i <= taken /\ taken <= Len(log)
      BY <1>0, <3>1 DEF TypeOK
    <3>3. i = Len(log)
      BY <1>0, <3>2 DEF LogInv
    <3>4. i = taken
      BY <3>1, <3>2, <3>3
    <3> QED
      BY <1>5, <3>4 DEF Edits
  <2> QED
    BY <1>0, <1>2, <2>1 DEF ExitInv
<1>12. diags \in Seq(Diag) /\ Len(diags) \in Nat /\ DOMAIN diags = 1 .. Len(diags)
  BY <1>0 DEF TypeOK
<1>13. ASSUME attached /\ ~stopped PROVE DiagsInv'
  <2>1. /\ DOMAIN diags' = 1 .. Len(diags) + 1 /\ Len(diags') = Len(diags) + 1
        /\ \A k \in DOMAIN diags : diags'[k] = diags[k]
        /\ diags'[Len(diags) + 1] = [uri |-> u, findings |-> f]
    <3> DEFINE sent == [uri |-> u, findings |-> f]
    <3>1. diags' = Append(diags, sent)
      BY <1>2, <1>13
    <3> HIDE DEF Diag, sent
    <3>2. /\ DOMAIN diags' = 1 .. Len(diags) + 1 /\ Len(diags') = Len(diags) + 1
          /\ \A k \in DOMAIN diags : diags'[k] = diags[k]
          /\ diags'[Len(diags) + 1] = sent
      BY <1>12, <3>1
    <3> QED
      BY <3>2 DEF sent
  <2>2. Len(diags) <= n - 1 /\ (~EagerClient => Len(diags) = n - 1)
    BY <1>0, <1>7, <1>13 DEF DiagsInv
  <2>3. Len(diags') <= Published' /\ (~EagerClient => Len(diags') = Published')
    BY <1>5, <1>7, <1>12, <2>1, <2>2
  <2>4. f = Diagnose(u, views[n + 1][u])
    <3>1. Cached(u) = views[n + 1][u]
      BY <1>0, <1>3, <1>7 DEF NoteInv
    <3>2. Diagnose(u, Closed) = Nothing
      BY DEF Diagnose, Closed
    <3> QED
      BY <1>3, <3>1, <3>2 DEF Cached
  <2>5. ASSUME NEW v \in Uris, v # u PROVE views[n + 1][v] = views[n][v]
    <3>1. views[n] \in [Uris -> DocStates(MaxEdits)]
      <4> DEFINE Views == [Uris -> DocStates(MaxEdits)]
      <4>1. views \in Seq(Views) /\ n \in 1 .. Len(views)
        BY <1>0, <1>5 DEF TypeOK
      <4> HIDE DEF Views, n
      <4>2. views[n] \in Views
        BY <4>1
      <4> QED
        BY <4>2 DEF Views
    <3>2. views[n + 1] = [views[n] EXCEPT ![u] = Effect(note.msg, views[n][u])]
      BY <1>0, <1>5 DEF ViewsInv
    <3> QED
      BY <2>5, <3>1, <3>2
  <2>6. ASSUME ~EagerClient, NEW k \in DOMAIN diags', NEW v \in Uris
        PROVE  IF v = diags'[k].uri THEN diags'[k].findings = Diagnose(v, views'[k + 1][v])
               ELSE views'[k + 1][v] = views'[k][v]
    <3>1. CASE k \in DOMAIN diags
      BY <1>0, <1>2, <2>1, <2>6, <3>1 DEF DiagsInv
    <3>2. CASE k = n
      BY <1>2, <1>5, <2>1, <2>2, <2>4, <2>5, <2>6, <3>2
    <3>3. k \in DOMAIN diags \/ k = n
      BY <1>5, <1>12, <2>1, <2>2, <2>6
    <3> QED
      BY <3>1, <3>2, <3>3
  <2> QED
    BY <1>2, <1>13, <2>3, <2>6 DEF DiagsInv
<1>14. ASSUME ~(attached /\ ~stopped) PROVE DiagsInv'
  <2>1. diags' = diags
    BY <1>2, <1>14
  <2>2. ~EagerClient => stopped
    <3>1. DOMAIN log = 1 .. Len(log)
      BY <1>0 DEF TypeOK
    <3>2. log # <<>>
      BY <1>5
    <3> QED
      BY <1>0, <1>14, <3>2 DEF LogInv
  <2>3. Len(diags) <= n - 1
    BY <1>0, <1>7 DEF DiagsInv
  <2>4. Len(diags') <= Published'
    BY <1>5, <1>7, <1>12, <2>1, <2>3
  <2>5. UNCHANGED <<views, stopped>>
    BY <1>2
  <2> QED
    BY <1>0, <2>1, <2>2, <2>4, <2>5 DEF DiagsInv
<1>15. DiagsInv'
  BY <1>13, <1>14
<1> QED
  BY <1>1, <1>8, <1>9, <1>10, <1>11, <1>15 DEF ServerInv

\* The cache is at least as new as any request that has been taken.
LEMMA AskBeforeCache ==
  ASSUME TypeOK, LogInv, NoteInv, NEW id \in 1 .. taken, log[id].op \notin Edits
  PROVE  id \in DOMAIN log /\ Stored \in log[id].n .. SentEdits
<1>1. /\ Stored \in 0 .. SentEdits /\ SentEdits \in Nat
      /\ \A k \in 0 .. Len(log) : EditsIn(k) \in 0 .. SentEdits
      /\ AtWork({"start", "publish"}) =>
           /\ log[taken].op \in Edits /\ EditsIn(taken) = log[taken].n /\ EditsIn(taken - 1) = log[taken].n - 1
  BY Counts
<1>2. /\ id \in DOMAIN log /\ taken \in DOMAIN log /\ id <= taken /\ taken \in 1 .. Len(log)
      /\ id \in 1 .. Len(log) /\ Len(log) \in Nat
  BY DEF TypeOK
<1>3. EditsIn(id) = log[id].n /\ EditsIn(id) \in Nat /\ EditsIn(taken) \in Nat
  BY <1>1, <1>2 DEF EditsIn
<1>4. EditsIn(id) <= Stored
  <2>1. CASE id = taken
    <3>1. ~AtWork({"start"})
      BY <1>1, <2>1 DEF AtWork
    <3> QED
      BY <1>3, <2>1, <3>1 DEF Stored
  <2>2. CASE id < taken
    <3>1. EditsIn(id) <= EditsIn(taken - 1)
      BY <1>2, <2>2 DEF LogInv
    <3>2. CASE AtWork({"start"})
      <4>1. AtWork({"start", "publish"})
        BY <3>2 DEF AtWork
      <4> QED
        BY <1>1, <3>1, <3>2, <4>1 DEF Stored
    <3>3. CASE ~AtWork({"start"})
      <4>1. log[taken].n = EditsIn(taken - 1) + (IF log[taken].op \in Edits THEN 1 ELSE 0)
        BY <1>2 DEF LogInv
      <4>2. EditsIn(taken) = log[taken].n /\ EditsIn(taken - 1) \in Nat
        <5>1. taken - 1 \in 0 .. Len(log) /\ taken # 0
          BY <1>2
        <5>2. EditsIn(taken - 1) \in Nat
          BY <1>1, <5>1
        <5>3. EditsIn(taken) = log[taken].n
          BY <5>1 DEF EditsIn
        <5> QED
          BY <5>2, <5>3
      <4> QED
        BY <1>3, <3>1, <3>3, <4>1, <4>2 DEF Stored
    <3> QED
      BY <3>2, <3>3
  <2>3. id = taken \/ id < taken
    BY <1>2
  <2> QED
    BY <2>1, <2>2, <2>3
<1> QED
  BY <1>1, <1>2, <1>3, <1>4

\* What a task reads of the cache is about its document.
LEMMA CacheAbout ==
  ASSUME TypeOK, LogInv, NoteInv, NEW id \in 1 .. taken, log[id].op \notin Edits
  PROVE  About(id, Cached(log[id].uri).open, Cached(log[id].uri).text)
<1>1. id \in DOMAIN log /\ Stored \in log[id].n .. SentEdits
  BY AskBeforeCache
<1>2. log[id] \in Message
  BY <1>1 DEF TypeOK
<1>3. Cached(log[id].uri) = views[Stored + 1][log[id].uri]
  BY <1>2 DEF NoteInv, Message
<1> QED
  BY <1>1, <1>3 DEF About

LEMMA ServeInv == ASSUME ServerInv, NEW t \in tasks, Serve(t) PROVE ServerInv'
<1>0. /\ TypeOK /\ LogInv /\ ViewsInv /\ NoteInv /\ DiagsInv
      /\ PanelInv /\ TasksInv /\ AnswersInv /\ ExitInv
  BY DEF ServerInv
<1>1. TypeOK'
  BY <1>0, ServeType
<1>2. /\ UNCHANGED <<log, views, taken, heap, docs, note, diags, exitCode, stopping, stopped,
                     last, ended, polite, received, panel, attached>>
      /\ shutdownReceived => shutdownReceived'
  <2>1. Snapshot(t) \/ ReadText(t) \/ AnswerAsk(t) => shutdownReceived' = shutdownReceived
    BY DEF Snapshot, ReadText, AnswerAsk, life
  <2>2. HandleShutdown(t) => shutdownReceived'
    BY DEF HandleShutdown
  <2>3. UNCHANGED <<log, views, taken, heap, docs, note, diags, exitCode, stopping, stopped,
                    last, ended, polite, received, panel, attached>>
    BY DEF Serve, Snapshot, ReadText, AnswerAsk, HandleShutdown, editor, cache, life
  <2> QED
    BY <2>1, <2>2, <2>3 DEF Serve
<1>3. LogInv' /\ ViewsInv' /\ PanelInv'
  BY <1>0, <1>2, SameEditor
<1>4. NoteInv' /\ DiagsInv'
  BY <1>0, <1>2, SameNote
<1>5. log' = log /\ views' = views /\ heap' = heap
  BY <1>2
<1>6. /\ t.id \in 1 .. taken /\ t.id \in DOMAIN log /\ log[t.id] \in Message
      /\ log[t.id].op \in Asks \cup {"shutdown"} /\ log[t.id].op \notin Edits
  <2>1. t.id \in 1 .. taken
    BY <1>0 DEF TypeOK
  <2>2. t.id \in DOMAIN log
    BY <1>0, <2>1 DEF TypeOK
  <2>3. log[t.id] \in Message
    BY <1>0, <2>2 DEF TypeOK
  <2>4. log[t.id].op \in Asks \cup {"shutdown"}
    BY <1>0 DEF TasksInv
  <2> QED
    BY <2>1, <2>2, <2>3, <2>4 DEF Asks, Edits
<1>7. About(t.id, Cached(log[t.id].uri).open, Cached(log[t.id].uri).text)
  BY <1>0, <1>6, CacheAbout
<1>8. \A s \in tasks : /\ log[s.id].op \in Asks \cup {"shutdown"}
                       /\ s.pc # "start" => /\ log[s.id].op \in Asks /\ s.ptr \in DOMAIN heap
                                            /\ About(s.id, TRUE, heap[s.ptr].text)'
                       /\ s.pc = "reread" => s.first = heap[s.ptr].text
  BY <1>0, <1>5 DEF TasksInv, About, SentEdits
<1>9. \A a \in answers : /\ a.id \in DOMAIN log
                         /\ log[a.id].op \in Asks => a.first = a.second /\ About(a.id, a.open, a.first)'
  BY <1>0, <1>5 DEF AnswersInv, About, SentEdits
<1>10. CASE Snapshot(t)
  <2> DEFINE p == docs[log[t.id].uri]
             s == [t EXCEPT !.pc = "read", !.ptr = p]
             r == [id |-> t.id, open |-> FALSE, first |-> 0, second |-> 0]
  <2>1. p \in 0 .. Len(heap) /\ log[t.id].op \in Asks /\ Asks = {"ask"} /\ shutdownReceived' = shutdownReceived
    BY <1>0, <1>6, <1>10 DEF TypeOK, Ptrs, Snapshot, MsgOf, Message, Asks, life
  <2>2. CASE p = 0
    <3>1. Cached(log[t.id].uri) = Closed
      BY <2>2 DEF Cached
    <3>2. About(t.id, FALSE, 0)'
      <4>1. Cached(log[t.id].uri).open = FALSE /\ Cached(log[t.id].uri).text = 0
        BY <3>1 DEF Closed
      <4>2. About(t.id, FALSE, 0)
        BY <1>7, <4>1
      <4> QED
        BY <1>5, <4>2 DEF About, SentEdits
    <3>3. tasks' \subseteq tasks /\ answers' \subseteq answers \cup {r}
      BY <1>10, <2>2 DEF Snapshot, Respond, MsgOf
    <3>4. TasksInv'
      BY <1>2, <1>8, <3>3 DEF TasksInv
    <3>5. AnswersInv'
      <4> SUFFICES ASSUME NEW a \in answers'
                   PROVE  /\ a.id \in DOMAIN log
                          /\ log[a.id].op \in Asks => a.first = a.second /\ About(a.id, a.open, a.first)'
        BY <1>2 DEF AnswersInv
      <4>1. CASE a \in answers
        BY <1>9, <4>1
      <4>2. CASE a = r
        BY <1>6, <3>2, <4>2
      <4> QED
        BY <3>3, <4>1, <4>2
    <3>6. (\E a \in answers' : log[a.id].op = "shutdown") => (\E a \in answers : log[a.id].op = "shutdown")
      BY <2>1, <3>3
    <3>7. ExitInv'
      BY <1>0, <1>2, <2>1, <3>6 DEF ExitInv, Pending, Idle
    <3> QED
      BY <1>1, <1>3, <1>4, <3>4, <3>5, <3>7 DEF ServerInv
  <2>3. CASE p # 0
    <3>1. Cached(log[t.id].uri) = heap[p] /\ p \in DOMAIN heap
      BY <1>0, <2>1, <2>3 DEF Cached, TypeOK
    <3>2. heap[p].open = TRUE
      BY <1>0, <1>1, <3>1, DocTypes DEF NoteInv, TypeOK
    <3>3. About(t.id, TRUE, heap[p].text)'
      <4>1. About(t.id, TRUE, heap[p].text)
        BY <1>7, <3>1, <3>2
      <4>2. docs' = docs
        BY <1>2
      <4> QED
        BY <1>5, <4>1, <4>2 DEF About, SentEdits
    <3>4. s.id = t.id /\ s.pc = "read" /\ s.ptr = p
      BY <1>0 DEF TypeOK
    <3>5. tasks' \subseteq tasks \cup {s} /\ answers' = answers
      BY <1>10, <2>3 DEF Snapshot, Replaced, MsgOf
    <3>6. TasksInv'
      <4>1. \A x \in tasks' : x \in tasks \/ x = s
        BY <3>5
      <4> HIDE DEF s
      <4> QED
        BY <1>2, <1>8, <2>1, <3>1, <3>3, <3>4, <4>1 DEF TasksInv
    <3>7. AnswersInv'
      BY <1>0, <1>2, <3>5, SameTasks
    <3>8. ExitInv'
      BY <1>0, <1>2, <2>1, <3>5 DEF ExitInv, Pending, Idle
    <3> QED
      BY <1>1, <1>3, <1>4, <3>6, <3>7, <3>8 DEF ServerInv
  <2> QED
    BY <2>2, <2>3
<1>11. CASE ReadText(t)
  <2> DEFINE s == [t EXCEPT !.pc = "reread", !.first = heap[t.ptr].text]
  <2>1. t.pc = "read" /\ shutdownReceived' = shutdownReceived /\ answers' = answers
        /\ tasks' \subseteq tasks \cup {s}
    BY <1>11 DEF ReadText, Replaced, life
  <2>2. s.id = t.id /\ s.pc = "reread" /\ s.ptr = t.ptr /\ s.first = heap[t.ptr].text
    BY <1>0 DEF TypeOK
  <2>3. TasksInv'
    <3>1. \A x \in tasks' : x \in tasks \/ x = s
      BY <2>1
    <3>2. log[t.id].op \in Asks /\ t.ptr \in DOMAIN heap /\ About(t.id, TRUE, heap[t.ptr].text)'
      BY <1>8, <2>1
    <3> HIDE DEF s
    <3> QED
      BY <1>2, <1>8, <2>2, <3>1, <3>2 DEF TasksInv
  <2>4. AnswersInv'
    BY <1>0, <1>2, <2>1, SameTasks
  <2>5. ExitInv'
    BY <1>0, <1>2, <2>1 DEF ExitInv, Pending, Idle
  <2> QED
    BY <1>1, <1>3, <1>4, <2>3, <2>4, <2>5 DEF ServerInv
<1>12. CASE AnswerAsk(t)
  <2> DEFINE r == [id |-> t.id, open |-> TRUE, first |-> t.first, second |-> heap[t.ptr].text]
  <2>1. t.pc = "reread" /\ shutdownReceived' = shutdownReceived
        /\ tasks' \subseteq tasks /\ answers' \subseteq answers \cup {r}
    BY <1>12 DEF AnswerAsk, Respond, life
  <2>2. /\ log[t.id].op \in Asks /\ t.first = heap[t.ptr].text /\ About(t.id, TRUE, t.first)'
        /\ Asks = {"ask"}
    BY <1>0, <1>5, <2>1 DEF Asks, TasksInv, About, SentEdits
  <2>3. TasksInv'
    BY <1>2, <1>8, <2>1 DEF TasksInv
  <2>4. AnswersInv'
    <3> SUFFICES ASSUME NEW a \in answers'
                 PROVE  /\ a.id \in DOMAIN log
                        /\ log[a.id].op \in Asks => a.first = a.second /\ About(a.id, a.open, a.first)'
      BY <1>2 DEF AnswersInv
    <3>1. CASE a \in answers
      BY <1>9, <3>1
    <3>2. CASE a = r
      BY <1>6, <2>2, <3>2
    <3> QED
      BY <2>1, <3>1, <3>2
  <2>5. (\E a \in answers' : log[a.id].op = "shutdown") => (\E a \in answers : log[a.id].op = "shutdown")
    BY <2>1, <2>2
  <2>6. ExitInv'
    BY <1>0, <1>2, <2>1, <2>5 DEF ExitInv, Pending, Idle
  <2> QED
    BY <1>1, <1>3, <1>4, <2>3, <2>4, <2>6 DEF ServerInv
<1>13. CASE HandleShutdown(t)
  <2> DEFINE r == [id |-> t.id, open |-> FALSE, first |-> 0, second |-> 0]
  <2>1. log[t.id].op = "shutdown" /\ shutdownReceived' = TRUE
        /\ tasks' \subseteq tasks /\ answers' \subseteq answers \cup {r}
    BY <1>13 DEF HandleShutdown, Respond, MsgOf
  <2>2. TasksInv'
    BY <1>2, <1>8, <2>1 DEF TasksInv
  <2>3. AnswersInv'
    <3>1. \A a \in answers' : a \in answers \/ a = r
      BY <2>1
    <3>2. "shutdown" \notin Asks
      BY DEF Asks
    <3> QED
      BY <1>2, <1>6, <1>9, <2>1, <3>1, <3>2 DEF AnswersInv
  <2>4. ExitInv'
    BY <1>0, <1>2, <1>6, <2>1 DEF ExitInv, Pending, Idle
  <2> QED
    BY <1>1, <1>3, <1>4, <2>2, <2>3, <2>4 DEF ServerInv
<1> QED
  BY <1>10, <1>11, <1>12, <1>13 DEF Serve

LEMMA ClientInv == ASSUME ServerInv, Client PROVE ServerInv'
<1>0. TypeOK /\ ExitInv
  BY DEF ServerInv
<1>1. ASSUME NEW u \in Uris, (\E lang \in Langs : SendOpen(u, lang)) \/ SendChange(u) \/ SendClose(u)
      PROVE  ServerInv'
  <2>1. PICK op \in Edits, text \in 0 .. MaxEdits, lang \in Langs, d \in DocStates(MaxEdits) :
          /\ SendEdit(op, u, text, lang, d)
          /\ d = Effect([op |-> op, uri |-> u, text |-> text, lang |-> lang, n |-> SentEdits + 1], View[u])
    BY <1>0, <1>1, EditsAreSent
  <2>2. TypeOK'
    BY <1>0, <2>1, SendEditType
  <2>3. /\ MaySend /\ Sent(op, u, text, lang, SentEdits + 1)
        /\ views' = Append(views, [View EXCEPT ![u] = d])
        /\ UNCHANGED <<received, panel, server>> /\ polite' = polite
    BY <2>1 DEF SendEdit
  <2>4. SentEdits' = SentEdits + 1
    <3> DEFINE Views == [Uris -> DocStates(MaxEdits)]
               w == [View EXCEPT ![u] = d]
    <3>1. views \in Seq(Views) /\ w \in Views /\ views' = Append(views, w)
      BY <1>0, <2>3, ViewType DEF TypeOK
    <3> HIDE DEF Views, w
    <3>2. Len(views') = Len(views) + 1 /\ Len(views) \in Nat
      BY <3>1
    <3> QED
      BY <3>2 DEF SentEdits
  <2>5. polite' => shutdownReceived
    BY <1>0, <2>3 DEF ExitInv
  <2>6. /\ Sent(op, u, text, lang, SentEdits')
        /\ d = Effect([op |-> op, uri |-> u, text |-> text, lang |-> lang, n |-> SentEdits'], View[u])
    BY <2>1, <2>3, <2>4
  <2> QED
    BY <2>2, <2>3, <2>5, <2>6, SendInv
<1>2. ASSUME (\E u \in Uris : SendAsk(u)) \/ SendShutdown \/ SendExit PROVE ServerInv'
  <2>1. PICK op \in Asks \cup {"shutdown", "exit"}, u \in Uris :
          /\ MaySend
          /\ Sent(op, u, NoChange, NoLang, SentEdits)
          /\ polite' = IF op = "exit" THEN \E a \in answers : log[a.id].op = "shutdown" ELSE polite
          /\ UNCHANGED <<views, received, panel, server>>
    BY <1>0, <1>2, OthersAreSent
  <2>2. SentEdits' = SentEdits
    BY <2>1 DEF SentEdits
  <2>3. polite' \in BOOLEAN
    BY <1>0, <2>1 DEF TypeOK
  <2>4. polite' => shutdownReceived
    BY <1>0, <2>1 DEF ExitInv
  <2>5. TypeOK'
    BY <1>0, <2>1, <2>3, SendOtherType
  <2>6. op \notin Edits /\ NoChange \in 0 .. MaxEdits /\ NoLang \in Langs /\ Closed \in DocStates(MaxEdits)
    BY DocTypes DEF Edits, Asks, NoChange
  <2>7. Sent(op, u, NoChange, NoLang, SentEdits')
    BY <2>1, <2>2
  <2>8. views' = views /\ UNCHANGED <<received, panel, server>>
    BY <2>1
  <2> QED
    BY <2>1, <2>4, <2>5, <2>6, <2>7, <2>8, SendInv
<1> QED
  BY <1>1, <1>2 DEF Client

LEMMA StutterInv == ASSUME ServerInv, UNCHANGED vars PROVE ServerInv'
<1>0. /\ TypeOK /\ LogInv /\ ViewsInv /\ NoteInv /\ DiagsInv
      /\ PanelInv /\ TasksInv /\ AnswersInv /\ ExitInv
  BY DEF ServerInv
<1>1. UNCHANGED <<views, received, panel, polite, log, taken, heap, docs, note, tasks, diags, answers,
                  attached, shutdownReceived, exitCode, stopping, stopped, last, ended>>
  BY DEF vars, editor, server, cache, life
<1>2. TypeOK'
  BY <1>0, <1>1 DEF TypeOK, Ptrs, Idle
<1>3. LogInv' /\ ViewsInv' /\ PanelInv'
  BY <1>0, <1>1, SameEditor
<1>4. NoteInv' /\ DiagsInv'
  BY <1>0, <1>1, SameNote
<1>5. TasksInv' /\ AnswersInv'
  BY <1>0, <1>1, SameTasks
<1>6. ExitInv'
  BY <1>0, <1>1 DEF ExitInv, Pending, Idle
<1> QED
  BY <1>2, <1>3, <1>4, <1>5, <1>6 DEF ServerInv

LEMMA NextInv == ServerInv /\ [Next]_vars => ServerInv'
<1> SUFFICES ASSUME ServerInv, [Next]_vars PROVE ServerInv'
  OBVIOUS
<1>1. CASE Client
  BY <1>1, ClientInv
<1>2. CASE Receive
  BY <1>2, ReceiveInv
<1>3. CASE Attach \/ Interrupt \/ Stop \/ Return
  BY <1>3, LifeInv
<1>4. CASE Take
  BY <1>4, TakeInv DEF Take
<1>5. CASE Handle
  BY <1>5, StoreInv, StoreCloseInv, PublishInv, HandleExitInv DEF Handle
<1>6. CASE \E t \in tasks : Serve(t)
  BY <1>6, ServeInv
<1>7. CASE UNCHANGED vars
  BY <1>7, StutterInv
<1> QED
  BY <1>1, <1>2, <1>3, <1>4, <1>5, <1>6, <1>7 DEF Next

(***************************************************************************)
(* The inductive invariant holds in every session, eager editors included. *)
(***************************************************************************)
THEOREM ServerInvariant == Spec => []ServerInv
<1>1. Init => ServerInv
  BY InitInv
<1>2. ServerInv /\ [Next]_vars => ServerInv'
  BY NextInv
<1> QED
  BY <1>1, <1>2, PTL DEF Spec

\* The state of the server and the editor has its type.
THEOREM TypeCorrect == Spec => []TypeOK
<1>1. ServerInv => TypeOK
  BY DEF ServerInv
<1> QED
  BY <1>1, ServerInvariant, PTL

(***************************************************************************)
(* A handler that reads a document after releasing s.mu answers from one   *)
(* state of it, none older than the request (hover.go, tokens.go).         *)
(***************************************************************************)
THEOREM AnswersCorrect == Spec => []AnswersAreSnapshots
<1>1. ServerInv => AnswersAreSnapshots
  BY DEF ServerInv, AnswersInv, About, AnswersAreSnapshots
<1> QED
  BY <1>1, ServerInvariant, PTL

(***************************************************************************)
(* The exit code tells a polite end from a rude one (server.go exit).      *)
(***************************************************************************)
THEOREM ExitCodeCorrect == Spec => []ExitCodeTells
<1>1. ServerInv => ExitCodeTells
  BY DEF ServerInv, ExitInv, ExitCodeTells
<1> QED
  BY <1>1, ServerInvariant, PTL

(* ---------------------------------------------------------------------- *)
(* The refinement.                                                         *)

\* LspSession says the same of documents.
LEMMA SameViewsOfDocs ==
  /\ Session!Closed = Closed /\ Session!Nothing = Nothing
  /\ \A max : Session!DocStates(max) = DocStates(max)
  /\ \A u, d : Session!Diagnose(u, d) = Diagnose(u, d)
<1>1. Session!Closed = Closed /\ Session!Nothing = Nothing
  BY DEF Session!Closed, Closed, Session!Nothing, Nothing
<1>2. \A max : Session!DocStates(max) = DocStates(max)
  BY <1>1 DEF Session!DocStates, DocStates
<1>3. \A u, d : Session!Diagnose(u, d) = Diagnose(u, d)
  BY <1>1 DEF Session!Diagnose, Diagnose, Session!LooksLikeIPMT, LooksLikeIPMT,
              Session!LooksLikeMarkdown, LooksLikeMarkdown
<1> QED
  BY <1>1, <1>2, <1>3

LEMMA SessionInit == Init => Session!Init
BY SameViewsOfDocs DEF Init, Session!Init

\* What the editor does to the session, and the server to what it displays.
LEMMA SessionStep ==
  ASSUME EagerClient = FALSE, ServerInv, ServerInv', [Next]_vars
  PROVE  [Session!Next]_(Session!vars)
<1>0. /\ TypeOK /\ LogInv /\ NoteInv /\ DiagsInv /\ PanelInv'
  BY DEF ServerInv
<1>1. ASSUME NEW u \in Uris, (\E lang \in Langs : SendOpen(u, lang)) \/ SendChange(u) \/ SendClose(u)
      PROVE  Session!Edit
  <2>1. PICK op \in Edits, text \in 0 .. MaxEdits, lang \in Langs, d \in DocStates(MaxEdits) :
          SendEdit(op, u, text, lang, d)
    BY <1>0, <1>1, EditsAreSent
  <2>2. /\ SentEdits < MaxEdits /\ UNCHANGED <<received, panel, stopped>>
        /\ views' = Append(views, [View EXCEPT ![u] = d])
    BY <2>1 DEF SendEdit, server, life
  <2>3. Session!SentEdits = SentEdits /\ Session!View = View /\ d \in Session!DocStates(MaxEdits)
    BY SameViewsOfDocs DEF SentEdits, View, Session!SentEdits, Session!View
  <2>4. \E v \in Uris, e \in Session!DocStates(MaxEdits) :
           views' = Append(views, [Session!View EXCEPT ![v] = e])
    BY <2>2, <2>3
  <2> QED
    BY <2>2, <2>3, <2>4 DEF Session!Edit
<1>2. CASE (\E u \in Uris : SendAsk(u)) \/ SendShutdown \/ SendExit
  <2>1. UNCHANGED <<views, received, panel, stopped>>
    BY <1>2 DEF SendAsk, SendShutdown, SendExit, server, life
  <2> QED
    BY <2>1 DEF Session!vars
<1>3. CASE Receive
  <2>1. received < SentEdits /\ received' = received + 1 /\ UNCHANGED <<views, stopped>>
    <3>1. Len(diags) <= Published /\ Published \in 0 .. SentEdits /\ SentEdits \in Nat
          /\ received \in Nat /\ Len(diags) \in Nat /\ received < Len(diags)
      BY <1>0, <1>3, Counts DEF DiagsInv, TypeOK, Receive
    <3>2. received < SentEdits
      BY <3>1
    <3> QED
      BY <1>3, <3>2 DEF Receive, server, life
  <2>2. panel' = [v \in Uris |-> Diagnose(v, views[received' + 1][v])]
    BY <1>0, <2>1 DEF PanelInv
  <2>3. Session!Show
    BY <2>1, <2>2, SameViewsOfDocs DEF Session!Show, SentEdits, Session!SentEdits
  <2> QED
    BY <2>3 DEF Session!Next
<1>4. CASE Stop
  <2>1. Session!End
    BY <1>4 DEF Stop, editor, Session!End
  <2> QED
    BY <2>1 DEF Session!Next
<1>5. CASE Attach \/ Take \/ Interrupt \/ Return \/ Handle
  BY <1>5 DEF Attach, Take, TakeNote, TakeAsk, Interrupt, Return, Handle, StoreOpen, StoreChange, StoreClose,
              Publish, HandleExit, editor, life, Session!vars
<1>6. CASE \E t \in tasks : Serve(t)
  <2>1. UNCHANGED <<views, received, panel, stopped>>
    BY <1>6 DEF Serve, Snapshot, ReadText, AnswerAsk, HandleShutdown, editor, life
  <2> QED
    BY <2>1 DEF Session!vars
<1>7. CASE UNCHANGED vars
  BY <1>7 DEF vars, editor, server, life, Session!vars
<1>8. Session!Edit => Session!Next
  BY DEF Session!Next
<1> QED
  BY <1>1, <1>2, <1>3, <1>4, <1>5, <1>6, <1>7, <1>8 DEF Next, Client

(***************************************************************************)
(* For an editor that starts after attachJRPC, ipm-rpc implements the      *)
(* safety of LspSession: what is on display is always what one more edit   *)
(* of the editor's own made of it.                                         *)
(***************************************************************************)
THEOREM SessionSafety ==
  ASSUME EagerClient = FALSE
  PROVE  Spec => Session!Init /\ [][Session!Next]_(Session!vars)
<1>1. Init => Session!Init
  BY SessionInit
<1>2. ServerInv /\ ServerInv' /\ [Next]_vars => [Session!Next]_(Session!vars)
  BY SessionStep
<1> QED
  BY <1>1, <1>2, ServerInvariant, PTL DEF Spec
=============================================================================
