----------------------------- MODULE RpcServer -----------------------------
(***************************************************************************)
(* The LSP server ipm-rpc (cmd/ipm-rpc/server.go, embed_buffer.go,         *)
(* hover.go, tokens.go, main.go) with an editor at the other end.          *)
(*                                                                         *)
(* jrpc2 is external and modelled from how the code relies on it: messages *)
(* are taken in order; a message starts once every notification before it  *)
(* has been handled, requests run beside everything that follows; Stop     *)
(* drops the requests not yet started, and what is sent after it is lost.  *)
(***************************************************************************)
EXTENDS DocViews, FiniteSets

CONSTANTS
  MaxEdits,      \* bound on the edits of the editor
  MaxAsks,       \* and on its requests
  EagerClient    \* TRUE: the editor may send before attachJRPC has run

ASSUME ServerAssumption == MaxEdits \in Nat /\ MaxAsks \in Nat /\ EagerClient \in BOOLEAN

Edits == {"didOpen", "didChange", "didClose"}
Asks == {"ask"}     \* hover, semanticTokens/full or ipm.embedBuffer: all read the cache alike
NoChange == 0                        \* a didChange whose ContentChanges are empty

VARIABLES
  views,       \* views[k]: every document, as the editor means it, after the first k - 1 edits
  received,    \* how many lists of findings the editor has received
  panel,       \* uri -> the findings it displays
  polite,      \* history: it sent exit after the answer to its shutdown
  log,         \* every message the editor has sent; n counts the edits up to and with it
  taken,       \* how many of them jrpc2 has taken from the queue
  heap,        \* the document values ever built, by pointer
  docs,        \* uri -> the pointer the cache holds, 0 when it holds none
  note,        \* the notification handler at work, Idle between two of them
  tasks,       \* the request handlers at work
  diags,       \* the publishDiagnostics notifications sent, in order
  answers,     \* the responses that reached the editor
  attached,    \* s.jrpc # nil
  shutdownReceived, exitCode,
  stopping,    \* someone is to call Stop: the exit handler's goroutine, a signal, end of input
  stopped,     \* Stop has been called
  last,        \* the last message jrpc2 had read by then
  ended        \* main has returned

editor == <<views, received, panel, polite, log>>
life == <<attached, shutdownReceived, exitCode, stopping, stopped, last, ended>>
cache == <<heap, docs>>
server == <<taken, cache, note, tasks, diags, answers, life>>
vars == <<editor, server>>

Idle == [pc |-> "idle"]
Ptrs == 0 .. Len(heap)
Cached(u) == IF docs[u] = 0 THEN Closed ELSE heap[docs[u]]

View == views[Len(views)]
SentEdits == Len(views) - 1

Init ==
  /\ views = <<[u \in Uris |-> Closed]>>
  /\ received = 0 /\ panel = [u \in Uris |-> Nothing]
  /\ polite = FALSE
  /\ log = <<>> /\ taken = 0
  /\ heap = <<>> /\ docs = [u \in Uris |-> 0]
  /\ note = Idle /\ tasks = {}
  /\ diags = <<>> /\ answers = {}
  /\ attached = FALSE
  /\ shutdownReceived = FALSE /\ exitCode = 0
  /\ stopping = FALSE /\ stopped = FALSE /\ last = 0 /\ ended = FALSE

-----------------------------------------------------------------------------
(* The editor. *)

MaySend == (attached \/ EagerClient) /\ ~\E i \in DOMAIN log : log[i].op = "exit"
Sent(op, u, text, lang, n) ==
  log' = Append(log, [op |-> op, uri |-> u, text |-> text, lang |-> lang, n |-> n])

SendEdit(op, u, text, lang, d) ==
  /\ MaySend
  /\ SentEdits < MaxEdits
  /\ Sent(op, u, text, lang, SentEdits + 1)
  /\ views' = Append(views, [View EXCEPT ![u] = d])
  /\ UNCHANGED <<received, panel, polite, server>>

\* Every edit brings a text of its own; a change may also come without one.
SendOpen(u, lang) ==
  LET text == SentEdits + 1 IN SendEdit("didOpen", u, text, lang, Opened(text, lang))
SendChange(u) ==
  \/ LET text == SentEdits + 1
     IN  SendEdit("didChange", u, text, NoLang, Changed(View[u], text))
  \/ SendEdit("didChange", u, NoChange, NoLang, Changed(View[u], View[u].text))
SendClose(u) == View[u].open /\ SendEdit("didClose", u, NoChange, NoLang, Closed)

\* A request about a document; n is what the answer has to take into account.
SendAsk(u) ==
  /\ MaySend
  /\ Cardinality({i \in DOMAIN log : log[i].op \in Asks}) < MaxAsks
  /\ Sent("ask", u, NoChange, NoLang, SentEdits)
  /\ UNCHANGED <<views, received, panel, polite, server>>

\* The editor ends the session; whether it waits for the answer to shutdown is its own affair.
SendShutdown ==
  /\ MaySend
  /\ \A i \in DOMAIN log : log[i].op # "shutdown"
  /\ Sent("shutdown", CHOOSE u \in Uris : TRUE, NoChange, NoLang, SentEdits)
  /\ UNCHANGED <<views, received, panel, polite, server>>
SendExit ==
  /\ MaySend
  /\ Sent("exit", CHOOSE u \in Uris : TRUE, NoChange, NoLang, SentEdits)
  /\ polite' = \E a \in answers : log[a.id].op = "shutdown"
  /\ UNCHANGED <<views, received, panel, server>>

\* The editor displays the next list of findings it receives.
Receive ==
  /\ received < Len(diags)
  /\ received' = received + 1
  /\ panel' = [panel EXCEPT ![diags[received'].uri] = diags[received'].findings]
  /\ UNCHANGED <<views, polite, log, server>>

-----------------------------------------------------------------------------
(* jrpc2 and main. *)

\* attachJRPC, after Start has begun to take messages.
Attach ==
  /\ ~attached
  /\ attached' = TRUE
  /\ UNCHANGED <<editor, taken, cache, note, tasks, diags, answers, shutdownReceived, exitCode,
                 stopping, stopped, last, ended>>

Next1 == log[taken + 1]
Pending == taken < IF stopped THEN last ELSE Len(log)

\* A notification starts; nothing else is taken before it ends.
TakeNote ==
  /\ note = Idle
  /\ Pending
  /\ Next1.op \in Edits \cup {"exit"}
  /\ taken' = taken + 1
  /\ note' = [pc |-> "start", msg |-> Next1, ptr |-> 0]
  /\ UNCHANGED <<editor, cache, tasks, diags, answers, life>>

\* A request starts on a goroutine of its own, or is dropped after Stop.
TakeAsk ==
  /\ note = Idle
  /\ Pending
  /\ Next1.op \in Asks \cup {"shutdown"}
  /\ taken' = taken + 1
  /\ tasks' = IF ~stopped THEN tasks \cup {[id |-> taken + 1, pc |-> "start", ptr |-> 0, first |-> 0]}
              ELSE tasks
  /\ UNCHANGED <<editor, cache, note, diags, answers, life>>

\* A signal, or the end of the input.
Interrupt ==
  /\ ~stopping
  /\ stopping' = TRUE
  /\ UNCHANGED <<editor, taken, cache, note, tasks, diags, answers, attached, shutdownReceived,
                 exitCode, stopped, last, ended>>

\* jrpc.Stop.
Stop ==
  /\ stopping
  /\ ~stopped
  /\ stopped' = TRUE
  /\ last' \in taken .. Len(log)
  /\ UNCHANGED <<editor, taken, cache, note, tasks, diags, answers, attached, shutdownReceived,
                 exitCode, stopping, ended>>

\* Wait returns once nothing is queued or running, and main exits with exitStatus.
Return ==
  /\ stopped
  /\ ~ended
  /\ attached
  /\ ~Pending /\ note = Idle /\ tasks = {}
  /\ ended' = TRUE
  /\ UNCHANGED <<editor, taken, cache, note, tasks, diags, answers, attached, shutdownReceived,
                 exitCode, stopping, stopped, last>>

-----------------------------------------------------------------------------
(* The notification handlers. *)

AtNote(op, pc) == note.pc = pc /\ note.msg.op = op

\* The cache under s.mu: a fresh value, and the pointer to it.
Store(u, d) ==
  /\ heap' = Append(heap, d)
  /\ docs' = [docs EXCEPT ![u] = Len(heap) + 1]
  /\ note' = [note EXCEPT !.pc = "publish", !.ptr = Len(heap) + 1]

StoreOpen ==
  /\ AtNote("didOpen", "start")
  /\ Store(note.msg.uri, Opened(note.msg.text, note.msg.lang))
  /\ UNCHANGED <<editor, taken, tasks, diags, answers, life>>

\* The text of a change: the last one it carries, or the one the document has.
NewText(u) == IF note.msg.text = NoChange THEN Cached(u).text ELSE note.msg.text

\* Mutant of StoreChange: the previous document is written to instead of copied.
StoreChangeInPlace ==
  /\ AtNote("didChange", "start")
  /\ LET u == note.msg.uri
     IN  IF docs[u] = 0 THEN Store(u, Changed(Closed, NewText(u)))
         ELSE /\ heap' = [heap EXCEPT ![docs[u]] = Changed(Cached(u), NewText(u))]
              /\ note' = [note EXCEPT !.pc = "publish", !.ptr = docs[u]]
              /\ UNCHANGED docs
  /\ UNCHANGED <<editor, taken, tasks, diags, answers, life>>

\* Mutant of StoreChange: nothing is carried forward from the previous document.
StoreChangeAnew ==
  /\ AtNote("didChange", "start")
  /\ LET u == note.msg.uri IN Store(u, Changed(Closed, NewText(u)))
  /\ UNCHANGED <<editor, taken, tasks, diags, answers, life>>

\* didChange: a copy of the previous document with the new text, also if there was none.
StoreChange ==
  /\ AtNote("didChange", "start")
  /\ LET u == note.msg.uri IN Store(u, Changed(Cached(u), NewText(u)))
  /\ UNCHANGED <<editor, taken, tasks, diags, answers, life>>

StoreClose ==
  /\ AtNote("didClose", "start")
  /\ docs' = [docs EXCEPT ![note.msg.uri] = 0]
  /\ note' = [note EXCEPT !.pc = "publish"]
  /\ UNCHANGED <<editor, taken, heap, tasks, diags, answers, life>>

\* notify: silent before attachJRPC, lost after Stop.
Publish ==
  /\ note.pc = "publish"
  /\ LET u == note.msg.uri
         findings == IF note.ptr = 0 THEN Nothing ELSE Diagnose(u, heap[note.ptr])
     IN  diags' = IF attached /\ ~stopped THEN Append(diags, [uri |-> u, findings |-> findings]) ELSE diags
  /\ note' = Idle
  /\ UNCHANGED <<editor, taken, cache, tasks, answers, life>>

\* Mutant of HandleExit: nobody stops the server.
HandleExitOnly ==
  /\ AtNote("exit", "start")
  /\ exitCode' = IF shutdownReceived THEN 0 ELSE 1
  /\ note' = Idle
  /\ UNCHANGED <<editor, taken, cache, tasks, diags, answers, attached, shutdownReceived, stopping,
                 stopped, last, ended>>

\* exit: the code is chosen, and a goroutine is to stop the server if it is attached.
HandleExit ==
  /\ AtNote("exit", "start")
  /\ exitCode' = IF shutdownReceived THEN 0 ELSE 1
  /\ stopping' = (stopping \/ attached)
  /\ note' = Idle
  /\ UNCHANGED <<editor, taken, cache, tasks, diags, answers, attached, shutdownReceived, stopped,
                 last, ended>>

-----------------------------------------------------------------------------
(* The request handlers. *)

MsgOf(t) == log[t.id]
Replaced(t, s) == tasks' = (tasks \ {t}) \cup {s}

\* The response of a task: what its reads of the document saw; lost after Stop.
Respond(t, open, first, second) ==
  /\ tasks' = tasks \ {t}
  /\ answers' = IF ~stopped THEN answers \cup {[id |-> t.id, open |-> open, first |-> first, second |-> second]}
                ELSE answers

\* The pointer under s.mu; a document that is not open is answered at once.
Snapshot(t) ==
  /\ t.pc = "start"
  /\ MsgOf(t).op \in Asks
  /\ LET p == docs[MsgOf(t).uri]
     IN  IF p = 0 THEN Respond(t, FALSE, 0, 0)
         ELSE Replaced(t, [t EXCEPT !.pc = "read", !.ptr = p]) /\ UNCHANGED answers
  /\ UNCHANGED <<editor, taken, cache, note, diags, life>>

\* The fields are read after the unlock: hover and the tokens read doc.text more than once.
ReadText(t) ==
  /\ t.pc = "read"
  /\ Replaced(t, [t EXCEPT !.pc = "reread", !.first = heap[t.ptr].text])
  /\ UNCHANGED <<editor, taken, cache, note, diags, answers, life>>

AnswerAsk(t) ==
  /\ t.pc = "reread"
  /\ Respond(t, TRUE, t.first, heap[t.ptr].text)
  /\ UNCHANGED <<editor, taken, cache, note, diags, life>>

HandleShutdown(t) ==
  /\ MsgOf(t).op = "shutdown"
  /\ shutdownReceived' = TRUE
  /\ Respond(t, FALSE, 0, 0)
  /\ UNCHANGED <<editor, taken, cache, note, diags, attached, exitCode, stopping, stopped, last,
                 ended>>

-----------------------------------------------------------------------------

Client ==
  \/ \E u \in Uris : (\E lang \in Langs : SendOpen(u, lang)) \/ SendChange(u) \/ SendClose(u)
  \/ \E u \in Uris : SendAsk(u)
  \/ SendShutdown
  \/ SendExit
Handle == StoreOpen \/ StoreChange \/ StoreClose \/ Publish \/ HandleExit
Serve(t) == Snapshot(t) \/ ReadText(t) \/ AnswerAsk(t) \/ HandleShutdown(t)
Take == TakeNote \/ TakeAsk

Next ==
  \/ Client
  \/ Receive
  \/ Attach
  \/ Take
  \/ Interrupt
  \/ Stop
  \/ Return
  \/ Handle
  \/ \E t \in tasks : Serve(t)

(***************************************************************************)
(* Goroutines get to run, and the editor reads what it is sent.            *)
(***************************************************************************)
Fairness ==
  /\ WF_vars(Attach) /\ WF_vars(Take) /\ WF_vars(Handle) /\ WF_vars(Receive)
  /\ WF_vars(\E t \in tasks : Serve(t))
  /\ WF_vars(Stop) /\ WF_vars(Return)
Spec == Init /\ [][Next]_vars /\ Fairness

-----------------------------------------------------------------------------

Findings == [text : 0 .. MaxEdits, as : {"nothing", "ipmt", "markdown"}]
Message == [op : Edits \cup Asks \cup {"shutdown", "exit"}, uri : Uris, text : 0 .. MaxEdits,
            lang : Langs, n : 0 .. MaxEdits]

TypeOK ==
  /\ views \in Seq([Uris -> DocStates(MaxEdits)]) /\ Len(views) \in 1 .. MaxEdits + 1
  /\ received \in 0 .. Len(diags)
  /\ panel \in [Uris -> Findings]
  /\ log \in Seq(Message)
  /\ {taken, last} \subseteq 0 .. Len(log)
  /\ heap \in Seq(DocStates(MaxEdits)) /\ docs \in [Uris -> Ptrs]
  /\ note \in {Idle} \cup [pc : {"start", "publish"}, msg : Message, ptr : Ptrs]
  /\ tasks \subseteq [id : 1 .. taken, pc : {"start", "read", "reread"}, ptr : Ptrs, first : 0 .. MaxEdits]
  /\ diags \in Seq([uri : Uris, findings : Findings])
  /\ {attached, shutdownReceived, stopping, stopped, ended, polite} \subseteq BOOLEAN
  /\ exitCode \in {0, 1}

\* The server as the editor sees it.
Session == INSTANCE LspSession WITH shown <- received, up <- ~stopped

(***************************************************************************)
(* The findings an editor displays are those of its own states, edit after *)
(* edit, and in time of the last one: a handler that publishes after it    *)
(* has released the cache neither overtakes another nor uses its text.     *)
(***************************************************************************)
SessionSpec == Session!Spec

(***************************************************************************)
(* An answer is about one state of the document, although the handler      *)
(* reads the document after it has released the cache, and about one no    *)
(* older than what the editor had sent before it asked.                    *)
(***************************************************************************)
AnswersAreSnapshots ==
  \A a \in answers : log[a.id].op \in Asks =>
     /\ a.first = a.second
     /\ \E k \in log[a.id].n .. SentEdits :
          LET d == views[k + 1][log[a.id].uri] IN d.open = a.open /\ d.text = a.first

(***************************************************************************)
(* The exit code tells a polite end from a rude one (LSP, server.go:46-48):*)
(* 0 for an editor that waited for the answer to shutdown, 1 for one that  *)
(* never sent it; requests still running do not change that.               *)
(***************************************************************************)
ExitCodeTells ==
  (ended /\ \E i \in 1 .. taken : log[i].op = "exit") =>
     /\ polite => exitCode = 0
     /\ (\A i \in DOMAIN log : log[i].op # "shutdown") => exitCode = 1

\* A server that is sent exit ends, whatever is queued or being answered.
ExitEnds == (\E i \in DOMAIN log : log[i].op = "exit") ~> ended

-----------------------------------------------------------------------------
(* Why it holds: the inductive invariant, by its parts. *)

\* How many edits the first k messages are, and the edits the cache and the findings reflect.
EditsIn(k) == IF k = 0 THEN 0 ELSE log[k].n
AtWork(pcs) == note.pc \in pcs /\ note.msg.op \in Edits
Stored == IF AtWork({"start"}) THEN EditsIn(taken) - 1 ELSE EditsIn(taken)
Published == IF AtWork({"start", "publish"}) THEN EditsIn(taken) - 1 ELSE EditsIn(taken)

\* What an edit makes of its document.
Effect(m, d) ==
  CASE m.op = "didOpen" -> Opened(m.text, m.lang)
    [] m.op = "didChange" -> Changed(d, IF m.text = NoChange THEN d.text ELSE m.text)
    [] OTHER -> Closed

\* The messages count the edits one by one, and nothing follows exit.
LogInv ==
  /\ \A i \in DOMAIN log : log[i].n = EditsIn(i - 1) + (IF log[i].op \in Edits THEN 1 ELSE 0)
  /\ \A i, j \in DOMAIN log : i < j => EditsIn(i) <= EditsIn(j - 1)
  /\ EditsIn(Len(log)) = SentEdits
  /\ \A i \in DOMAIN log : log[i].op = "exit" => i = Len(log)
  /\ log # <<>> => attached \/ EagerClient

\* Each edit makes the next view of the one before.
ViewsInv ==
  /\ views[1] = [u \in Uris |-> Closed]
  /\ \A i \in DOMAIN log : log[i].op \in Edits =>
       views[log[i].n + 1] =
         [views[log[i].n] EXCEPT ![log[i].uri] = Effect(log[i], views[log[i].n][log[i].uri])]

\* The handler at work has the message taken last; the cache is the view it has reached.
NoteInv ==
  /\ note # Idle =>
       /\ taken > 0 /\ note.msg = log[taken]
       /\ note.msg.op \in Edits \cup {"exit"}
       /\ note.pc = "start" => note.ptr = 0
       /\ note.pc = "publish" => note.msg.op \in Edits /\ note.ptr = docs[note.msg.uri]
  /\ \A p \in DOMAIN heap : heap[p].open
  /\ \A u \in Uris : Cached(u) = views[Stored + 1][u]

\* Findings are sent for one edit after the other, each about the state it made.
DiagsInv ==
  /\ Len(diags) <= Published
  /\ ~stopped /\ ~EagerClient => Len(diags) = Published
  /\ ~EagerClient => \A k \in DOMAIN diags : \A v \in Uris :
       IF v = diags[k].uri THEN diags[k].findings = Diagnose(v, views[k + 1][v])
       ELSE views[k + 1][v] = views[k][v]

PanelInv == ~EagerClient => panel = [u \in Uris |-> Diagnose(u, views[received + 1][u])]

\* A request works on a value that its document had after the editor asked.
About(id, open, text) ==
  \E k \in log[id].n .. SentEdits :
    LET d == views[k + 1][log[id].uri] IN d.open = open /\ d.text = text
TasksInv ==
  \A t \in tasks :
    /\ log[t.id].op \in Asks \cup {"shutdown"}
    /\ t.pc # "start" => /\ log[t.id].op \in Asks /\ t.ptr \in DOMAIN heap
                         /\ About(t.id, TRUE, heap[t.ptr].text)
    /\ t.pc = "reread" => t.first = heap[t.ptr].text
AnswersInv ==
  \A a \in answers :
    /\ a.id \in DOMAIN log
    /\ log[a.id].op \in Asks => a.first = a.second /\ About(a.id, a.open, a.first)

\* shutdown has been answered or handled only if it was sent; exit has its code once handled.
ExitInv ==
  /\ shutdownReceived => \E i \in DOMAIN log : log[i].op = "shutdown"
  /\ (\E a \in answers : log[a.id].op = "shutdown") \/ polite => shutdownReceived
  /\ ended => note = Idle /\ stopped /\ ~Pending
  /\ ((\E i \in 1 .. taken : log[i].op = "exit") /\ note = Idle) =>
       /\ polite => exitCode = 0
       /\ (\A i \in DOMAIN log : log[i].op # "shutdown") => exitCode = 1

ServerInv ==
  /\ TypeOK /\ LogInv /\ ViewsInv /\ NoteInv /\ DiagsInv
  /\ PanelInv /\ TasksInv /\ AnswersInv /\ ExitInv

=============================================================================
