------------------------------- MODULE RpcTee -------------------------------
(***************************************************************************)
(* The recording proxy ipm-rpc-tee (cmd-dev/ipm-rpc-tee/main.go): two      *)
(* goroutines pump messages between an editor and a language server and    *)
(* write what they see to one capture file under a mutex.                  *)
(*                                                                         *)
(* The editor and the server are external: the editor sends, closes its    *)
(* end, reads to the end what it is sent, and starts the tee anew when its *)
(* server is gone; the server answers each edit with diagnostics, and may  *)
(* die.                                                                    *)
(***************************************************************************)
EXTENDS Naturals, Sequences

CONSTANTS
  Uris,          \* the documents
  NoUri,         \* the empty URI
  Torn,          \* what is left of a line whose write failed half way
  Texts,         \* uri -> the texts it may have
  Cadences,      \* what the editor sends, among EditorCadences and other
  MaxSends,      \* bound on the messages of all sessions
  MaxSessions    \* bound on the sessions

\* open and change carry a text; diagnostics come from the server.
Edits == {"open", "change"}
EditorCadences == Edits \cup {"embed", "embed-tokens", "save"}

ASSUME TeeAssumption ==
  /\ NoUri \notin Uris
  /\ Cadences \subseteq EditorCadences \cup {"other"}
  /\ MaxSends \in Nat /\ MaxSessions \in Nat \ {0}

VARIABLES
  left,          \* how many messages the editor may yet send
  sent,          \* the messages of the editor, this session
  open,          \* it keeps its end open
  toServer,      \* what the tee has written to the server, and
  served,        \* how much of it the server has read
  said,          \* what the server has written
  toEditor,      \* what the tee has written to the editor
  inClosed,      \* the tee has closed the input of the server
  srv,           \* the server: "up", "done" after the end of its input, or "dead"
  pump,          \* what each of the two pumps is doing
  holder,        \* who holds the recorder's mutex
  off, enc, seq, \* the recorder; enc is "nil", "open", or "broken" after a failed write
  file,          \* the lines of the capture
  sessions       \* how many there have been

wire == <<left, sent, open, toServer, served, said, toEditor, inClosed, srv>>
recorder == <<holder, off, enc, seq, file>>
vars == <<wire, pump, recorder, sessions>>

Pumps == {"client", "server"}
Free == "nobody"
Recv == [pc |-> "recv"]
Done == [pc |-> "done"]
Observe(m) == [pc |-> "observe", msg |-> m]

EditMsg == {[cadence |-> c, uri |-> u, text |-> t] : c \in Edits, u \in Uris, t \in UNION {Texts[u] : u \in Uris}}
ClientMsg == {m \in EditMsg : m.cadence \in Cadences /\ m.text \in Texts[m.uri]}
             \cup [cadence : Cadences \ Edits, uri : Uris]
ServerMsg == [cadence : {"diagnostics"}, uri : Uris, of : 1 .. MaxSends] \cup {[cadence |-> "other"]}

\* off: no directory, or one that cannot be made.
Init ==
  /\ left = MaxSends
  /\ sent = <<>> /\ open = TRUE
  /\ toServer = <<>> /\ served = 0 /\ said = <<>> /\ toEditor = <<>>
  /\ inClosed = FALSE /\ srv = "up"
  /\ pump = [p \in Pumps |-> Recv]
  /\ holder = Free /\ off \in BOOLEAN /\ enc = "nil" /\ seq = 0
  /\ file = <<>>
  /\ sessions = 1

\* wg.Wait and cmd.Wait have returned.
Ended == (\A p \in Pumps : pump[p] = Done) /\ srv # "up"

-----------------------------------------------------------------------------
(* The editor and the server. *)

Send ==
  /\ open /\ ~Ended
  /\ left > 0
  /\ left' = left - 1
  /\ \E m \in ClientMsg : sent' = Append(sent, m)
  /\ UNCHANGED <<open, toServer, served, said, toEditor, inClosed, srv, pump, recorder, sessions>>

Close ==
  /\ open /\ ~Ended
  /\ open' = FALSE
  /\ UNCHANGED <<left, sent, toServer, served, said, toEditor, inClosed, srv, pump, recorder, sessions>>

\* The answer to message n: diagnostics to an edit, something else to a request.
Answer(n) ==
  IF toServer[n].cadence \in Edits
  THEN [cadence |-> "diagnostics", uri |-> toServer[n].uri, of |-> n]
  ELSE [cadence |-> "other"]

Serve ==
  /\ srv = "up"
  /\ served < Len(toServer)
  /\ served' = served + 1
  /\ said' = Append(said, Answer(served'))
  /\ UNCHANGED <<left, sent, open, toServer, toEditor, inClosed, srv, pump, recorder, sessions>>

ServerEnds ==
  /\ srv = "up"
  /\ inClosed /\ served = Len(toServer)
  /\ srv' = "done"
  /\ UNCHANGED <<left, sent, open, toServer, served, said, toEditor, inClosed, pump, recorder, sessions>>

ServerDies ==
  /\ srv = "up"
  /\ srv' = "dead"
  /\ UNCHANGED <<left, sent, open, toServer, served, said, toEditor, inClosed, pump, recorder, sessions>>

-----------------------------------------------------------------------------
(* pump: forward first, observe after. *)

ToServer == pump["client"].pc = "recv"
Next1 == sent[Len(toServer) + 1]

\* Mutant of PumpUp: nothing is forwarded while the capture is disabled.
PumpUpRecordedOnly ==
  /\ ToServer
  /\ Len(toServer) < Len(sent) /\ srv = "up"
  /\ ~off
  /\ toServer' = Append(toServer, Next1)
  /\ pump' = [pump EXCEPT !["client"] = Observe(Next1)]
  /\ UNCHANGED <<left, sent, open, served, said, toEditor, inClosed, srv, recorder, sessions>>

\* Recv and Send of one message; the pump is the only reader and the only writer.
PumpUp ==
  /\ ToServer
  /\ Len(toServer) < Len(sent) /\ srv = "up"
  /\ toServer' = Append(toServer, Next1)
  /\ pump' = [pump EXCEPT !["client"] = Observe(Next1)]
  /\ UNCHANGED <<left, sent, open, served, said, toEditor, inClosed, srv, recorder, sessions>>

PumpDown ==
  /\ pump["server"].pc = "recv"
  /\ Len(toEditor) < Len(said)
  /\ LET m == said[Len(toEditor) + 1]
     IN  /\ toEditor' = Append(toEditor, m)
         /\ pump' = [pump EXCEPT !["server"] = Observe(m)]
  /\ UNCHANGED <<left, sent, open, toServer, served, said, inClosed, srv, recorder, sessions>>

\* The input of the editor has ended, or the server cannot be written to: EOF the server.
EndUp ==
  /\ ToServer
  /\ \/ ~open /\ Len(toServer) = Len(sent)
     \/ Len(toServer) < Len(sent) /\ srv # "up"
  /\ pump' = [pump EXCEPT !["client"] = Done]
  /\ inClosed' = TRUE
  /\ UNCHANGED <<left, sent, open, toServer, served, said, toEditor, srv, recorder, sessions>>

EndDown ==
  /\ pump["server"].pc = "recv"
  /\ Len(toEditor) = Len(said) /\ srv # "up"
  /\ pump' = [pump EXCEPT !["server"] = Done]
  /\ UNCHANGED <<wire, recorder, sessions>>

-----------------------------------------------------------------------------
(* The recorder. *)

\* fromClient and fromServer: what of a message is recorded; ipm.embed's argument has no uri.
Recorded(m) == m.cadence # "other"
LineOf(m) ==
  IF m.cadence = "save" THEN [cadence |-> "save", uri |-> NoUri] ELSE m
Numbered(n, m) == [f \in {"seq"} \cup DOMAIN LineOf(m) |-> IF f = "seq" THEN n ELSE LineOf(m)[f]]

\* A line that was cut short is not a line.
ASSUME TornAssumption ==
  \A m \in ClientMsg \cup ServerMsg, n \in 1 .. 2 * MaxSends : Recorded(m) => Torn # Numbered(n, m)

AtObserve(p) == pump[p].pc = "observe"

PassOver(p) ==
  /\ AtObserve(p) /\ ~Recorded(pump[p].msg)
  /\ pump' = [pump EXCEPT ![p] = Recv]
  /\ UNCHANGED <<wire, recorder, sessions>>

\* r.mu.Lock
Lock(p) ==
  /\ AtObserve(p) /\ Recorded(pump[p].msg)
  /\ holder = Free
  /\ holder' = p
  /\ pump' = [pump EXCEPT ![p].pc = "write"]
  /\ UNCHANGED <<wire, off, enc, seq, file, sessions>>

Unlock(p) ==
  /\ holder' = Free
  /\ pump' = [pump EXCEPT ![p] = Recv]

\* open fails, now or before; once it has failed it is not tried again.
GiveUp(p) ==
  /\ pump[p].pc = "write"
  /\ enc = "nil"
  /\ off' = TRUE
  /\ Unlock(p)
  /\ UNCHANGED <<wire, enc, seq, file, sessions>>

\* The file is open, or can be opened; the line gets its number.
Number(p) ==
  /\ pump[p].pc = "write"
  /\ enc = "nil" => ~off
  /\ enc' = IF enc = "nil" THEN "open" ELSE enc
  /\ seq' = seq + 1
  /\ pump' = [pump EXCEPT ![p].pc = "encode"]
  /\ UNCHANGED <<wire, holder, off, file, sessions>>

\* Mutant of Encode: a line is written also after one that could not be.
EncodeAfterFailure(p) ==
  /\ pump[p].pc = "encode"
  /\ file' = Append(file, Numbered(seq, pump[p].msg))
  /\ Unlock(p)
  /\ UNCHANGED <<wire, off, enc, seq, sessions>>
\* Encode, which after one failed write fails ever after.
Encode(p) ==
  /\ pump[p].pc = "encode"
  /\ enc = "open"
  /\ file' = Append(file, Numbered(seq, pump[p].msg))
  /\ Unlock(p)
  /\ UNCHANGED <<wire, off, enc, seq, sessions>>

EncodeFails(p) ==
  /\ pump[p].pc = "encode"
  /\ enc' = "broken"
  /\ off' = TRUE
  /\ file' \in IF enc = "open" THEN {file, Append(file, Torn)} ELSE {file}
  /\ Unlock(p)
  /\ UNCHANGED <<wire, seq, sessions>>

Record(p) == Lock(p) \/ GiveUp(p) \/ Number(p) \/ Encode(p) \/ EncodeFails(p)

=============================================================================
