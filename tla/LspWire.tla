------------------------------ MODULE LspWire ------------------------------
(***************************************************************************)
(* An editor and a language server joined by two pipes and nothing else:   *)
(* what ipm-rpc-tee, which sits between them, has to look like from both   *)
(* ends.                                                                   *)
(***************************************************************************)
EXTENDS Naturals, Sequences

CONSTANTS
  UpMsgs, DownMsgs,       \* what the editor and the server may say
  MaxUp, MaxDown          \* bounds on how often they do

VARIABLES
  up, gotUp,              \* what the editor has sent, what the server has read
  down, gotDown,          \* and the other way round
  open,                   \* the editor keeps its end open
  server                  \* "up", "done" after the end of its input, or "dead"

vars == <<up, gotUp, down, gotDown, open, server>>

Start ==
  /\ up = <<>> /\ gotUp = <<>> /\ down = <<>> /\ gotDown = <<>>
  /\ open = TRUE
  /\ server = "up"
Init == Start

SendUp ==
  /\ open
  /\ Len(up) < MaxUp
  /\ \E m \in UpMsgs : up' = Append(up, m)
  /\ UNCHANGED <<gotUp, down, gotDown, open, server>>

\* The server reads the next message, and may answer it.
TakeUp ==
  /\ server = "up"
  /\ Len(gotUp) < Len(up)
  /\ gotUp' = Append(gotUp, up[Len(gotUp) + 1])
  /\ down' = down \/ (Len(down) < MaxDown /\ \E m \in DownMsgs : down' = Append(down, m))
  /\ UNCHANGED <<up, gotDown, open, server>>

TakeDown ==
  /\ Len(gotDown) < Len(down)
  /\ gotDown' = Append(gotDown, down[Len(gotDown) + 1])
  /\ UNCHANGED <<up, gotUp, down, open, server>>

Close == open /\ open' = FALSE /\ UNCHANGED <<up, gotUp, down, gotDown, server>>

\* The end of the input comes after all of the input.
SeeEnd ==
  /\ server = "up"
  /\ ~open /\ gotUp = up
  /\ server' = "done"
  /\ UNCHANGED <<up, gotUp, down, gotDown, open>>

Die == server = "up" /\ server' = "dead" /\ UNCHANGED <<up, gotUp, down, gotDown, open>>

\* The editor starts the server anew.
Reconnect ==
  /\ server # "up"
  /\ up' = <<>> /\ gotUp' = <<>> /\ down' = <<>> /\ gotDown' = <<>>
  /\ open' = TRUE
  /\ server' = "up"

Next == SendUp \/ TakeUp \/ TakeDown \/ Close \/ SeeEnd \/ Die \/ Reconnect

\* A pipe delivers, and ends.
Spec == Init /\ [][Next]_vars /\ WF_vars(TakeUp) /\ WF_vars(TakeDown) /\ WF_vars(SeeEnd)

=============================================================================
