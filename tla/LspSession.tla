----------------------------- MODULE LspSession -----------------------------
(***************************************************************************)
(* What an editor may rely on from ipm-rpc: it edits documents, and the    *)
(* findings it shows are those of its own past states, one edit after the  *)
(* other and none left out, in time those of the last one.  How the server *)
(* caches documents, and when it takes which lock, does not appear here.   *)
(***************************************************************************)
EXTENDS DocViews

CONSTANT MaxEdits    \* bound

VARIABLES
  views,    \* views[k]: every document after the first k - 1 edits
  shown,    \* how many edits the findings on display take into account
  panel,    \* uri -> the findings on display
  up        \* the server has not been stopped

vars == <<views, shown, panel, up>>

View == views[Len(views)]
SentEdits == Len(views) - 1

Init ==
  /\ views = <<[u \in Uris |-> Closed]>>
  /\ shown = 0
  /\ panel = [u \in Uris |-> Nothing]
  /\ up = TRUE

\* The editor opens, changes or closes a document.
Edit ==
  /\ SentEdits < MaxEdits
  /\ \E u \in Uris, d \in DocStates(MaxEdits) : views' = Append(views, [View EXCEPT ![u] = d])
  /\ UNCHANGED <<shown, panel, up>>

\* The findings of the state after one more edit appear.
Show ==
  /\ shown < SentEdits
  /\ shown' = shown + 1
  /\ panel' = [u \in Uris |-> Diagnose(u, views[shown' + 1][u])]
  /\ UNCHANGED <<views, up>>

\* The server is stopped.
End ==
  /\ up
  /\ up' = FALSE
  /\ UNCHANGED <<views, shown, panel>>

Next == Edit \/ Show \/ End

\* As long as the server is up, the findings keep coming.
Spec == Init /\ [][Next]_vars /\ WF_vars(up /\ Show)

=============================================================================
