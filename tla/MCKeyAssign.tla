---------------------------- MODULE MCKeyAssign ----------------------------
(* Bounded documents for KeyAssign: every document of at most MaxLen blocks *)
(* over a small key space and two names.                                    *)
EXTENDS KeyAssign

CONSTANTS MaxLen, n1

MCInputs == UNION {[1 .. n -> Entry] : n \in 0 .. MaxLen}

\* One block inserted after "100" again and again, as the ids would be after each run.
InsertedDocs ==
  {<<1296, NoId, 1332>>, <<1296, NoId, 1314, 1332>>, <<1296, NoId, 1305, 1314, 1332>>,
   <<1296, NoId, 1300, 1305, 1314, 1332>>, <<1296, NoId, 1298, 1300, 1305, 1314, 1332>>,
   <<1296, NoId, 1297, 1298, 1300, 1305, 1314, 1332>>}
LiveEntries(s) == [j \in DOMAIN s |-> [live |-> TRUE, id |-> s[j]]]
RealInputs == {LiveEntries(s) : s \in InsertedDocs}
=============================================================================
