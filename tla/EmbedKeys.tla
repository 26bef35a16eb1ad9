----------------------------- MODULE EmbedKeys -----------------------------
(***************************************************************************)
(* The block ids of an embedded document (pkg/mdembed/key.go and the       *)
(* second pass of AnalyzeMarkdown, pkg/mdembed/process.go).                *)
(*                                                                         *)
(* A key is the number a 3-character base-36 string stands for; its        *)
(* lexicographic order is the order of these numbers.  Any other id (the   *)
(* name of an included file, a hand-written id=) is a value outside Keys.  *)
(* NoId is the empty string.  In the code KeyMax = 46655 ("zzz"),          *)
(* KeyFirst = 1296 ("100") and KeyStep = 36 ("010").                       *)
(***************************************************************************)
EXTENDS Integers, Sequences

CONSTANTS KeyMax, KeyFirst, KeyStep, NoId

Keys == 0 .. KeyMax

ASSUME KeysAssumption ==
  /\ KeyMax \in Nat
  /\ KeyFirst \in Keys
  /\ KeyStep \in Nat \ {0}
  /\ NoId \notin Int

IsKey(id) == id \in Keys

(***************************************************************************)
(* The midpoint of the open interval (prev, next), NoId when it is empty.  *)
(* An id that is no key is the open end of the key space.  (Go truncates   *)
(* the division where \div rounds down; they differ only for lo = -1,      *)
(* hi = 0, and there both results are refused.)                            *)
(***************************************************************************)
KeyBetween(prev, next) ==
  LET lo  == IF IsKey(prev) THEN prev ELSE -1
      hi  == IF IsKey(next) THEN next ELSE KeyMax + 1
      mid == (lo + hi) \div 2
  IN  IF prev = NoId /\ next = NoId THEN KeyFirst
      ELSE IF lo < mid /\ mid < hi THEN mid ELSE NoId

\* One step past prev, or the midpoint to the ceiling near the top.
KeyAfter(prev) ==
  IF ~IsKey(prev) THEN KeyFirst
  ELSE IF prev + KeyStep <= KeyMax THEN prev + KeyStep
  ELSE KeyBetween(prev, NoId)

(***************************************************************************)
(* The second pass over the blocks of one document.  An entry is           *)
(*   [live |-> the block is not skipped, id |-> the id of the first pass]  *)
(***************************************************************************)

\* Mutant of Preserved: seen is not consulted.
PreservedNoSeen(es, i) == es[i].live /\ es[i].id # NoId

\* Keeps its id: it has one and is the first live block to claim it.
Preserved(es, i) ==
  /\ es[i].live
  /\ es[i].id # NoId
  /\ \A j \in 1 .. i - 1 : es[j].live => es[j].id # es[i].id

\* The indices whose ids bound the interval of a new key.
KeyedPreserved(es) == {j \in 1 .. Len(es) : Preserved(es, j) /\ IsKey(es[j].id)}

\* The key of the next preserved keyed block after i.
NextKey(es, i) ==
  LET after == {j \in KeyedPreserved(es) : j > i}
  IN  IF after = {} THEN NoId
      ELSE es[CHOOSE j \in after : \A k \in after : j <= k].id

\* The interval below next has no room for a key: the code falls back to KeyAfter.
NoRoom(prev, next) == next # NoId /\ KeyBetween(prev, next) = NoId

\* Mutant of FreshKey: the next key is ignored, every fresh key is a step past prev.
FreshKeyAppend(prev, next) == KeyAfter(prev)

\* The key of a block that is not preserved, NoId when the key space is exhausted.
FreshKey(prev, next) ==
  IF next = NoId \/ NoRoom(prev, next) THEN KeyAfter(prev)
  ELSE KeyBetween(prev, next)

\* The id of entry i after the pass, given the bound prev its predecessors leave.
IdAfter(es, i, prev) ==
  IF ~es[i].live \/ Preserved(es, i) THEN es[i].id
  ELSE LET key == FreshKey(prev, NextKey(es, i))
       IN  IF key = NoId THEN es[i].id ELSE key

\* The bound entry i leaves for its successors (prevKey in the code).
PrevAfter(es, i, prev) ==
  IF ~es[i].live THEN prev
  ELSE IF Preserved(es, i) THEN IF IsKey(es[i].id) THEN es[i].id ELSE prev
  ELSE LET key == FreshKey(prev, NextKey(es, i))
       IN  IF key = NoId THEN prev ELSE key

\* The bound every entry leaves behind, from the empty bound before the first.
PrevKeys(es) ==
  LET prev[i \in 0 .. Len(es)] ==
        IF i = 0 THEN NoId ELSE PrevAfter(es, i, prev[i - 1])
  IN  prev

\* The whole pass: the id of every entry, and the entries that got a fresh key.
AssignIds(es) ==
  LET prev == PrevKeys(es) IN [i \in 1 .. Len(es) |-> IdAfter(es, i, prev[i - 1])]
Rekeyed(es) ==
  LET prev == PrevKeys(es)
  IN  {i \in 1 .. Len(es) : /\ es[i].live
                            /\ ~Preserved(es, i)
                            /\ FreshKey(prev[i - 1], NextKey(es, i)) # NoId}

=============================================================================
