----------------------------- MODULE KeyAssign -----------------------------
(***************************************************************************)
(* The key-assignment loop of AnalyzeMarkdown as a state machine, one step *)
(* per block of one document.  It is the detailed form of                  *)
(* EmbedKeys!AssignIds, and it makes the hazard of the loop visible: the   *)
(* branch that gives up on an interval without room and takes a step past  *)
(* the previous key instead, never looking whether that key is in use.     *)
(***************************************************************************)
EXTENDS EmbedKeys

CONSTANTS
  Names,      \* ids that are no keys
  Inputs      \* the documents' entries as the first pass leaves them

Ids == Keys \cup Names \cup {NoId}
Entry == [live : BOOLEAN, id : Ids]

ASSUME InputsAssumption ==
  /\ Inputs \subseteq Seq(Entry)
  /\ Names \cap (Int \cup {NoId}) = {}

VARIABLES
  es,         \* the entries of the document
  i,          \* the loop index
  prev,       \* prevKey
  ids,        \* NewMarker.ID of each block
  fell        \* TRUE once an interval had no room or the key space was exhausted

vars == <<es, i, prev, ids, fell>>

Init ==
  /\ es \in Inputs
  /\ i = 1
  /\ prev = NoId
  /\ ids = [j \in 1 .. Len(es) |-> es[j].id]
  /\ fell = FALSE

\* A block that is not embedded keeps its (empty) place.
SkipEntry ==
  /\ i <= Len(es)
  /\ ~es[i].live
  /\ i' = i + 1
  /\ UNCHANGED <<es, prev, ids, fell>>

\* A preserved block keeps its id; only a real key moves the bound.
KeepEntry ==
  /\ i <= Len(es)
  /\ Preserved(es, i)
  /\ i' = i + 1
  /\ prev' = IF IsKey(es[i].id) THEN es[i].id ELSE prev
  /\ UNCHANGED <<es, ids, fell>>

\* A new or duplicated block gets a fresh key.
AssignEntry ==
  /\ i <= Len(es)
  /\ es[i].live
  /\ ~Preserved(es, i)
  /\ LET next == NextKey(es, i)
         key  == FreshKey(prev, next)
     IN  /\ key # NoId
         /\ ids' = [ids EXCEPT ![i] = key]
         /\ prev' = key
         /\ fell' = (fell \/ NoRoom(prev, next))
  /\ i' = i + 1
  /\ UNCHANGED es

\* The key space is exhausted: the block is left with the id it had.
ExhaustEntry ==
  /\ i <= Len(es)
  /\ es[i].live
  /\ ~Preserved(es, i)
  /\ FreshKey(prev, NextKey(es, i)) = NoId
  /\ fell' = TRUE
  /\ i' = i + 1
  /\ UNCHANGED <<es, prev, ids>>

\* The pass is over.
Done ==
  /\ i = Len(es) + 1
  /\ UNCHANGED vars

Next == SkipEntry \/ KeepEntry \/ AssignEntry \/ ExhaustEntry \/ Done

Spec == Init /\ [][Next]_vars

-----------------------------------------------------------------------------

TypeOK ==
  /\ es \in Seq(Entry)
  /\ i \in 1 .. Len(es) + 1
  /\ prev \in Keys \cup {NoId}
  /\ ids \in [1 .. Len(es) -> Ids]
  /\ fell \in BOOLEAN

\* The preserved keys ascend in document order: no block was moved.
InOrder == \A j, k \in KeyedPreserved(es) : j < k => es[j].id < es[k].id

(***************************************************************************)
(* An id already in a marker is never changed: the first block to claim an *)
(* id, a key or a name, ends with it, whatever the pass assigned to the    *)
(* blocks around it, and a block that is not embedded is left alone.       *)
(***************************************************************************)
FirstClaim(j) ==
  \/ ~es[j].live
  \/ /\ es[j].id # NoId
     /\ \A k \in 1 .. j - 1 : es[k].live => es[k].id # es[j].id
ExistingIdsKept == \A j \in 1 .. Len(es) : FirstClaim(j) => ids[j] = es[j].id

(***************************************************************************)
(* "The two never share one SVG": as long as no interval was full and the  *)
(* preserved keys were in order, no block handled so far has the id of     *)
(* another block, handled or still to be preserved.                        *)
(***************************************************************************)
Owners == {j \in 1 .. Len(es) : es[j].live /\ (j < i \/ Preserved(es, j))}
DistinctIds ==
  (InOrder /\ ~fell) => \A j, k \in Owners : ids[j] = ids[k] => j = k

(***************************************************************************)
(* Under the same conditions document order is key order, so the next      *)
(* insertion again finds its interval.                                     *)
(***************************************************************************)
KeysAscend ==
  (InOrder /\ ~fell) =>
     \A j, k \in Owners :
        (j < k /\ IsKey(ids[j]) /\ IsKey(ids[k])) => ids[j] < ids[k]

(***************************************************************************)
(* What docs/md-embed.md claims without the two conditions: the blocks of  *)
(* a document never share an id once every block is handled.               *)
(***************************************************************************)
NeverShareAnSvg ==
  i = Len(es) + 1 => \A j, k \in 1 .. Len(es) :
     (es[j].live /\ es[k].live /\ ids[j] = ids[k]) => j = k

-----------------------------------------------------------------------------
(***************************************************************************)
(* The inductive strengthening: the ids not handled yet are those of the   *)
(* first pass, the handled ones that had to be kept were kept, and the     *)
(* bound prev separates the keys handled from the preserved keys to come.  *)
(***************************************************************************)
NotYetHandled == \A j \in i .. Len(es) : ids[j] = es[j].id
KeptSoFar == \A j \in 1 .. i - 1 : (~es[j].live \/ Preserved(es, j)) => ids[j] = es[j].id
HandledKeyed ==
  \A j \in 1 .. i - 1 : (es[j].live /\ ~Preserved(es, j)) => IsKey(ids[j])
HandledBelowPrev ==
  \A j \in 1 .. i - 1 : (es[j].live /\ IsKey(ids[j])) => prev # NoId /\ ids[j] <= prev
HandledAscend ==
  \A j, k \in 1 .. i - 1 :
     (j < k /\ es[j].live /\ es[k].live /\ IsKey(ids[j]) /\ IsKey(ids[k])) => ids[j] < ids[k]
PrevBelowNext ==
  prev # NoId => \A k \in KeyedPreserved(es) : k >= i => prev < es[k].id

KeyAssignInv ==
  /\ TypeOK
  /\ NotYetHandled
  /\ KeptSoFar
  /\ (InOrder /\ ~fell) =>
        HandledKeyed /\ HandledBelowPrev /\ HandledAscend /\ PrevBelowNext

=============================================================================
