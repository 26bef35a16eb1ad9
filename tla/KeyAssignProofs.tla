------------------------- MODULE KeyAssignProofs -------------------------
(***************************************************************************)
(* Theorems about the key-assignment pass, for every size of the key       *)
(* space, every step, and every document.                                  *)
(***************************************************************************)
EXTENDS KeyAssign, SetInduction

(* ---------------------------------------------------------------------- *)
(* What the operators return.                                              *)

\* KeyBetween gives NoId or a key strictly inside the interval it is given.
LEMMA KeyBetweenInside ==
  ASSUME NEW lo \in Keys \cup {NoId}, NEW hi \in Keys \cup {NoId},
         KeyBetween(lo, hi) # NoId
  PROVE  /\ KeyBetween(lo, hi) \in Keys
         /\ lo # NoId => lo < KeyBetween(lo, hi)
         /\ hi # NoId => KeyBetween(lo, hi) < hi
<1> DEFINE l == IF IsKey(lo) THEN lo ELSE -1
           h == IF IsKey(hi) THEN hi ELSE KeyMax + 1
           m == (l + h) \div 2
<1>1. l \in -1 .. KeyMax /\ h \in 0 .. KeyMax + 1 /\ m \in Int
  BY KeysAssumption DEF Keys, IsKey
<1>2. CASE lo = NoId /\ hi = NoId
  BY <1>2, KeysAssumption DEF KeyBetween, Keys
<1>3. CASE ~(lo = NoId /\ hi = NoId)
  <2>1. KeyBetween(lo, hi) = m /\ l < m /\ m < h
    BY <1>3 DEF KeyBetween
  <2>2. (lo # NoId => l = lo) /\ (hi # NoId => h = hi)
    BY DEF IsKey
  <2> HIDE DEF l, h, m
  <2> QED
    BY <1>1, <2>1, <2>2, KeysAssumption DEF Keys
<1> QED
  BY <1>2, <1>3

\* KeyAfter gives NoId or a key above the bound it is given.
LEMMA KeyAfterAbove ==
  ASSUME NEW lo \in Keys \cup {NoId}, KeyAfter(lo) # NoId
  PROVE  /\ KeyAfter(lo) \in Keys
         /\ lo # NoId => lo < KeyAfter(lo)
<1>1. CASE lo = NoId
  BY <1>1, KeysAssumption DEF KeyAfter, IsKey, Keys
<1>2. CASE lo \in Keys /\ lo + KeyStep <= KeyMax
  BY <1>2, KeysAssumption DEF KeyAfter, IsKey, Keys
<1>3. CASE lo \in Keys /\ ~(lo + KeyStep <= KeyMax)
  <2>1. KeyAfter(lo) = KeyBetween(lo, NoId)
    BY <1>3 DEF KeyAfter, IsKey
  <2> QED
    BY <2>1, KeyBetweenInside
<1> QED
  BY <1>1, <1>2, <1>3

(***************************************************************************)
(* A fresh key lies above the bound before it, and, when the interval had  *)
(* room, below the next preserved key: the fact the whole pass rests on.   *)
(***************************************************************************)
LEMMA FreshKeyInside ==
  ASSUME NEW lo \in Keys \cup {NoId}, NEW hi \in Keys \cup {NoId},
         FreshKey(lo, hi) # NoId
  PROVE  /\ FreshKey(lo, hi) \in Keys
         /\ lo # NoId => lo < FreshKey(lo, hi)
         /\ (hi # NoId /\ ~NoRoom(lo, hi)) => FreshKey(lo, hi) < hi
<1>1. CASE hi = NoId \/ NoRoom(lo, hi)
  BY <1>1, KeyAfterAbove DEF FreshKey
<1>2. CASE ~(hi = NoId \/ NoRoom(lo, hi))
  BY <1>2, KeyBetweenInside DEF FreshKey
<1> QED
  BY <1>1, <1>2

(***************************************************************************)
(* NextKey is the key of the first preserved keyed block after n, NoId     *)
(* exactly when there is none.                                             *)
(***************************************************************************)
LEMMA NextKeyIsFirst ==
  ASSUME NEW xs \in Seq(Entry), NEW n \in 1 .. Len(xs)
  PROVE  \/ /\ NextKey(xs, n) = NoId
            /\ \A j \in KeyedPreserved(xs) : j <= n
         \/ \E m \in KeyedPreserved(xs) :
               /\ m > n
               /\ NextKey(xs, n) = xs[m].id
               /\ \A j \in KeyedPreserved(xs) : j > n => m <= j
<1> DEFINE after == {j \in KeyedPreserved(xs) : j > n}
<1>1. after \in SUBSET Nat /\ \A j \in KeyedPreserved(xs) : j \in Nat
  BY DEF KeyedPreserved
<1>2. CASE after = {}
  <2>1. NextKey(xs, n) = NoId
    BY <1>2, Zenon DEF NextKey
  <2>2. \A j \in KeyedPreserved(xs) : j <= n
    BY <1>1, <1>2
  <2> QED
    BY <2>1, <2>2
<1>3. CASE after # {}
  <2> DEFINE first == CHOOSE j \in after : \A k \in after : j <= k
  <2>1. first \in after /\ \A k \in after : first <= k
    BY <1>1, <1>3, LeastElement
  <2>2. NextKey(xs, n) = xs[first].id
    BY <1>3, Zenon DEF NextKey
  <2> HIDE DEF first
  <2> QED
    BY <2>1, <2>2
<1> QED
  BY <1>2, <1>3

\* So it is a key or NoId.
LEMMA NextKeyType ==
  ASSUME NEW xs \in Seq(Entry), NEW n \in 1 .. Len(xs)
  PROVE  NextKey(xs, n) \in Keys \cup {NoId}
BY NextKeyIsFirst DEF KeyedPreserved, IsKey

(* ---------------------------------------------------------------------- *)
(* The invariant.                                                          *)

LEMMA InitInv == Init => KeyAssignInv
<1> SUFFICES ASSUME Init PROVE KeyAssignInv
  OBVIOUS
<1>1. es \in Seq(Entry) /\ i = 1 /\ prev = NoId /\ fell = FALSE
      /\ ids = [j \in 1 .. Len(es) |-> es[j].id]
  BY InputsAssumption DEF Init
<1>2. Len(es) \in Nat /\ \A j \in 1 .. Len(es) : es[j].id \in Ids
  <2>1. es \in Seq(Entry)
    BY <1>1
  <2>2. Len(es) \in Nat /\ \A j \in 1 .. Len(es) : es[j] \in Entry
    BY <2>1
  <2> QED
    BY <2>2 DEF Entry
<1>3. ids \in [1 .. Len(es) -> Ids]
  BY <1>1, <1>2
<1>4. TypeOK
  <2>1. i \in 1 .. Len(es) + 1
    BY <1>1, <1>2
  <2> QED
    BY <1>1, <1>3, <2>1, Zenon DEF TypeOK
<1>5. NotYetHandled
  BY <1>1 DEF NotYetHandled
<1>6. 1 .. i - 1 = {}
  BY <1>1
<1>7. KeptSoFar /\ HandledKeyed /\ HandledBelowPrev /\ HandledAscend
  BY <1>6, Zenon DEF KeptSoFar, HandledKeyed, HandledBelowPrev, HandledAscend
<1>8. PrevBelowNext
  BY <1>1 DEF PrevBelowNext
<1> QED
  BY <1>4, <1>5, <1>7, <1>8 DEF KeyAssignInv

\* The facts every step starts from.
LEMMA FreshEntry ==
  ASSUME KeyAssignInv, i <= Len(es)
  PROVE  /\ i \in 1 .. Len(es)
         /\ es[i] \in Entry
         /\ prev \in Keys \cup {NoId}
         /\ NextKey(es, i) \in Keys \cup {NoId}
BY NextKeyType DEF KeyAssignInv, TypeOK

LEMMA SkipInv == KeyAssignInv /\ SkipEntry => KeyAssignInv'
<1> SUFFICES ASSUME KeyAssignInv, SkipEntry PROVE KeyAssignInv'
  OBVIOUS
<1>1. i \in 1 .. Len(es) /\ i' = i + 1 /\ ~es[i].live
      /\ es' = es /\ prev' = prev /\ ids' = ids /\ fell' = fell
  BY FreshEntry DEF SkipEntry
<1>2. TypeOK' /\ NotYetHandled' /\ KeptSoFar'
  BY <1>1 DEF KeyAssignInv, TypeOK, NotYetHandled, KeptSoFar
<1>3. (InOrder /\ ~fell)' => InOrder /\ ~fell
  BY <1>1 DEF InOrder
<1>4. HandledKeyed => HandledKeyed'
  BY <1>1 DEF HandledKeyed, KeyAssignInv, TypeOK
<1>5. HandledBelowPrev => HandledBelowPrev'
  BY <1>1 DEF HandledBelowPrev, KeyAssignInv, TypeOK
<1>6. HandledAscend => HandledAscend'
  BY <1>1 DEF HandledAscend, KeyAssignInv, TypeOK
<1>7. PrevBelowNext => PrevBelowNext'
  BY <1>1 DEF PrevBelowNext, KeyedPreserved, KeyAssignInv, TypeOK
<1> QED
  BY <1>2, <1>3, <1>4, <1>5, <1>6, <1>7 DEF KeyAssignInv

LEMMA KeepInv == KeyAssignInv /\ KeepEntry => KeyAssignInv'
<1> SUFFICES ASSUME KeyAssignInv, KeepEntry PROVE KeyAssignInv'
  OBVIOUS
<1>1. i \in 1 .. Len(es) /\ i' = i + 1 /\ Preserved(es, i) /\ es[i] \in Entry
      /\ prev' = (IF IsKey(es[i].id) THEN es[i].id ELSE prev)
      /\ es' = es /\ ids' = ids /\ fell' = fell
  BY FreshEntry DEF KeepEntry
<1>2. ids[i] = es[i].id
  BY <1>1 DEF KeyAssignInv, NotYetHandled
<1>3. TypeOK' /\ NotYetHandled' /\ KeptSoFar'
  BY <1>1, <1>2 DEF KeyAssignInv, TypeOK, NotYetHandled, KeptSoFar, IsKey
<1>4. SUFFICES ASSUME InOrder, ~fell
               PROVE  (HandledKeyed /\ HandledBelowPrev /\ HandledAscend /\ PrevBelowNext)'
  BY <1>1, <1>3 DEF KeyAssignInv, InOrder
<1>5. HandledKeyed /\ HandledBelowPrev /\ HandledAscend /\ PrevBelowNext
  BY <1>4 DEF KeyAssignInv
<1>6. IsKey(es[i].id) => i \in KeyedPreserved(es)
  BY <1>1 DEF KeyedPreserved
<1>7. (prev # NoId /\ IsKey(es[i].id)) => prev < es[i].id
  BY <1>1, <1>5, <1>6 DEF PrevBelowNext
<1>8. /\ es \in Seq(Entry)
      /\ prev # NoId => prev \in Int
      /\ \A x : IsKey(x) => x \in Int /\ x # NoId
  BY KeysAssumption DEF KeyAssignInv, TypeOK, Keys, IsKey
<1>9. HandledKeyed'
  BY <1>1, <1>5, <1>8 DEF HandledKeyed
<1>10. HandledBelowPrev'
  <2>1. SUFFICES ASSUME NEW j \in 1 .. i, es[j].live, IsKey(ids[j])
                 PROVE  prev' # NoId /\ ids[j] <= prev'
    BY <1>1, <1>8 DEF HandledBelowPrev
  <2>2. CASE j = i
    BY <1>1, <1>2, <1>8, <2>1, <2>2
  <2>3. CASE j < i
    <3>1. prev # NoId /\ ids[j] <= prev
      BY <1>1, <1>5, <2>1, <2>3 DEF HandledBelowPrev
    <3>2. ids[j] \in Int /\ prev \in Int
      BY <1>8, <2>1, <3>1
    <3>3. CASE IsKey(es[i].id)
      BY <1>1, <1>7, <1>8, <3>1, <3>2, <3>3
    <3> QED
      BY <1>1, <3>1, <3>3
  <2> QED
    BY <1>1, <2>2, <2>3
<1>11. HandledAscend'
  <2>1. SUFFICES ASSUME NEW j \in 1 .. i, NEW k \in 1 .. i, j < k, es[j].live, es[k].live,
                        IsKey(ids[j]), IsKey(ids[k])
                 PROVE  ids[j] < ids[k]
    BY <1>1, <1>8 DEF HandledAscend
  <2>2. CASE k = i
    <3>1. prev # NoId /\ ids[j] <= prev
      BY <1>1, <1>5, <2>1, <2>2 DEF HandledBelowPrev
    <3>2. ids[j] \in Int /\ prev \in Int /\ es[i].id \in Int
      BY <1>2, <1>8, <2>1, <2>2, <3>1
    <3> QED
      BY <1>2, <1>7, <2>1, <2>2, <3>1, <3>2
  <2>3. CASE k < i
    BY <1>1, <1>5, <2>1, <2>3 DEF HandledAscend
  <2> QED
    BY <1>1, <2>2, <2>3
<1>12. PrevBelowNext'
  <2>1. SUFFICES ASSUME NEW k \in KeyedPreserved(es), k > i, prev' # NoId
                 PROVE  prev' < es[k].id
    BY <1>1, <1>8 DEF PrevBelowNext, KeyedPreserved
  <2>2. CASE IsKey(es[i].id)
    BY <1>1, <1>4, <1>6, <2>1, <2>2 DEF InOrder
  <2>3. CASE ~IsKey(es[i].id)
    BY <1>1, <1>5, <2>1, <2>3 DEF PrevBelowNext, KeyedPreserved
  <2> QED
    BY <2>2, <2>3
<1> QED
  BY <1>9, <1>10, <1>11, <1>12

LEMMA AssignInv == KeyAssignInv /\ AssignEntry => KeyAssignInv'
<1> SUFFICES ASSUME KeyAssignInv, AssignEntry PROVE KeyAssignInv'
  OBVIOUS
<1> DEFINE next == NextKey(es, i)
           key  == FreshKey(prev, next)
<1>1. i \in 1 .. Len(es) /\ i' = i + 1 /\ es[i].live /\ ~Preserved(es, i)
      /\ es' = es /\ prev' = key /\ ids' = [ids EXCEPT ![i] = key]
      /\ fell' = (fell \/ NoRoom(prev, next)) /\ key # NoId
  BY FreshEntry DEF AssignEntry
<1>2. key \in Keys /\ (prev # NoId => prev < key)
      /\ ((next # NoId /\ ~NoRoom(prev, next)) => key < next)
  BY <1>1, FreshEntry, FreshKeyInside
<1>3. \/ next = NoId /\ \A j \in KeyedPreserved(es) : j <= i
      \/ \E m \in KeyedPreserved(es) :
            /\ m > i
            /\ next = es[m].id
            /\ \A j \in KeyedPreserved(es) : j > i => m <= j
  BY <1>1, NextKeyIsFirst DEF KeyAssignInv, TypeOK
<1> HIDE DEF key, next
<1>4. /\ es \in Seq(Entry)
      /\ ids \in [1 .. Len(es) -> Ids]
      /\ prev # NoId => prev \in Int
      /\ key \in Int /\ key # NoId /\ IsKey(key)
      /\ \A x : IsKey(x) => x \in Int /\ x # NoId
  BY <1>2, KeysAssumption DEF KeyAssignInv, TypeOK, Keys, IsKey
<1>5. /\ ids'[i] = key
      /\ \A j \in 1 .. Len(es) : j # i => ids'[j] = ids[j]
      /\ ids' \in [1 .. Len(es) -> Ids]
  BY <1>1, <1>2, <1>4 DEF Ids
<1>6. TypeOK' /\ NotYetHandled' /\ KeptSoFar'
  <2>1. TypeOK'
    BY <1>1, <1>2, <1>5 DEF KeyAssignInv, TypeOK
  <2>2. NotYetHandled'
    BY <1>1, <1>5 DEF KeyAssignInv, NotYetHandled
  <2>3. KeptSoFar'
    BY <1>1, <1>5 DEF KeyAssignInv, KeptSoFar
  <2> QED
    BY <2>1, <2>2, <2>3
<1>7. SUFFICES ASSUME InOrder, ~fell, ~NoRoom(prev, next)
               PROVE  (HandledKeyed /\ HandledBelowPrev /\ HandledAscend /\ PrevBelowNext)'
  BY <1>1, <1>6 DEF KeyAssignInv, InOrder
<1>8. HandledKeyed /\ HandledBelowPrev /\ HandledAscend /\ PrevBelowNext
  BY <1>7 DEF KeyAssignInv
<1>9. HandledKeyed'
  BY <1>1, <1>4, <1>5, <1>8 DEF HandledKeyed
<1>10. ASSUME NEW j \in 1 .. i, es[j].live, IsKey(ids'[j]), j # i
       PROVE  j \in 1 .. i - 1 /\ ids'[j] = ids[j] /\ ids'[j] < key
  <2>1. j \in 1 .. i - 1 /\ ids'[j] = ids[j] /\ IsKey(ids[j])
    BY <1>1, <1>5, <1>10
  <2>2. prev # NoId /\ ids[j] <= prev
    BY <1>8, <1>10, <2>1 DEF HandledBelowPrev
  <2> QED
    BY <1>2, <1>4, <2>1, <2>2
<1>11. HandledBelowPrev'
  <2>1. SUFFICES ASSUME NEW j \in 1 .. i, es[j].live, IsKey(ids'[j])
                 PROVE  key # NoId /\ ids'[j] <= key
    BY <1>1 DEF HandledBelowPrev
  <2> QED
    BY <1>4, <1>5, <1>10, <2>1
<1>12. HandledAscend'
  <2>1. SUFFICES ASSUME NEW j \in 1 .. i, NEW k \in 1 .. i, j < k, es[j].live, es[k].live,
                        IsKey(ids'[j]), IsKey(ids'[k])
                 PROVE  ids'[j] < ids'[k]
    BY <1>1 DEF HandledAscend
  <2>2. j \in 1 .. i - 1 /\ ids'[j] = ids[j] /\ ids'[j] < key
    BY <1>1, <1>10, <2>1
  <2>3. CASE k = i
    BY <1>5, <2>2, <2>3
  <2>4. CASE k # i
    BY <1>8, <1>10, <2>1, <2>2, <2>4 DEF HandledAscend
  <2> QED
    BY <2>3, <2>4
<1>13. PrevBelowNext'
  <2>1. SUFFICES ASSUME NEW k \in KeyedPreserved(es), k > i
                 PROVE  key < es[k].id
    BY <1>1 DEF PrevBelowNext, KeyedPreserved
  <2>2. PICK m \in KeyedPreserved(es) : m > i /\ next = es[m].id /\ m <= k
    BY <1>1, <1>3, <2>1 DEF KeyedPreserved
  <2>3. es[m].id \in Int /\ es[k].id \in Int /\ m \in Int /\ k \in Int /\ es[m].id # NoId
    BY <1>4 DEF KeyedPreserved
  <2>4. key < es[m].id
    BY <1>2, <1>7, <2>2, <2>3
  <2>5. m = k \/ es[m].id < es[k].id
    BY <1>7, <2>1, <2>2, <2>3 DEF InOrder
  <2> QED
    BY <1>4, <2>3, <2>4, <2>5
<1> QED
  BY <1>9, <1>11, <1>12, <1>13

LEMMA ExhaustInv == KeyAssignInv /\ ExhaustEntry => KeyAssignInv'
<1> SUFFICES ASSUME KeyAssignInv, ExhaustEntry PROVE KeyAssignInv'
  OBVIOUS
<1>1. i \in 1 .. Len(es) /\ i' = i + 1 /\ es[i].live /\ ~Preserved(es, i)
      /\ es' = es /\ prev' = prev /\ ids' = ids /\ fell' = TRUE
  BY FreshEntry DEF ExhaustEntry
<1> QED
  BY <1>1 DEF KeyAssignInv, TypeOK, NotYetHandled, KeptSoFar

(***************************************************************************)
(* Every step of the pass keeps the invariant.                             *)
(***************************************************************************)
THEOREM KeyAssignInvariant == Spec => []KeyAssignInv
<1>1. KeyAssignInv /\ [Next]_vars => KeyAssignInv'
  <2> SUFFICES ASSUME KeyAssignInv, [Next]_vars PROVE KeyAssignInv'
    OBVIOUS
  <2>1. CASE SkipEntry
    BY <2>1, SkipInv
  <2>2. CASE KeepEntry
    BY <2>2, KeepInv
  <2>3. CASE AssignEntry
    BY <2>3, AssignInv
  <2>4. CASE ExhaustEntry
    BY <2>4, ExhaustInv
  <2>5. CASE UNCHANGED vars
    BY <2>5 DEF vars, KeyAssignInv, TypeOK, NotYetHandled, KeptSoFar, InOrder, HandledKeyed,
                HandledBelowPrev, HandledAscend, PrevBelowNext
  <2> QED
    BY <2>1, <2>2, <2>3, <2>4, <2>5 DEF Next, Done
<1> QED
  BY <1>1, InitInv, PTL DEF Spec

(* ---------------------------------------------------------------------- *)
(* The properties.                                                         *)

(***************************************************************************)
(* The state of the pass has the types declared for it.                    *)
(***************************************************************************)
THEOREM TypeCorrect == Spec => []TypeOK
<1>1. KeyAssignInv => TypeOK
  BY DEF KeyAssignInv
<1> QED
  BY <1>1, KeyAssignInvariant, PTL

(***************************************************************************)
(* AnalyzeMarkdown never changes the id of the first block to claim it,    *)
(* for every document, key space and step.                                 *)
(***************************************************************************)
THEOREM ExistingIdsAreKept == Spec => []ExistingIdsKept
<1>1. KeyAssignInv => ExistingIdsKept
  <2> SUFFICES ASSUME KeyAssignInv, NEW j \in 1 .. Len(es), FirstClaim(j)
               PROVE  ids[j] = es[j].id
    BY DEF ExistingIdsKept
  <2>1. ~es[j].live \/ Preserved(es, j)
    BY DEF FirstClaim, Preserved
  <2>2. i \in Nat /\ Len(es) \in Nat
    BY DEF KeyAssignInv, TypeOK
  <2> QED
    BY <2>1, <2>2 DEF KeyAssignInv, NotYetHandled, KeptSoFar
<1> QED
  BY <1>1, KeyAssignInvariant, PTL

\* Of two live blocks whose ids are keys the earlier one has the smaller key.
LEMMA OwnersAscend ==
  ASSUME KeyAssignInv, InOrder, ~fell, NEW j \in Owners, NEW k \in Owners,
         j < k, IsKey(ids[j]), IsKey(ids[k])
  PROVE  ids[j] < ids[k]
<1>1. HandledBelowPrev /\ HandledAscend /\ PrevBelowNext /\ NotYetHandled
  BY DEF KeyAssignInv
<1>2. /\ i \in 1 .. Len(es) + 1 /\ Len(es) \in Nat
      /\ j \in 1 .. Len(es) /\ k \in 1 .. Len(es) /\ es[j].live /\ es[k].live
      /\ \A x : IsKey(x) => x \in Int /\ x # NoId
      /\ prev # NoId => prev \in Int
  BY KeysAssumption DEF KeyAssignInv, TypeOK, Owners, IsKey, Keys
<1>3. CASE k < i
  BY <1>1, <1>2, <1>3 DEF HandledAscend
<1>4. CASE k >= i
  <2>1. ids[k] = es[k].id /\ k \in KeyedPreserved(es)
    BY <1>1, <1>2, <1>4 DEF NotYetHandled, Owners, KeyedPreserved
  <2>2. CASE j < i
    <3>1. prev # NoId /\ ids[j] <= prev
      BY <1>1, <1>2, <2>2 DEF HandledBelowPrev
    <3>2. prev < es[k].id
      BY <1>1, <1>4, <2>1, <3>1 DEF PrevBelowNext
    <3>3. ids[j] \in Int /\ prev \in Int /\ es[k].id \in Int
      BY <1>2, <2>1, <3>1
    <3> QED
      BY <2>1, <3>1, <3>2, <3>3
  <2>3. CASE j >= i
    <3>1. ids[j] = es[j].id /\ j \in KeyedPreserved(es)
      BY <1>1, <1>2, <2>3 DEF NotYetHandled, Owners, KeyedPreserved
    <3> QED
      BY <2>1, <3>1 DEF InOrder
  <2> QED
    BY <1>2, <2>2, <2>3
<1> QED
  BY <1>2, <1>3, <1>4

(***************************************************************************)
(* With the preserved keys in order and room in every interval, document   *)
(* order is key order after every step.                                    *)
(***************************************************************************)
THEOREM KeysAscendInDocumentOrder == Spec => []KeysAscend
<1>1. KeyAssignInv => KeysAscend
  BY OwnersAscend DEF KeysAscend
<1> QED
  BY <1>1, KeyAssignInvariant, PTL

(***************************************************************************)
(* Under the same conditions no two blocks of a document ever share an id, *)
(* and with it an SVG: keys because they ascend, names because only the    *)
(* first block to claim one is preserved and no fresh id is a name.        *)
(***************************************************************************)
THEOREM IdsAreDistinct == Spec => []DistinctIds
<1>1. KeyAssignInv => DistinctIds
  <2> SUFFICES ASSUME KeyAssignInv, InOrder, ~fell, NEW j \in Owners, NEW k \in Owners,
                      ids[j] = ids[k], j < k
               PROVE  FALSE
    BY DEF DistinctIds, Owners
  <2>1. ~IsKey(ids[j])
    <3>1. \A x : IsKey(x) => x \in Int
      BY KeysAssumption DEF IsKey, Keys
    <3> QED
      BY <3>1, OwnersAscend
  <2>2. /\ i \in 1 .. Len(es) + 1 /\ Len(es) \in Nat
        /\ j \in 1 .. Len(es) /\ k \in 1 .. Len(es) /\ es[j].live /\ es[k].live
    BY DEF KeyAssignInv, TypeOK, Owners
  <2>3. ASSUME NEW n \in Owners, ~IsKey(ids[n])
        PROVE  Preserved(es, n) /\ ids[n] = es[n].id
    <3>1. CASE n < i
      BY <2>2, <2>3, <3>1 DEF KeyAssignInv, HandledKeyed, KeptSoFar, Owners
    <3>2. CASE n >= i
      BY <2>2, <3>2 DEF KeyAssignInv, NotYetHandled, Owners
    <3> QED
      BY <2>2, <3>1, <3>2 DEF Owners
  <2> QED
    BY <2>1, <2>2, <2>3 DEF Preserved
<1> QED
  BY <1>1, KeyAssignInvariant, PTL
=============================================================================
