--------------------------- MODULE SyncCasesProofs ---------------------------
(***************************************************************************)
(* Theorems about sync-test-cases, for every corpus of documents and every *)
(* history of full, filtered, checking and killed runs.                    *)
(***************************************************************************)
EXTENDS SyncCases, FiniteSetTheorems, TLAPS

(* The inductive invariant behind RemovalsAreOfTheRetired. *)

\* What --rm-extra is about to remove has no stem of a case of the destination.
ExtrasAreOfNoCase ==
  /\ DOMAIN disk = Dests
  /\ DOMAIN run = DOMAIN Idle
  /\ \A x \in run.extras : \A s \in Range(run.acc[Dest]) : Stem(x) # Stem(FileOf(s))

\* The base of a file's name is all that makes its stem.
LEMMA StemIsOfTheBase == ASSUME NEW x, NEW y, x[1] = y[1] PROVE Stem(x) = Stem(y)
  BY DEF Stem

LEMMA ExtrasInit == Init => ExtrasAreOfNoCase
<1>1. Idle.extras = {}
  BY DEF Idle
<1> QED
  BY <1>1 DEF Init, ExtrasAreOfNoCase

LEMMA ExtrasStep == ExtrasAreOfNoCase /\ [Next]_vars => ExtrasAreOfNoCase'
<1> SUFFICES ASSUME ExtrasAreOfNoCase, [Next]_vars PROVE ExtrasAreOfNoCase'
  OBVIOUS
<1> DEFINE fields == {"pc", "check", "rm", "filter", "acc", "dests", "todo", "existing", "extras", "changed", "clean"}
<1>0. DOMAIN Idle = fields /\ Idle.extras = {} /\ DOMAIN run = fields
  BY DEF Idle, ExtrasAreOfNoCase
<1>1. DOMAIN disk' = Dests
  BY DEF ExtrasAreOfNoCase, Next, vars, Progress, WriteRefs, WriteFile, FindExtras, RemoveExtra, NextDest, Finish,
         Crash, Edit, Generate, Rehash, Start
<1>2. ASSUME run'.extras = {}, DOMAIN run' = fields PROVE ExtrasAreOfNoCase'
  BY <1>0, <1>1, <1>2 DEF ExtrasAreOfNoCase
<1>3. ASSUME run'.extras \subseteq run.extras, run'.acc = run.acc, run'.dests = run.dests, DOMAIN run' = fields
      PROVE  ExtrasAreOfNoCase'
  BY <1>0, <1>1, <1>3 DEF ExtrasAreOfNoCase, Dest
<1>4. CASE WriteRefs \/ WriteFile \/ \E f \in Files : Edit(f)
  <2>1. run'.extras = run.extras /\ run'.acc = run.acc /\ run'.dests = run.dests /\ DOMAIN run' = fields
    BY <1>0, <1>4 DEF WriteRefs, WriteFile, Edit
  <2> QED
    BY <1>3, <2>1
<1>5. CASE FindExtras
  <2> DEFINE produced == {FileOf(s) : s \in Range(run.acc[Dest])}
  <2>1. run'.extras \subseteq Extras(run.existing, produced)
    BY <1>0, <1>5 DEF FindExtras
  <2>2. run'.acc = run.acc /\ run'.dests = run.dests /\ DOMAIN run' = fields
    BY <1>0, <1>5 DEF FindExtras
  <2>3. \A x \in Extras(run.existing, produced) : \A s \in Range(run.acc[Dest]) : Stem(x) # Stem(FileOf(s))
    BY DEF Extras
  <2> QED
    BY <1>0, <1>1, <2>1, <2>2, <2>3 DEF ExtrasAreOfNoCase, Dest
<1>6. CASE \E x \in run.extras : RemoveExtra(x)
  <2>1. run'.extras \subseteq run.extras /\ run'.acc = run.acc /\ run'.dests = run.dests /\ DOMAIN run' = fields
    BY <1>0, <1>6 DEF RemoveExtra
  <2> QED
    BY <1>3, <2>1
<1>7. CASE NextDest
  BY <1>0, <1>2, <1>7 DEF NextDest
<1>8. CASE Finish \/ Crash
  BY <1>0, <1>2, <1>8 DEF Finish, Crash
<1>9. CASE \E check, rm \in BOOLEAN, filter \in {NoFilter} \cup FilterNames : Start(check, rm, filter)
  <2>1. \/ run' = run
        \/ run'.extras = {} /\ DOMAIN run' = fields
    BY <1>0, <1>9 DEF Start
  <2> QED
    BY <1>0, <1>2, <1>3, <2>1
<1>10. CASE (\E d \in Dests : Generate(d) \/ Rehash(d)) \/ UNCHANGED vars
  <2>1. run' = run
    BY <1>10 DEF Generate, Rehash, vars
  <2> QED
    BY <1>0, <1>3, <2>1
<1> QED
  BY <1>4, <1>5, <1>6, <1>7, <1>8, <1>9, <1>10 DEF Next, Progress

\* Only RemoveExtra removes files.
LEMMA OthersRemoveNothing ==
  ASSUME ExtrasAreOfNoCase, [Next]_vars, ~\E x \in run.extras : RemoveExtra(x), NEW d \in Dests
  PROVE  DOMAIN disk[d] \subseteq DOMAIN disk'[d]
<1>0. \A dir, file, content : DOMAIN dir \subseteq DOMAIN Put(dir, file, content)
  BY DEF Put
<1>1. CASE WriteFile
  BY <1>0, <1>1 DEF WriteFile, ExtrasAreOfNoCase
<1>2. CASE Crash
  <2>1. \/ disk' = disk
        \/ \E file, content : disk' = [disk EXCEPT ![Dest] = Put(@, file, content)]
    BY <1>2 DEF Crash
  <2> QED
    BY <1>0, <2>1 DEF ExtrasAreOfNoCase
<1>3. CASE \E e \in Dests : Generate(e)
  <2>1. PICK e \in Dests : Generate(e)
    BY <1>3
  <2>2. \E drawn, dir : disk' = [disk EXCEPT ![e] = [x \in DOMAIN @ \cup drawn |-> dir[x]]]
    <3> DEFINE drawn == {x[1] : x \in {y \in DOMAIN disk[e] : y[2] = "ipmt"}} \X {GenExt}
               dir == [x \in DOMAIN disk[e] \cup drawn |->
                         IF x \in drawn THEN <<"svg of", disk[e][<<x[1], "ipmt">>]>> ELSE disk[e][x]]
    <3>1. disk' = [disk EXCEPT ![e] = dir]
      BY <2>1 DEF Generate
    <3>2. dir = [x \in DOMAIN disk[e] \cup drawn |-> dir[x]]
      OBVIOUS
    <3> HIDE DEF dir, drawn
    <3> QED
      BY <3>1, <3>2
  <2>3. PICK drawn, dir : disk' = [disk EXCEPT ![e] = [x \in DOMAIN @ \cup drawn |-> dir[x]]]
    BY <2>2
  <2> QED
    BY <2>3 DEF ExtrasAreOfNoCase
<1>4. CASE disk' = disk
  BY <1>4
<1>5. CASE WriteRefs \/ FindExtras \/ NextDest \/ Finish \/ UNCHANGED vars
  BY <1>4, <1>5 DEF WriteRefs, FindExtras, NextDest, Finish, vars
<1>6. CASE (\E f \in Files : Edit(f)) \/ \E e \in Dests : Rehash(e)
  BY <1>4, <1>6 DEF Edit, Rehash
<1>7. ASSUME NEW check, NEW rm, NEW filter, Start(check, rm, filter) PROVE disk' = disk
  BY <1>7 DEF Start
<1> QED
  BY <1>1, <1>2, <1>3, <1>4, <1>5, <1>6, <1>7 DEF Next, Progress

\* A file that --rm-extra removes has the base of no case of its destination, for every corpus, every
\* layout of the documents and every history of runs (main.go:766-805).
THEOREM RemovalsAreRight == Spec => RemovalsAreOfTheRetired
<1>1. ASSUME ExtrasAreOfNoCase, [Next]_vars, NEW d \in Dests, NEW x \in DOMAIN disk[d] \ DOMAIN disk'[d],
             NEW s \in Range(run.acc[d])
      PROVE  s.base # x[1]
  <2>1. PICK y \in run.extras : RemoveExtra(y)
    BY <1>1, OthersRemoveNothing
  <2>2. d = Dest /\ x = y
    BY <1>1, <2>1 DEF RemoveExtra, ExtrasAreOfNoCase
  <2>3. Stem(x) # Stem(FileOf(s))
    BY <1>1, <2>1, <2>2 DEF ExtrasAreOfNoCase
  <2>4. FileOf(s)[1] = s.base
    BY DEF FileOf
  <2> QED
    BY <2>3, <2>4, StemIsOfTheBase
<1>2. ExtrasAreOfNoCase /\ [Next]_vars =>
        [\A d \in Dests : \A x \in DOMAIN disk[d] \ DOMAIN disk'[d] : \A s \in Range(run.acc[d]) : s.base # x[1]]_vars
  BY <1>1
<1> QED
  BY <1>2, ExtrasInit, ExtrasStep, PTL DEF Spec, RemovalsAreOfTheRetired

-----------------------------------------------------------------------------
(* What every run keeps to. *)

Fields == {"pc", "check", "rm", "filter", "acc", "dests", "todo", "existing", "extras", "changed", "clean"}

\* A full run that writes.
Writing == run.pc # "idle" /\ ~run.check /\ run.filter = NoFilter

\* The destinations that the run has no more to do with.
Done(d) == d \notin Range(run.dests)

Shape ==
  /\ docs \in Corpora
  /\ DOMAIN refs = Dests /\ DOMAIN disk = Dests
  /\ calm \in 0 .. 2 /\ patchy \in BOOLEAN
  /\ DOMAIN run = Fields
  /\ run.pc \in {"idle", "refs", "files", "extras"}
  /\ run.check \in BOOLEAN /\ run.rm \in BOOLEAN /\ run.changed \in BOOLEAN /\ run.clean \in BOOLEAN
  /\ run.dests \in Seq(Dests)
  /\ run.pc \in {"files", "extras"} => run.dests # <<>>
  /\ ~Writing => run.extras = {}

\* Its cases are those of documents that were there when it began; they are still there when nobody
\* has edited them since.
CasesAreRead ==
  run.pc # "idle" =>
    /\ \E x \in Usable : run.acc = CasesOf(x[1], x[2]) /\ (run.filter = NoFilter => x[2] = Dests)
    /\ run.filter = NoFilter /\ run.clean => run.acc = CasesOf(docs, Dests) /\ Extract(docs, Dests).ok
    /\ calm # 0 /\ ~run.check => run.filter = NoFilter /\ run.clean

LEMMA SeqEnds ==
  ASSUME NEW S, NEW q \in Seq(S), q # <<>>
  PROVE  /\ Head(q) \in S /\ Tail(q) \in Seq(S)
         /\ Range(q) = {Head(q)} \cup Range(Tail(q))
<1>1. Head(q) \in S /\ Tail(q) \in Seq(S) /\ Len(q) \in Nat /\ Len(q) # 0
  OBVIOUS
<1>2. q[1] = Head(q) /\ Len(Tail(q)) = Len(q) - 1 /\ \A i \in 1 .. Len(q) - 1 : Tail(q)[i] = q[i + 1]
  BY <1>1
<1>3. DOMAIN q = 1 .. Len(q) /\ DOMAIN Tail(q) = 1 .. Len(q) - 1
  BY <1>1, <1>2
<1>4. ASSUME NEW x \in Range(q) PROVE x \in {Head(q)} \cup Range(Tail(q))
  <2>1. PICK i \in 1 .. Len(q) : x = q[i]
    BY <1>3, <1>4 DEF Range
  <2>2. CASE i = 1
    BY <1>2, <2>1, <2>2
  <2>3. CASE i # 1
    <3>1. i - 1 \in 1 .. Len(q) - 1 /\ Tail(q)[i - 1] = q[i]
      BY <1>1, <1>2, <2>1, <2>3
    <3> QED
      BY <1>3, <2>1, <3>1 DEF Range
  <2> QED
    BY <2>2, <2>3
<1>5. ASSUME NEW x \in {Head(q)} \cup Range(Tail(q)) PROVE x \in Range(q)
  <2>1. CASE x = Head(q)
    BY <1>1, <1>2, <1>3, <2>1 DEF Range
  <2>2. CASE x \in Range(Tail(q))
    <3>1. PICK i \in 1 .. Len(q) - 1 : x = Tail(q)[i]
      BY <1>3, <2>2 DEF Range
    <3>2. i + 1 \in 1 .. Len(q) /\ q[i + 1] = x
      BY <1>1, <1>2, <3>1
    <3> QED
      BY <1>3, <3>2 DEF Range
  <2> QED
    BY <1>5, <2>1, <2>2
<1> QED
  BY <1>1, <1>4, <1>5

LEMMA ShapeInit == Init => Shape /\ CasesAreRead
<1> SUFFICES ASSUME Init PROVE Shape /\ CasesAreRead
  OBVIOUS
<1>1. DOMAIN run = Fields /\ run.pc = "idle" /\ run.extras = {} /\ run.dests = <<>> /\ run.check = FALSE
      /\ run.rm = FALSE /\ run.changed = FALSE /\ run.clean = FALSE
  BY DEF Init, Idle, Fields
<1>2. First \in Corpora
  BY DocumentsAssumption DEF Corpora, Texts
<1>3. <<>> \in Seq(Dests)
  OBVIOUS
<1>4. docs = First /\ DOMAIN refs = Dests /\ DOMAIN disk = Dests /\ calm = 0 /\ patchy = FALSE
  BY DEF Init
<1>5. calm \in 0 .. 2
  BY <1>4
<1>6. /\ patchy \in BOOLEAN /\ run.check \in BOOLEAN /\ run.rm \in BOOLEAN
      /\ run.changed \in BOOLEAN /\ run.clean \in BOOLEAN
  BY <1>1, <1>4, Zenon
<1>7. CasesAreRead
  BY <1>1 DEF CasesAreRead
<1> QED
  BY <1>1, <1>2, <1>3, <1>4, <1>5, <1>6, <1>7, Zenon DEF Shape

\* What each action does to a run.
LEMMA ShapeStep == Shape /\ [Next]_vars => Shape'
<1> SUFFICES ASSUME Shape, [Next]_vars PROVE Shape'
  OBVIOUS
<1>0. /\ DOMAIN run = Fields /\ run.dests \in Seq(Dests)
      /\ run.dests # <<>> => Tail(run.dests) \in Seq(Dests)
  BY SeqEnds DEF Shape
<1>1. CASE WriteRefs
  BY <1>0, <1>1 DEF WriteRefs, At, Shape, Writing, Fields
<1>2. CASE WriteFile
  BY <1>0, <1>2 DEF WriteFile, At, Shape, Writing, Fields
<1>3. CASE FindExtras
  BY <1>0, <1>3 DEF FindExtras, At, Shape, Writing, Fields
<1>4. CASE \E x \in run.extras : RemoveExtra(x)
  <2>1. PICK x \in run.extras : RemoveExtra(x)
    BY <1>4
  <2> QED
    BY <1>0, <2>1 DEF RemoveExtra, At, Shape, Writing, Fields
<1>5. CASE NextDest
  BY <1>0, <1>5 DEF NextDest, At, Shape, Writing, Fields
<1>6. CASE run' = Idle /\ DOMAIN disk' = Dests /\ refs' = refs /\ docs' = docs /\ calm' \in 0 .. 2
           /\ patchy' \in BOOLEAN
  BY <1>0, <1>6 DEF Idle, Shape, Writing, Fields
<1>7. ASSUME Finish PROVE calm' \in 0 .. 2 /\ patchy' \in BOOLEAN
  <2>1. calm' = calm \/ calm' = 0 \/ (calm < 2 /\ calm' = calm + 1)
    BY <1>7, Zenon DEF Finish
  <2>2. patchy' = patchy \/ patchy' = TRUE \/ patchy' = FALSE
    BY <1>7, Zenon DEF Finish
  <2>3. calm \in 0 .. 2 /\ patchy \in BOOLEAN
    BY DEF Shape
  <2>4. calm' \in 0 .. 2
    BY <2>1, <2>3
  <2>5. patchy' \in BOOLEAN
    BY <2>2, <2>3, Zenon
  <2> QED
    BY <2>4, <2>5
<1>8. CASE Finish
  BY <1>6, <1>7, <1>8 DEF Finish, Shape
<1>9. CASE Crash
  <2>1. DOMAIN disk' = Dests
    BY <1>9 DEF Crash, Shape
  <2>2. calm' \in 0 .. 2 /\ (patchy' = patchy \/ patchy' = TRUE)
    BY <1>9 DEF Crash, Shape
  <2>3. patchy' \in BOOLEAN
    BY <2>2, Zenon DEF Shape
  <2>4. run' = Idle /\ refs' = refs /\ docs' = docs
    BY <1>9 DEF Crash
  <2> QED
    BY <1>6, <2>1, <2>2, <2>3, <2>4
<1>10. ASSUME NEW f \in Files, Edit(f) PROVE Shape'
  <2>1. docs' \in Corpora
    <3>1. PICK doc \in Versions[f] : docs' = [docs EXCEPT ![f] = doc]
      BY <1>10 DEF Edit
    <3> QED
      BY <3>1 DEF Corpora, Texts, Shape
  <2> QED
    BY <1>0, <1>10, <2>1 DEF Edit, Shape, Writing, Fields
<1>11. ASSUME NEW d \in Dests, Generate(d) PROVE Shape'
  <2>1. \E v : disk' = [disk EXCEPT ![d] = v]
    BY <1>11 DEF Generate
  <2>2. DOMAIN disk' = Dests
    BY <2>1 DEF Shape
  <2>3. run' = run /\ docs' = docs /\ refs' = refs /\ calm' = 0 /\ patchy' = patchy
    BY <1>11 DEF Generate
  <2> QED
    BY <2>2, <2>3 DEF Shape, Writing
<1>12. ASSUME NEW d \in Dests, Rehash(d) PROVE Shape'
  BY <1>0, <1>12 DEF Rehash, Shape, Writing, Fields
<1>13. ASSUME NEW check \in BOOLEAN, NEW rm \in BOOLEAN, NEW filter \in {NoFilter} \cup FilterNames,
              Start(check, rm, filter)
       PROVE  Shape'
  <2> DEFINE only == IF filter = NoFilter THEN Dests ELSE Holders(refs, filter)
             dests == IF filter = NoFilter THEN DestOrder ELSE <<CHOOSE d \in only : TRUE>>
  <2>1. CASE run' = run
    BY <1>13, <2>1 DEF Start, Shape, Writing
  <2>2. CASE run' # run
    <3>1. run' = [Idle EXCEPT !.pc = "refs", !.check = check, !.rm = rm, !.filter = filter, !.clean = TRUE,
                              !.acc = CasesOf(docs, only), !.dests = dests]
      BY <1>13, <2>2 DEF Start
    <3>2. dests \in Seq(Dests)
      <4>1. CASE filter = NoFilter
        BY <4>1, DocumentsAssumption
      <4>2. CASE filter # NoFilter
        <5>1. only \subseteq Dests /\ Cardinality(only) = 1
          BY <1>13, <4>2 DEF Start, Holders
        <5>2. only # {}
          BY <5>1, FS_EmptySet
        <5> QED
          BY <4>2, <5>1, <5>2
      <4> QED
        BY <4>1, <4>2
    <3>3. calm' \in 0 .. 2
      BY <1>13 DEF Start, Shape
    <3> HIDE DEF dests
    <3> QED
      BY <1>13, <3>1, <3>2, <3>3 DEF Start, Idle, Shape, Writing, Fields
  <2> QED
    BY <2>1, <2>2
<1>14. CASE UNCHANGED vars
  BY <1>14 DEF vars, Shape, Writing
<1> QED
  BY <1>1, <1>2, <1>3, <1>4, <1>5, <1>8, <1>9, <1>10, <1>11, <1>12, <1>13, <1>14 DEF Next, Progress

LEMMA DestsAreFinite == IsFiniteSet(Dests)
<1>1. DestOrder \in Seq(Dests) /\ DOMAIN DestOrder = 1 .. Len(DestOrder)
  BY DocumentsAssumption
<1>2. \A d \in Dests : \E n \in 1 .. Len(DestOrder) : DestOrder[n] = d
  BY <1>1 DEF Dests, Range
<1> QED
  BY <1>1, <1>2 DEF IsFiniteSet

\* A run that begins is about all destinations, or about the one that the filter finds.
LEMMA StartsInScope ==
  ASSUME Shape, NEW check, NEW rm, NEW filter, Start(check, rm, filter), run' # run
  PROVE  \E only \in Scopes :
           /\ run'.pc = "refs" /\ run'.check = check /\ run'.rm = rm /\ run'.filter = filter /\ run'.clean = TRUE
           /\ run'.acc = CasesOf(docs, only) /\ run'.changed = FALSE
           /\ filter = NoFilter => only = Dests
           /\ <<docs, only>> \in Usable
           /\ \A d \in only : d \in Range(run'.dests)
<1> DEFINE only == IF filter = NoFilter THEN Dests ELSE Holders(refs, filter)
           dests == IF filter = NoFilter THEN DestOrder ELSE <<CHOOSE d \in only : TRUE>>
<1>1. /\ run' = [Idle EXCEPT !.pc = "refs", !.check = check, !.rm = rm, !.filter = filter, !.clean = TRUE,
                              !.acc = CasesOf(docs, only), !.dests = dests]
      /\ Extract(docs, only).ok
      /\ filter # NoFilter => Cardinality(only) = 1
  BY DEF Start
<1>2. only \subseteq Dests
  BY DEF Holders
<1>3. ASSUME filter # NoFilter PROVE \E d \in Dests : only = {d} /\ dests = <<d>>
  <2>1. PICK d : only = {d}
    BY <1>1, <1>2, <1>3, DestsAreFinite, FS_Subset, FS_Singleton
  <2>2. (CHOOSE e \in {d} : TRUE) = d
    OBVIOUS
  <2> QED
    BY <1>2, <1>3, <2>1, <2>2
<1>4. only \in Scopes
  BY <1>3 DEF Scopes
<1>5. <<docs, only>> \in Usable
  BY <1>1, <1>4 DEF Usable, Shape
<1>6. run'.dests = dests
  BY <1>1 DEF Idle
<1>7. \A d \in only : d \in Range(dests)
  <2>1. CASE filter = NoFilter
    BY <2>1 DEF Dests
  <2>2. CASE filter # NoFilter
    <3>1. PICK d \in Dests : only = {d} /\ dests = <<d>>
      BY <1>3, <2>2
    <3>2. d \in Range(<<d>>)
      <4>1. 1 \in DOMAIN <<d>> /\ <<d>>[1] = d
        OBVIOUS
      <4> QED
        BY <4>1 DEF Range
    <3> QED
      BY <3>1, <3>2
  <2> QED
    BY <2>1, <2>2
<1> HIDE DEF only, dests
<1>8. filter = NoFilter => only = Dests
  BY DEF only
<1>9. /\ run'.pc = "refs" /\ run'.check = check /\ run'.rm = rm /\ run'.filter = filter /\ run'.clean = TRUE
      /\ run'.acc = CasesOf(docs, only) /\ run'.changed = FALSE
  BY <1>1 DEF Idle
<1> QED
  BY <1>4, <1>5, <1>6, <1>7, <1>8, <1>9

LEMMA CasesStep == Shape /\ CasesAreRead /\ [Next]_vars => CasesAreRead'
<1> SUFFICES ASSUME Shape, CasesAreRead, [Next]_vars PROVE CasesAreRead'
  OBVIOUS
<1>0. DOMAIN run = Fields
  BY DEF Shape
<1>1. ASSUME run.pc # "idle", run'.acc = run.acc, run'.filter = run.filter, run'.check = run.check, run'.clean = run.clean,
             calm' = calm, docs' = docs
      PROVE  CasesAreRead'
  BY <1>1 DEF CasesAreRead
<1>2. CASE WriteRefs
  BY <1>0, <1>1, <1>2 DEF WriteRefs, At, Fields
<1>3. CASE WriteFile
  BY <1>0, <1>1, <1>3 DEF WriteFile, At, Fields
<1>4. CASE FindExtras
  BY <1>0, <1>1, <1>4 DEF FindExtras, At, Fields
<1>5. CASE \E x \in run.extras : RemoveExtra(x)
  BY <1>0, <1>1, <1>5 DEF RemoveExtra, At, Fields
<1>6. CASE NextDest
  BY <1>0, <1>1, <1>6 DEF NextDest, At, Fields
<1>7. CASE Finish \/ Crash
  <2>1. run'.pc = "idle"
    BY <1>7 DEF Finish, Crash, Idle
  <2> QED
    BY <2>1 DEF CasesAreRead
<1>8. ASSUME NEW f \in Files, Edit(f) PROVE CasesAreRead'
  <2>1. run'.pc = run.pc /\ run'.acc = run.acc /\ run'.filter = run.filter /\ run'.clean = FALSE /\ calm' = 0
    BY <1>0, <1>8 DEF Edit, Fields
  <2> QED
    BY <2>1 DEF CasesAreRead
<1>9. CASE (\E d \in Dests : Generate(d) \/ Rehash(d))
  <2>1. run'.pc = "idle"
    BY <1>9 DEF Generate, Rehash
  <2> QED
    BY <2>1 DEF CasesAreRead
<1>10. ASSUME NEW check \in BOOLEAN, NEW rm \in BOOLEAN, NEW filter \in {NoFilter} \cup FilterNames,
              Start(check, rm, filter)
       PROVE  CasesAreRead'
  <2>1. CASE run' = run
    <3>1. run'.pc = "idle"
      BY <1>10, <2>1 DEF Start
    <3> QED
      BY <3>1 DEF CasesAreRead
  <2>2. CASE run' # run
    <3>0. PICK only \in Scopes :
             /\ run'.acc = CasesOf(docs, only) /\ run'.filter = filter /\ run'.check = check /\ run'.clean = TRUE
             /\ filter = NoFilter => only = Dests
             /\ <<docs, only>> \in Usable
      BY <1>10, <2>2, StartsInScope
    <3>1. run'.acc = CasesOf(docs, only) /\ run'.filter = filter /\ run'.check = check /\ run'.clean = TRUE
      BY <3>0
    <3>2. docs' = docs /\ (filter # NoFilter /\ ~check => calm' = 0 \/ ~Extract(docs, Holders(refs, filter)).ok)
      BY <1>10 DEF Start
    <3>3. filter # NoFilter /\ ~check => calm' = 0
      <4>1. ~Extract(docs, Holders(refs, filter)).ok /\ filter # NoFilter => run' = run
        BY <1>10 DEF Start
      <4> QED
        BY <2>2, <3>2, <4>1
    <3>4. Extract(docs, only).ok
      BY <3>0 DEF Usable
    <3>5. run'.acc = CasesOf(<<docs, only>>[1], <<docs, only>>[2])
      BY <3>1
    <3> QED
      BY <3>0, <3>1, <3>2, <3>3, <3>4, <3>5 DEF CasesAreRead
  <2> QED
    BY <2>1, <2>2
<1>11. CASE UNCHANGED vars
  BY <1>11 DEF vars, CasesAreRead
<1> QED
  BY <1>2, <1>3, <1>4, <1>5, <1>6, <1>7, <1>8, <1>9, <1>10, <1>11 DEF Next, Progress

\* The cases of a run under way.
LEMMA CasesAreClear ==
  ASSUME NamesAreDistinct, Shape, CasesAreRead, run.pc # "idle", NEW d \in Dests
  PROVE  /\ run.acc[d] \in Seq(Range(run.acc[d]))
         /\ \A s, t \in Range(run.acc[d]) : FileOf(s) = FileOf(t) => s = t
         /\ \A s \in Range(run.acc[d]) : s.ext # GenExt
<1>1. PICK x \in Usable : run.acc = CasesOf(x[1], x[2])
  BY DEF CasesAreRead
<1> QED
  BY <1>1 DEF NamesAreDistinct

-----------------------------------------------------------------------------
(* What a full run that writes has done so far. *)

InPlace(d, s) == FileOf(s) \in DOMAIN disk[d] /\ disk[d][FileOf(s)] = s.content
Own(d) == {FileOf(s) : s \in Range(run.acc[d])}

\* The files of the destinations behind it, and of the one at hand as far as it has come.
FilesAreWritten ==
  Writing =>
    /\ \A d \in Dests : Done(d) => \A s \in Range(run.acc[d]) : InPlace(d, s)
    /\ run.pc = "files" => /\ run.todo \in Seq(Range(run.acc[Dest]))
                           /\ \A s \in Range(run.acc[Dest]) \ Range(run.todo) : InPlace(Dest, s)
    /\ run.pc = "extras" => \A s \in Range(run.acc[Dest]) : InPlace(Dest, s)

\* What is left over is what was left over before the writes, and --rm-extra removes all of it.
ExtrasAreKnown ==
  Writing =>
    /\ run.pc = "files" => Extras(run.existing, Own(Dest)) = Extras(DOMAIN disk[Dest], Own(Dest))
    /\ run.pc = "extras" => run.extras \subseteq Extras(DOMAIN disk[Dest], Own(Dest))
    /\ run.pc = "extras" /\ run.rm => run.extras = Extras(DOMAIN disk[Dest], Own(Dest))
    /\ run.rm => \A d \in Dests : Done(d) => Extras(DOMAIN disk[d], Own(d)) = {}

LEMMA HereIsADest == ASSUME Shape, run.dests # <<>> PROVE Dest \in Dests /\ Dest \in Range(run.dests)
  BY SeqEnds DEF Shape, Dest

LEMMA EmptyRange == Range(<<>>) = {}
  BY DEF Range

\* A step that writes or removes one file of the destination at hand.
LEMMA FileIsWritten ==
  ASSUME NamesAreDistinct, Shape, CasesAreRead, FilesAreWritten, Writing, WriteFile
  PROVE  LET s == Head(run.todo) IN
         /\ s \in Range(run.acc[Dest]) /\ run'.todo \in Seq(Range(run.acc[Dest]))
         /\ Range(run.todo) = {s} \cup Range(run'.todo)
         /\ FileOf(s) \in DOMAIN disk'[Dest] /\ disk'[Dest][FileOf(s)] = s.content
         /\ \A t \in Range(run.acc[Dest]) : InPlace(Dest, t) =>
              FileOf(t) \in DOMAIN disk'[Dest] /\ disk'[Dest][FileOf(t)] = t.content
         /\ DOMAIN disk'[Dest] = DOMAIN disk[Dest] \cup {FileOf(s)}
         /\ \A d \in Dests : d # Dest => disk'[d] = disk[d]
         /\ InPlace(Dest, s) => disk' = disk
<1> DEFINE s == Head(run.todo)
           put == Put(disk[Dest], FileOf(s), s.content)
<1>1. Dest \in Dests /\ run.pc = "files" /\ run.todo # <<>>
  BY HereIsADest DEF WriteFile, At
<1>2. run.todo \in Seq(Range(run.acc[Dest])) /\ run'.todo = Tail(run.todo)
  BY <1>1 DEF FilesAreWritten, WriteFile, Shape, Fields
<1>3. s \in Range(run.acc[Dest]) /\ Tail(run.todo) \in Seq(Range(run.acc[Dest]))
      /\ Range(run.todo) = {s} \cup Range(Tail(run.todo))
  BY <1>1, <1>2, SeqEnds
<1>4. IF InPlace(Dest, s) THEN disk' = disk ELSE disk' = [disk EXCEPT ![Dest] = put]
  BY <1>1 DEF WriteFile, Writing, InPlace
<1>5. /\ DOMAIN put = DOMAIN disk[Dest] \cup {FileOf(s)} /\ put[FileOf(s)] = s.content
      /\ \A x \in DOMAIN disk[Dest] : x # FileOf(s) => put[x] = disk[Dest][x]
  BY DEF Put
<1>6. \A t \in Range(run.acc[Dest]) : FileOf(t) = FileOf(s) => t = s
  BY <1>1, <1>3, CasesAreClear DEF Writing
<1>7. DOMAIN disk = Dests
  BY DEF Shape
<1> HIDE DEF s, put
<1>8. CASE InPlace(Dest, s)
  BY <1>2, <1>3, <1>4, <1>8 DEF InPlace, s
<1>9. CASE ~InPlace(Dest, s)
  <2>1. disk'[Dest] = put /\ \A d \in Dests : d # Dest => disk'[d] = disk[d]
    BY <1>1, <1>4, <1>7, <1>9
  <2>2. \A t \in Range(run.acc[Dest]) : InPlace(Dest, t) => FileOf(t) \in DOMAIN put /\ put[FileOf(t)] = t.content
    BY <1>5, <1>6 DEF InPlace
  <2> QED
    BY <1>2, <1>3, <1>5, <1>9, <2>1, <2>2 DEF s
<1> QED
  BY <1>8, <1>9

LEMMA ExtraIsRemoved ==
  ASSUME Shape, ExtrasAreKnown, NEW x \in run.extras, RemoveExtra(x)
  PROVE  /\ Writing /\ Dest \in Dests
         /\ x \in Extras(DOMAIN disk[Dest], Own(Dest))
         /\ disk'[Dest] = [y \in DOMAIN disk[Dest] \ {x} |-> disk[Dest][y]]
         /\ \A d \in Dests : d # Dest => disk'[d] = disk[d]
         /\ run'.extras = run.extras \ {x}
<1>1. Writing /\ run.pc = "extras" /\ run.dests # <<>>
  BY DEF Shape, RemoveExtra, At
<1>2. Dest \in Dests
  BY <1>1, HereIsADest
<1> QED
  BY <1>1, <1>2 DEF Shape, RemoveExtra, ExtrasAreKnown, Fields

\* The steps that make no difference to a full run that writes: it ends, it begins, or it is not there.
Aside ==
  \/ ~Writing'
  \/ run'.pc = "refs" /\ \A d \in Dests : d \in Range(run'.dests)
  \/ /\ Writing /\ disk' = disk /\ run'.pc = run.pc /\ run'.rm = run.rm /\ run'.acc = run.acc /\ run'.dests = run.dests
     /\ run'.todo = run.todo /\ run'.existing = run.existing /\ run'.extras = run.extras /\ refs' = refs

LEMMA StepsOfARun ==
  ASSUME Shape, [Next]_vars
  PROVE  Aside \/ WriteRefs \/ WriteFile \/ FindExtras \/ (\E x \in run.extras : RemoveExtra(x)) \/ NextDest
<1>0. DOMAIN run = Fields
  BY DEF Shape
<1>1. CASE Finish \/ Crash
  BY <1>1 DEF Finish, Crash, Idle, Aside, Writing
<1>2. CASE \E f \in Files : Edit(f)
  BY <1>0, <1>2 DEF Edit, Aside, Writing, Fields
<1>3. CASE \E d \in Dests : Generate(d) \/ Rehash(d)
  BY <1>3 DEF Generate, Rehash, Aside, Writing
<1>4. ASSUME NEW check \in BOOLEAN, NEW rm \in BOOLEAN, NEW filter \in {NoFilter} \cup FilterNames,
             Start(check, rm, filter)
      PROVE  Aside
  <2>1. CASE run' = run
    BY <1>4, <2>1 DEF Start, Aside, Writing
  <2>2. CASE run' # run
    <3>1. PICK only \in Scopes :
             /\ run'.pc = "refs" /\ run'.filter = filter
             /\ filter = NoFilter => only = Dests
             /\ \A d \in only : d \in Range(run'.dests)
      BY <1>4, <2>2, StartsInScope
    <3> QED
      BY <3>1 DEF Aside, Writing
  <2> QED
    BY <2>1, <2>2
<1>5. CASE UNCHANGED vars
  BY <1>5 DEF vars, Aside, Writing
<1> QED
  BY <1>1, <1>2, <1>3, <1>4, <1>5 DEF Next, Progress

LEMMA FilesStep ==
  NamesAreDistinct /\ Shape /\ CasesAreRead /\ FilesAreWritten /\ ExtrasAreKnown /\ [Next]_vars => FilesAreWritten'
<1> SUFFICES ASSUME NamesAreDistinct, Shape, CasesAreRead, FilesAreWritten, ExtrasAreKnown, [Next]_vars, Writing'
             PROVE  FilesAreWritten'
  BY DEF FilesAreWritten
<1>0. DOMAIN run = Fields
  BY DEF Shape
<1>1. CASE Aside
  BY <1>1 DEF Aside, FilesAreWritten, InPlace, Done, Dest
<1>2. CASE WriteRefs
  <2>1. /\ Writing /\ run.dests # <<>> /\ disk' = disk /\ run'.acc = run.acc /\ run'.dests = run.dests
        /\ run'.pc = "files" /\ run'.todo = run.acc[Dest]
    BY <1>0, <1>2 DEF WriteRefs, At, Writing, Fields
  <2>2. run'.todo \in Seq(Range(run.acc[Dest]))
    BY <2>1, HereIsADest, CasesAreClear DEF Writing
  <2> QED
    BY <2>1, <2>2 DEF FilesAreWritten, InPlace, Done, Dest
<1>3. CASE WriteFile
  <2>1. Writing /\ run.pc = "files" /\ run'.pc = "files" /\ run'.acc = run.acc /\ run'.dests = run.dests
        /\ run.dests # <<>>
    BY <1>0, <1>3 DEF WriteFile, At, Writing, Fields
  <2>2. Dest \in Dests /\ Dest \in Range(run.dests)
    BY <2>1, HereIsADest
  <2>3. \A d \in Dests : Done(d)' => d # Dest /\ disk'[d] = disk[d] /\ Done(d)
    BY <1>3, <2>1, <2>2, FileIsWritten DEF Done
  <2>4. /\ run'.todo \in Seq(Range(run.acc[Dest]))
        /\ \A t \in Range(run.acc[Dest]) \ Range(run'.todo) :
             FileOf(t) \in DOMAIN disk'[Dest] /\ disk'[Dest][FileOf(t)] = t.content
    BY <1>3, <2>1, FileIsWritten DEF FilesAreWritten
  <2> QED
    BY <2>1, <2>3, <2>4 DEF FilesAreWritten, InPlace, Dest
<1>4. CASE FindExtras
  <2>1. Writing /\ run.pc = "files" /\ run'.pc = "extras" /\ run'.acc = run.acc /\ run'.dests = run.dests
        /\ disk' = disk /\ run.todo = <<>>
    BY <1>0, <1>4 DEF FindExtras, At, Writing, Fields
  <2> QED
    BY <2>1, EmptyRange DEF FilesAreWritten, InPlace, Done, Dest
<1>5. CASE \E x \in run.extras : RemoveExtra(x)
  <2>1. PICK x \in run.extras : RemoveExtra(x)
    BY <1>5
  <2>2. /\ Writing /\ Dest \in Dests /\ x \in Extras(DOMAIN disk[Dest], Own(Dest))
        /\ disk'[Dest] = [y \in DOMAIN disk[Dest] \ {x} |-> disk[Dest][y]]
        /\ \A d \in Dests : d # Dest => disk'[d] = disk[d]
    BY <2>1, ExtraIsRemoved
  <2>3. run.pc = "extras" /\ run'.pc = "extras" /\ run'.acc = run.acc /\ run'.dests = run.dests /\ run.dests # <<>>
    BY <1>0, <2>1 DEF RemoveExtra, At, Fields
  <2>4. Dest \in Range(run.dests)
    BY <2>3, HereIsADest
  <2>5. \A s \in Range(run.acc[Dest]) : FileOf(s) # x
    BY <2>2 DEF Extras, Own
  <2>6. \A s \in Range(run.acc[Dest]) : FileOf(s) \in DOMAIN disk'[Dest] /\ disk'[Dest][FileOf(s)] = s.content
    BY <2>2, <2>3, <2>5 DEF FilesAreWritten, InPlace
  <2>7. \A d \in Dests : Done(d)' => d # Dest /\ disk'[d] = disk[d] /\ Done(d)
    BY <2>2, <2>3, <2>4 DEF Done
  <2>8. \A d \in Dests : Done(d)' => \A s \in Range(run.acc[d]) : InPlace(d, s)'
    BY <2>2, <2>7 DEF FilesAreWritten, InPlace
  <2> QED
    BY <2>3, <2>6, <2>8 DEF FilesAreWritten, InPlace, Dest
<1>6. CASE NextDest
  <2>1. Writing /\ run.pc = "extras" /\ run'.pc = "refs" /\ run'.acc = run.acc /\ run'.dests = Tail(run.dests)
        /\ disk' = disk /\ run.dests # <<>>
    BY <1>0, <1>6 DEF NextDest, At, Writing, Fields
  <2>2. \A d \in Dests : Done(d)' => Done(d) \/ d = Dest
    BY <2>1, SeqEnds DEF Shape, Done, Dest
  <2> QED
    BY <2>1, <2>2 DEF FilesAreWritten, InPlace
<1> QED
  BY <1>1, <1>2, <1>3, <1>4, <1>5, <1>6, StepsOfARun

LEMMA ExtrasKnownStep ==
  NamesAreDistinct /\ Shape /\ CasesAreRead /\ FilesAreWritten /\ ExtrasAreKnown /\ [Next]_vars => ExtrasAreKnown'
<1> SUFFICES ASSUME NamesAreDistinct, Shape, CasesAreRead, FilesAreWritten, ExtrasAreKnown, [Next]_vars, Writing'
             PROVE  ExtrasAreKnown'
  BY DEF ExtrasAreKnown
<1>0. DOMAIN run = Fields
  BY DEF Shape
<1>1. CASE Aside
  BY <1>1 DEF Aside, ExtrasAreKnown, Own, Done, Dest
<1>2. CASE WriteRefs
  <2>1. /\ Writing /\ run.dests # <<>> /\ disk' = disk /\ run'.acc = run.acc /\ run'.dests = run.dests
        /\ run'.pc = "files" /\ run'.existing = DOMAIN disk[Dest] /\ run'.rm = run.rm
    BY <1>0, <1>2 DEF WriteRefs, At, Writing, Fields
  <2> QED
    BY <2>1 DEF ExtrasAreKnown, Own, Done, Dest
<1>3. CASE WriteFile
  <2>1. Writing /\ run.pc = "files" /\ run'.pc = "files" /\ run'.acc = run.acc /\ run'.dests = run.dests
        /\ run.dests # <<>> /\ run'.existing = run.existing /\ run'.rm = run.rm
    BY <1>0, <1>3 DEF WriteFile, At, Writing, Fields
  <2>2. Dest \in Dests /\ Dest \in Range(run.dests)
    BY <2>1, HereIsADest
  <2>3. \A d \in Dests : Done(d)' => disk'[d] = disk[d] /\ Done(d)
    BY <1>3, <2>1, <2>2, FileIsWritten DEF Done
  <2>4. PICK s \in Range(run.acc[Dest]) : DOMAIN disk'[Dest] = DOMAIN disk[Dest] \cup {FileOf(s)}
    BY <1>3, <2>1, FileIsWritten
  <2>5. Extras(DOMAIN disk'[Dest], Own(Dest)) = Extras(DOMAIN disk[Dest], Own(Dest))
    BY <2>4 DEF Extras, Own
  <2> QED
    BY <2>1, <2>3, <2>5 DEF ExtrasAreKnown, Own, Dest
<1>4. CASE FindExtras
  <2>1. Writing /\ run.pc = "files" /\ run'.pc = "extras" /\ run'.acc = run.acc /\ run'.dests = run.dests
        /\ disk' = disk /\ run'.rm = run.rm
        /\ run'.extras = IF run.rm THEN Extras(run.existing, Own(Dest)) ELSE {}
    BY <1>0, <1>4 DEF FindExtras, At, Writing, Fields, Own
  <2> QED
    BY <2>1 DEF ExtrasAreKnown, Own, Done, Dest
<1>5. CASE \E x \in run.extras : RemoveExtra(x)
  <2>1. PICK x \in run.extras : RemoveExtra(x)
    BY <1>5
  <2>2. /\ Writing /\ Dest \in Dests /\ run'.extras = run.extras \ {x}
        /\ disk'[Dest] = [y \in DOMAIN disk[Dest] \ {x} |-> disk[Dest][y]]
        /\ \A d \in Dests : d # Dest => disk'[d] = disk[d]
    BY <2>1, ExtraIsRemoved
  <2>3. run.pc = "extras" /\ run'.pc = "extras" /\ run'.acc = run.acc /\ run'.dests = run.dests /\ run.dests # <<>>
        /\ run'.rm = run.rm
    BY <1>0, <2>1 DEF RemoveExtra, At, Fields
  <2>4. Dest \in Range(run.dests)
    BY <2>3, HereIsADest
  <2>5. DOMAIN disk'[Dest] = DOMAIN disk[Dest] \ {x}
    BY <2>2
  <2>6. Extras(DOMAIN disk'[Dest], Own(Dest)) = Extras(DOMAIN disk[Dest], Own(Dest)) \ {x}
    BY <2>5 DEF Extras
  <2>7. \A d \in Dests : Done(d)' => disk'[d] = disk[d] /\ Done(d)
    BY <2>2, <2>3, <2>4 DEF Done
  <2> QED
    BY <2>2, <2>3, <2>6, <2>7 DEF ExtrasAreKnown, Own, Dest
<1>6. CASE NextDest
  <2>1. Writing /\ run.pc = "extras" /\ run'.pc = "refs" /\ run'.acc = run.acc /\ run'.dests = Tail(run.dests)
        /\ disk' = disk /\ run.dests # <<>> /\ run'.rm = run.rm /\ run.extras = {}
    BY <1>0, <1>6 DEF NextDest, At, Writing, Fields
  <2>2. \A d \in Dests : Done(d)' => Done(d) \/ d = Dest
    BY <2>1, SeqEnds DEF Shape, Done, Dest
  <2> QED
    BY <2>1, <2>2 DEF ExtrasAreKnown, Own
<1> QED
  BY <1>1, <1>2, <1>3, <1>4, <1>5, <1>6, StepsOfARun

-----------------------------------------------------------------------------
(* Two runs settle a directory. *)

\* A directory with the files of these cases and with no others' but theirs.
IsOf(dir, cases) ==
  /\ \A s \in Range(cases) : FileOf(s) \in DOMAIN dir /\ dir[FileOf(s)] = s.content
  /\ Extras(DOMAIN dir, {FileOf(s) : s \in Range(cases)}) = {}

\* After one run the files are those of the documents; the next one, if it comes to its end as well,
\* changes no file, and so records what it leaves.
RunsSettle ==
  /\ calm # 0 => /\ Extract(docs, Dests).ok
                 /\ \A d \in Dests : IsOf(disk[d], CasesOf(docs, Dests)[d])
  /\ calm # 0 /\ Writing =>
       \A d \in Dests : Done(d) \/ (run.pc \in {"files", "extras"} /\ d = Dest) =>
         refs[d] = BuildRefs(run.acc[d], docs, disk[d])
  /\ calm = 2 => \A d \in Dests : refs[d] = BuildRefs(CasesOf(docs, Dests)[d], docs, disk[d])

\* While it lasts, no file changes.
LEMMA CalmIsStill ==
  ASSUME NamesAreDistinct, Shape, CasesAreRead, FilesAreWritten, ExtrasAreKnown, RunsSettle, [Next]_vars, calm' # 0
  PROVE  disk' = disk /\ docs' = docs /\ (calm # 0 \/ Finish)
<1>0. DOMAIN run = Fields
  BY DEF Shape
<1>1. CASE Finish
  BY <1>1 DEF Finish
<1>2. CASE Crash
  BY <1>2 DEF Crash
<1>3. CASE WriteRefs \/ FindExtras \/ NextDest
  BY <1>3 DEF WriteRefs, FindExtras, NextDest
<1>4. CASE WriteFile
  <2>1. calm # 0 /\ docs' = docs /\ run.pc = "files" /\ run.dests # <<>>
    BY <1>4 DEF WriteFile, At
  <2>2. CASE run.check
    BY <1>4, <2>1, <2>2 DEF WriteFile
  <2>3. CASE ~run.check
    <3>1. Writing /\ run.acc = CasesOf(docs, Dests)
      BY <2>1, <2>3 DEF CasesAreRead, Writing
    <3>2. Head(run.todo) \in Range(run.acc[Dest]) /\ (InPlace(Dest, Head(run.todo)) => disk' = disk)
      BY <1>4, <3>1, FileIsWritten
    <3>3. InPlace(Dest, Head(run.todo))
      BY <2>1, <3>1, <3>2, HereIsADest DEF RunsSettle, IsOf, InPlace
    <3> QED
      BY <2>1, <3>2, <3>3
  <2> QED
    BY <2>2, <2>3
<1>5. CASE \E x \in run.extras : RemoveExtra(x)
  <2>1. PICK x \in run.extras : RemoveExtra(x)
    BY <1>5
  <2>2. Writing /\ Dest \in Dests /\ x \in Extras(DOMAIN disk[Dest], Own(Dest))
    BY <2>1, ExtraIsRemoved
  <2>3. calm # 0 /\ run.acc = CasesOf(docs, Dests)
    BY <2>1, <2>2 DEF RemoveExtra, CasesAreRead, Writing
  <2>4. Extras(DOMAIN disk[Dest], Own(Dest)) = {}
    BY <2>2, <2>3 DEF RunsSettle, IsOf, Own
  <2> QED
    BY <2>2, <2>4
<1>6. CASE \E f \in Files : Edit(f)
  BY <1>6 DEF Edit
<1>7. CASE \E d \in Dests : Generate(d)
  BY <1>7 DEF Generate
<1>8. CASE \E d \in Dests : Rehash(d)
  BY <1>8 DEF Rehash
<1>9. ASSUME NEW check, NEW rm, NEW filter, Start(check, rm, filter) PROVE disk' = disk /\ docs' = docs /\ calm # 0
  BY <1>9 DEF Start
<1>10. CASE UNCHANGED vars
  BY <1>10 DEF vars
<1> QED
  BY <1>1, <1>2, <1>3, <1>4, <1>5, <1>6, <1>7, <1>8, <1>9, <1>10 DEF Next, Progress

\* What a run that ends among calm ones has done.
LEMMA RunEnds ==
  ASSUME Shape, CasesAreRead, FilesAreWritten, ExtrasAreKnown, RunsSettle, Finish, calm' # calm, calm' # 0
  PROVE  /\ Extract(docs, Dests).ok /\ calm' = calm + 1
         /\ \A d \in Dests : IsOf(disk[d], CasesOf(docs, Dests)[d])
         /\ calm # 0 => \A d \in Dests : refs[d] = BuildRefs(CasesOf(docs, Dests)[d], docs, disk[d])
<1>1. Writing /\ run.rm /\ run.clean /\ calm' = calm + 1 /\ run.dests = <<>>
  BY DEF Finish, Writing
<1>2. run.acc = CasesOf(docs, Dests) /\ Extract(docs, Dests).ok
  BY <1>1 DEF CasesAreRead, Writing
<1>3. \A d \in Dests : Done(d)
  BY <1>1, EmptyRange DEF Done
<1> QED
  BY <1>1, <1>2, <1>3 DEF FilesAreWritten, ExtrasAreKnown, RunsSettle, IsOf, InPlace, Own

LEMMA SettleStep ==
  NamesAreDistinct /\ Shape /\ CasesAreRead /\ FilesAreWritten /\ ExtrasAreKnown /\ RunsSettle /\ [Next]_vars
    => RunsSettle'
<1> SUFFICES ASSUME NamesAreDistinct, Shape, CasesAreRead, FilesAreWritten, ExtrasAreKnown, RunsSettle, [Next]_vars,
                    calm' # 0
             PROVE  RunsSettle'
  <2>1. ASSUME calm' = 0 PROVE RunsSettle'
    <3>1. ~(calm' # 0) /\ ~(calm' = 2)
      BY <2>1
    <3> QED
      BY <3>1, Zenon DEF RunsSettle
  <2> QED
    BY <2>1
<1> DEFINE now == CasesOf(docs, Dests)
<1>0. disk' = disk /\ docs' = docs /\ (calm # 0 \/ Finish) /\ now' = now
  BY CalmIsStill
<1>1. CASE Finish /\ calm' # calm
  <2>1. ~Writing'
    BY <1>1 DEF Finish, Idle, Writing
  <2>2. calm' = calm + 1 /\ calm \in 0 .. 2
    BY <1>1, RunEnds DEF Shape
  <2>3. refs' = refs
    BY <1>1 DEF Finish
  <2>4. calm' = 2 => calm # 0
    BY <2>2
  <2>5. /\ Extract(docs, Dests).ok
        /\ \A d \in Dests : IsOf(disk[d], now[d])
        /\ calm # 0 => \A d \in Dests : refs[d] = BuildRefs(now[d], docs, disk[d])
    BY <1>1, RunEnds
  <2> HIDE DEF now
  <2>6. calm' = 2 => \A d \in Dests : refs'[d] = BuildRefs(now[d], docs, disk[d])
    BY <2>3, <2>4, <2>5
  <2> QED
    BY <1>0, <2>1, <2>5, <2>6 DEF RunsSettle, now
<1>2. CASE ~(Finish /\ calm' # calm)
  <2>1. calm # 0
    BY <1>0, <1>2
  <2>2. /\ Extract(docs, Dests).ok
        /\ \A d \in Dests : IsOf(disk[d], now[d])
    BY <2>1 DEF RunsSettle
  <2>3. ASSUME Writing'
        PROVE  \A d \in Dests : Done(d)' \/ (run'.pc \in {"files", "extras"} /\ d = Dest') =>
                 refs'[d] = BuildRefs(run'.acc[d], docs, disk[d])
    <3>0. DOMAIN run = Fields /\ DOMAIN refs = Dests
      BY DEF Shape
    <3>1. CASE Aside
      BY <1>0, <2>1, <2>3, <3>1 DEF Aside, RunsSettle, Done, Dest
    <3>2. CASE WriteRefs
      <4>1. /\ Writing /\ run.dests # <<>> /\ run.pc = "refs" /\ run'.acc = run.acc /\ run'.dests = run.dests
        BY <2>3, <3>0, <3>2 DEF WriteRefs, At, Writing, Fields
      <4>2. Dest \in Dests
        BY <4>1, HereIsADest
      <4>3. \/ refs' = [refs EXCEPT ![Dest] = BuildRefs(run.acc[Dest], docs, disk[Dest])]
            \/ refs' = refs /\ refs[Dest] = BuildRefs(run.acc[Dest], docs, disk[Dest])
        BY <3>2, <4>1 DEF WriteRefs, RefsEqual, Writing
      <4>4. \A d \in Dests : refs'[d] = IF d = Dest THEN BuildRefs(run.acc[d], docs, disk[d]) ELSE refs[d]
        BY <3>0, <4>2, <4>3
      <4> HIDE <4>3
      <4> QED
        BY <2>1, <4>1, <4>4 DEF RunsSettle, Done, Dest
    <3>3. CASE WriteFile \/ FindExtras \/ \E x \in run.extras : RemoveExtra(x)
      <4>1. /\ Writing /\ run.pc \in {"files", "extras"} /\ run'.acc = run.acc /\ run'.dests = run.dests /\ refs' = refs
        BY <2>3, <3>0, <3>3 DEF WriteFile, FindExtras, RemoveExtra, At, Writing, Fields
      <4> QED
        BY <2>1, <4>1 DEF RunsSettle, Done, Dest
    <3>4. CASE NextDest
      <4>1. /\ Writing /\ run.pc = "extras" /\ run'.pc = "refs" /\ run'.acc = run.acc /\ run'.dests = Tail(run.dests)
            /\ refs' = refs /\ run.dests # <<>>
        BY <2>3, <3>0, <3>4 DEF NextDest, At, Writing, Fields
      <4>2. \A d \in Dests : Done(d)' => Done(d) \/ d = Dest
        BY <4>1, SeqEnds DEF Shape, Done, Dest
      <4> QED
        BY <2>1, <4>1, <4>2 DEF RunsSettle
    <3> QED
      BY <3>1, <3>2, <3>3, <3>4, StepsOfARun
  <2>4. ASSUME calm' = 2 PROVE \A d \in Dests : refs'[d] = BuildRefs(now[d], docs, disk[d])
    <3>1. calm = 2 /\ \A d \in Dests : refs[d] = BuildRefs(now[d], docs, disk[d])
      <4>1. calm' = calm \/ \E d \in Dests : Rehash(d) /\ calm' = IF calm = 2 THEN 1 ELSE calm
        BY <1>2, <2>4 DEF Next, Progress, vars, WriteRefs, WriteFile, FindExtras, RemoveExtra, NextDest, Crash, Edit, Generate,
             Rehash, Start
      <4> QED
        BY <2>4, <4>1 DEF RunsSettle
    <3>2. CASE WriteRefs
      <4>1. run.pc = "refs" /\ run.dests # <<>>
        BY <3>2 DEF WriteRefs, At
      <4>2. ~run.check => run.acc = now
        BY <2>1, <4>1 DEF CasesAreRead
      <4>3. Dest \in Dests
        BY <4>1, HereIsADest
      <4>4. refs' = refs
        BY <3>1, <3>2, <4>2, <4>3 DEF WriteRefs, RefsEqual
      <4> QED
        BY <3>1, <4>4
    <3>3. CASE ~WriteRefs
      <4>1. refs' = refs
        <5>1. \A d \in Dests : Rehash(d) => calm' = 1
          BY <3>1 DEF Rehash
        <5> QED
          <6>1. ASSUME NEW d \in Dests, Rehash(d) PROVE FALSE
            BY <2>4, <5>1, <6>1
          <6>2. (\E x \in run.extras : RemoveExtra(x)) => refs' = refs
            BY DEF RemoveExtra
          <6>3. WriteFile \/ FindExtras \/ NextDest \/ Finish \/ Crash \/ UNCHANGED vars => refs' = refs
            BY DEF WriteFile, FindExtras, NextDest, Finish, Crash, vars
          <6>4. (\E f \in Files : Edit(f)) \/ (\E d \in Dests : Generate(d)) => refs' = refs
            BY DEF Edit, Generate
          <6>5. ASSUME NEW check, NEW rm, NEW filter, Start(check, rm, filter) PROVE refs' = refs
            BY <6>5 DEF Start
          <6> QED
            BY <3>3, <6>1, <6>2, <6>3, <6>4, <6>5 DEF Next, Progress
      <4> QED
        BY <3>1, <4>1
    <3> QED
      BY <3>2, <3>3
  <2> HIDE DEF now
  <2> QED
    BY <1>0, <2>2, <2>3, <2>4 DEF RunsSettle, now
<1> QED
  BY <1>1, <1>2

LEMMA ItemsAreOfTheCases ==
  ASSUME NEW snips, NEW texts, NEW dir
  PROVE  Items(BuildRefs(snips, texts, dir)) = {Item(s, dir) : s \in Range(snips)}
<1> DEFINE sources == {s.file : s \in Range(snips)}
           of(f) == {Item(s, dir) : s \in {t \in Range(snips) : t.file = f}}
           fresh == [f \in sources |-> [sha |-> texts[f], items |-> of(f)]]
<1>1. \A f \in DOMAIN fresh : fresh[f].items = of(f)
  OBVIOUS
<1>2. DOMAIN fresh = sources /\ BuildRefs(snips, texts, dir) = fresh
  BY DEF BuildRefs
<1> HIDE DEF fresh, of
<1>3. Items(fresh) = UNION {of(f) : f \in sources}
  <2>1. {fresh[f].items : f \in DOMAIN fresh} = {of(f) : f \in sources}
    BY <1>1, <1>2
  <2> QED
    BY <2>1 DEF Items
<1>4. UNION {of(f) : f \in sources} = {Item(s, dir) : s \in Range(snips)}
  BY DEF of
<1> QED
  BY <1>2, <1>3, <1>4

\* What every reachable state of the tool has.
Settling == Shape /\ CasesAreRead /\ FilesAreWritten /\ ExtrasAreKnown /\ RunsSettle

LEMMA SettlingInit == Init => Settling
<1> SUFFICES ASSUME Init PROVE Settling
  OBVIOUS
<1>1. Shape /\ CasesAreRead
  BY ShapeInit
<1>2. calm = 0 /\ run.pc = "idle"
  BY DEF Init, Idle
<1>3. ~Writing /\ ~(calm # 0) /\ ~(calm = 2)
  BY <1>2 DEF Writing
<1> QED
  BY <1>1, <1>3 DEF Settling, FilesAreWritten, ExtrasAreKnown, RunsSettle

LEMMA SettlingShows == NamesAreDistinct /\ DiagramsHaveOneHome /\ Settling => TwoRunsSettle
<1> SUFFICES ASSUME DiagramsHaveOneHome, Shape, RunsSettle, calm = 2 PROVE TwoRunsSettle
  BY DEF Settling, TwoRunsSettle
<1> DEFINE now == CasesOf(docs, Dests)
<1>1. /\ Extract(docs, Dests).ok
      /\ \A d \in Dests : IsOf(disk[d], now[d]) /\ refs[d] = BuildRefs(now[d], docs, disk[d])
  BY DEF RunsSettle
<1>2. <<docs, Dests>> \in Usable /\ <<docs, Dests>>[1] = docs /\ <<docs, Dests>>[2] = Dests
  BY <1>1 DEF Usable, Scopes, Shape
<1>3. \A d, e \in Dests : \A s \in Range(now[d]), t \in Range(now[e]) :
        (s.content = t.content /\ s.content \notin RuleTexts) => d = e /\ s = t
  BY <1>2 DEF DiagramsHaveOneHome
<1> HIDE DEF now
<1>4. ASSUME NEW d \in Dests, NEW e \in Dests, NEW x \in Items(refs[d]), NEW y \in Items(refs[e]),
             x.content = y.content, x.content \notin RuleTexts
      PROVE  d = e /\ x = y
  <2>1. PICK s \in Range(now[d]) : x = Item(s, disk[d])
    BY <1>1, <1>4, ItemsAreOfTheCases
  <2>2. PICK t \in Range(now[e]) : y = Item(t, disk[e])
    BY <1>1, <1>4, ItemsAreOfTheCases
  <2>3. x.content = s.content /\ y.content = t.content
    BY <2>1, <2>2 DEF Item
  <2> QED
    BY <1>3, <1>4, <2>1, <2>2, <2>3
<1>5. \A d \in Dests : Written(now, d) /\ Extras(DOMAIN disk[d], {FileOf(s) : s \in Range(now[d])}) = {}
  BY <1>1 DEF IsOf, Written
<1> QED
  BY <1>1, <1>4, <1>5 DEF TwoRunsSettle, now

\* Two complete runs with --rm-extra and nothing in between settle every destination: the files are the
\* documents' cases, their record is what the next run would write, nothing is left over and no diagram
\* is recorded twice, whatever a killed, filtered or overtaken run had left (main.go:679-825).
THEOREM TwoRunsAreEnough ==
  ASSUME NamesAreDistinct, DiagramsHaveOneHome
  PROVE  Spec => []TwoRunsSettle
<1>1. Init => Settling
  BY SettlingInit
<1>2. Settling /\ [Next]_vars => Settling'
  BY ShapeStep, CasesStep, FilesStep, ExtrasKnownStep, SettleStep DEF Settling
<1>3. Settling => TwoRunsSettle
  BY SettlingShows
<1> QED
  BY <1>1, <1>2, <1>3, PTL DEF Spec

-----------------------------------------------------------------------------
(* A check that finds nothing is right. *)

\* Whatever case an item of the record names, in this or in any other corpus, its file is there.
Accounted(record, dir, d) ==
  \A it \in Items(record), x \in Usable : \A s \in Range(CasesOf(x[1], x[2])[d]) :
    (s.base = it.name /\ s.content = it.content) => FileOf(s) \in DOMAIN dir /\ dir[FileOf(s)] = s.content

\* It is so when no run writes, unless the last one was killed or filtered.
RecordsAreTrue == ~patchy /\ (run.pc = "idle" \/ run.check) => \A d \in Dests : Accounted(refs[d], disk[d], d)

\* A full run makes it so, one destination after the other.
RunMakesThemTrue ==
  Writing =>
    /\ \A d \in Dests : Done(d) => Accounted(refs[d], disk[d], d)
    /\ run.pc \in {"files", "extras"} =>
         \A it \in Items(refs[Dest]) : \E s \in Range(run.acc[Dest]) : it.name = s.base /\ it.content = s.content

\* A check that has found nothing yet has read the items that it would have recorded.
CheckHasCompared ==
  run.pc # "idle" /\ run.check /\ ~run.changed =>
    \A d \in Dests : Done(d) \/ (run.pc \in {"files", "extras"} /\ d = Dest) =>
      run.acc[d] = <<>> \/ Items(refs[d]) = {Item(s, disk[d]) : s \in Range(run.acc[d])}

\* A record has the fields that the program gives it.
ItemFields == {"name", "line", "anchor", "content", "outputs"}
WellFormed(record) ==
  \A f \in DOMAIN record :
    DOMAIN record[f] = {"sha", "items"} /\ \A it \in record[f].items : DOMAIN it = ItemFields
RecordsAreWellFormed == \A d \in Dests : WellFormed(refs[d])

LEMMA BuiltIsWellFormed == ASSUME NEW snips, NEW texts, NEW dir PROVE WellFormed(BuildRefs(snips, texts, dir))
<1> DEFINE of(f) == {Item(s, dir) : s \in {t \in Range(snips) : t.file = f}}
           fresh == [f \in {s.file : s \in Range(snips)} |-> [sha |-> texts[f], items |-> of(f)]]
<1>1. BuildRefs(snips, texts, dir) = fresh
  BY DEF BuildRefs
<1>2. \A f : \A it \in of(f) : DOMAIN it = ItemFields
  <2>1. \A s : DOMAIN Item(s, dir) = ItemFields
    BY DEF Item, ItemFields
  <2> QED
    BY <2>1
<1> HIDE DEF of
<1> QED
  BY <1>1, <1>2 DEF WellFormed

\* Rehashing reads the files of the same items again.
LEMMA RehashingKeepsItems ==
  ASSUME NEW record, NEW dir, WellFormed(record)
  PROVE  /\ WellFormed(Rehashed(record, dir))
         /\ \A it \in Items(Rehashed(record, dir)) :
              \E old \in Items(record) : old.name = it.name /\ old.content = it.content
<1> DEFINE Again(old) == [old EXCEPT !.outputs = Outputs(old.name, DOMAIN @ \cup {"ipmt", GenExt}, dir)]
           again(f) == {Again(old) : old \in record[f].items}
           fresh == [f \in DOMAIN record |-> [record[f] EXCEPT !.items = {Again(old) : old \in @}]]
<1>1. Rehashed(record, dir) = fresh
  BY DEF Rehashed
<1>2. \A f \in DOMAIN record : \A old \in record[f].items :
        DOMAIN Again(old) = ItemFields /\ Again(old).name = old.name /\ Again(old).content = old.content
  BY DEF WellFormed, ItemFields
<1>3. \A f \in DOMAIN record : DOMAIN fresh[f] = {"sha", "items"} /\ fresh[f].items = again(f)
  BY DEF WellFormed
<1>4. DOMAIN fresh = DOMAIN record
  OBVIOUS
<1> HIDE DEF fresh, Again
<1>5. WellFormed(fresh)
  BY <1>2, <1>3, <1>4 DEF WellFormed
<1>6. ASSUME NEW it \in Items(fresh)
      PROVE  \E old \in Items(record) : old.name = it.name /\ old.content = it.content
  <2>1. PICK f \in DOMAIN record : it \in fresh[f].items
    BY <1>4 DEF Items
  <2>2. PICK old \in record[f].items : it = Again(old)
    BY <1>3, <2>1
  <2> QED
    BY <1>2, <2>1, <2>2 DEF Items
<1> QED
  BY <1>1, <1>5, <1>6

\* A generator writes beside the cases.
LEMMA GeneratorsKeepCases ==
  ASSUME Shape, NEW d \in Dests, Generate(d), NEW s, s.ext # GenExt, NEW e \in Dests,
         FileOf(s) \in DOMAIN disk[e], disk[e][FileOf(s)] = s.content
  PROVE  FileOf(s) \in DOMAIN disk'[e] /\ disk'[e][FileOf(s)] = s.content
<1> DEFINE drawn == {x[1] : x \in {y \in DOMAIN disk[d] : y[2] = "ipmt"}} \X {GenExt}
           dir == [x \in DOMAIN disk[d] \cup drawn |->
                     IF x \in drawn THEN <<"svg of", disk[d][<<x[1], "ipmt">>]>> ELSE disk[d][x]]
<1>1. disk' = [disk EXCEPT ![d] = dir]
  BY DEF Generate
<1>2. FileOf(s)[2] = s.ext /\ \A x \in drawn : x[2] = GenExt
  BY DEF FileOf
<1>3. FileOf(s) \notin drawn
  BY <1>2
<1>4. d = e => FileOf(s) \in DOMAIN dir /\ dir[FileOf(s)] = s.content
  BY <1>3
<1> HIDE DEF dir
<1> QED
  BY <1>1, <1>4 DEF Shape

\* The steps that leave the records as they are.
LEMMA RecordSteps ==
  ASSUME Shape, [Next]_vars
  PROVE  \/ refs' = refs
         \/ WriteRefs /\ ~run.check /\ Dest \in Dests
            /\ refs' = [refs EXCEPT ![Dest] = BuildRefs(run.acc[Dest], docs, disk[Dest])]
         \/ \E d \in Dests : Rehash(d)
<1>1. CASE WriteRefs
  BY <1>1, HereIsADest DEF WriteRefs, At
<1>2. CASE \E x \in run.extras : RemoveExtra(x)
  BY <1>2 DEF RemoveExtra
<1>3. CASE WriteFile \/ FindExtras \/ NextDest \/ Finish \/ Crash \/ UNCHANGED vars
  BY <1>3 DEF WriteFile, FindExtras, NextDest, Finish, Crash, vars
<1>4. CASE (\E f \in Files : Edit(f)) \/ (\E d \in Dests : Generate(d))
  BY <1>4 DEF Edit, Generate
<1>5. ASSUME NEW check, NEW rm, NEW filter, Start(check, rm, filter) PROVE refs' = refs
  BY <1>5 DEF Start
<1> QED
  BY <1>1, <1>2, <1>3, <1>4, <1>5 DEF Next, Progress

LEMMA WellFormedStep == Shape /\ RecordsAreWellFormed /\ [Next]_vars => RecordsAreWellFormed'
<1> SUFFICES ASSUME Shape, RecordsAreWellFormed, [Next]_vars PROVE RecordsAreWellFormed'
  OBVIOUS
<1>0. DOMAIN refs = Dests
  BY DEF Shape
<1>1. CASE refs' = refs
  BY <1>1 DEF RecordsAreWellFormed
<1>2. CASE Dest \in Dests /\ refs' = [refs EXCEPT ![Dest] = BuildRefs(run.acc[Dest], docs, disk[Dest])]
  BY <1>0, <1>2, BuiltIsWellFormed DEF RecordsAreWellFormed
<1>3. ASSUME NEW d \in Dests, Rehash(d) PROVE RecordsAreWellFormed'
  <2>1. refs' = [refs EXCEPT ![d] = Rehashed(refs[d], disk[d])]
    BY <1>3 DEF Rehash
  <2> QED
    BY <1>0, <2>1, RehashingKeepsItems DEF RecordsAreWellFormed
<1> QED
  BY <1>1, <1>2, <1>3, RecordSteps

\* How it comes that no run writes.
LEMMA QuietSteps ==
  ASSUME Shape, [Next]_vars, run'.pc = "idle" \/ run'.check, ~patchy'
  PROVE  \/ Finish /\ Writing
         \/ /\ ~patchy /\ (run.pc = "idle" \/ run.check)
            /\ (refs' = refs /\ disk' = disk) \/ \E d \in Dests : Generate(d) \/ Rehash(d)
<1> DEFINE quiet == run.pc = "idle" \/ run.check
<1>0. DOMAIN run = Fields /\ (~Writing => run.extras = {})
  BY DEF Shape
<1>1. CASE Finish
  <2>1. CASE run.check
    BY <1>1, <2>1 DEF Finish
  <2>2. CASE ~run.check
    <3>1. run.filter = NoFilter
      BY <1>1, <2>2, Zenon DEF Finish
    <3> QED
      BY <1>1, <2>2, <3>1 DEF Finish, Writing
  <2> QED
    BY <2>1, <2>2
<1>2. CASE Crash
  BY <1>2 DEF Crash
<1>3. CASE WriteRefs
  <2>1. run.check /\ patchy' = patchy
    BY <1>0, <1>3 DEF WriteRefs, At, Fields
  <2> QED
    BY <1>3, <2>1 DEF WriteRefs
<1>4. CASE WriteFile
  <2>1. run.check /\ patchy' = patchy
    BY <1>0, <1>4 DEF WriteFile, At, Fields
  <2> QED
    BY <1>4, <2>1 DEF WriteFile
<1>5. CASE FindExtras \/ NextDest
  BY <1>0, <1>5 DEF FindExtras, NextDest, At, Fields
<1>6. CASE \E x \in run.extras : RemoveExtra(x)
  <2>1. PICK x \in run.extras : RemoveExtra(x)
    BY <1>6
  <2>2. Writing
    BY <1>0, <2>1
  <2>3. run'.pc = "extras" /\ run'.check = run.check
    BY <1>0, <2>1 DEF RemoveExtra, At, Fields
  <2> QED
    BY <2>2, <2>3 DEF Writing
<1>7. CASE \E f \in Files : Edit(f)
  BY <1>0, <1>7 DEF Edit, Fields
<1>8. ASSUME NEW d \in Dests, Generate(d) \/ Rehash(d)
      PROVE  ~patchy /\ quiet
  <2>1. CASE Generate(d)
    BY <2>1 DEF Generate
  <2>2. CASE Rehash(d)
    <3>1. patchy' = patchy /\ run.pc = "idle"
      BY <2>2 DEF Rehash
    <3> QED
      BY <3>1
  <2> QED
    BY <1>8, <2>1, <2>2
<1>9. ASSUME NEW check, NEW rm, NEW filter, Start(check, rm, filter)
      PROVE  ~patchy /\ quiet /\ refs' = refs /\ disk' = disk
  BY <1>9 DEF Start
<1>10. CASE UNCHANGED vars
  BY <1>10 DEF vars
<1> QED
  BY <1>1, <1>2, <1>3, <1>4, <1>5, <1>6, <1>7, <1>8, <1>9, <1>10 DEF Next, Progress

LEMMA TrueStep ==
  NamesAreDistinct /\ Shape /\ RecordsAreWellFormed /\ RecordsAreTrue /\ RunMakesThemTrue /\ [Next]_vars
    => RecordsAreTrue'
<1> SUFFICES ASSUME NamesAreDistinct, Shape, RecordsAreWellFormed, RecordsAreTrue, RunMakesThemTrue, [Next]_vars,
                    ~patchy', run'.pc = "idle" \/ run'.check, NEW d \in Dests
             PROVE  Accounted(refs'[d], disk'[d], d)
  BY DEF RecordsAreTrue
<1>1. CASE Finish /\ Writing
  <2>1. run.dests = <<>> /\ refs' = refs /\ disk' = disk
    BY <1>1 DEF Finish
  <2>2. Done(d)
    BY <2>1, EmptyRange DEF Done
  <2> QED
    BY <1>1, <2>1, <2>2 DEF RunMakesThemTrue
<1>2. ASSUME ~(Finish /\ Writing) PROVE Accounted(refs[d], disk[d], d)
  BY <1>2, QuietSteps DEF RecordsAreTrue
<1>3. CASE refs' = refs /\ disk' = disk /\ ~(Finish /\ Writing)
  BY <1>2, <1>3
<1>4. ASSUME ~(Finish /\ Writing), NEW e \in Dests, Generate(e) PROVE Accounted(refs'[d], disk'[d], d)
  <2>1. refs' = refs
    BY <1>4 DEF Generate
  <2>2. SUFFICES ASSUME NEW it \in Items(refs[d]), NEW x \in Usable, NEW s \in Range(CasesOf(x[1], x[2])[d]),
                        s.base = it.name, s.content = it.content
                 PROVE  FileOf(s) \in DOMAIN disk'[d] /\ disk'[d][FileOf(s)] = s.content
    BY <2>1 DEF Accounted
  <2>3. s.ext # GenExt
    BY <2>2 DEF NamesAreDistinct
  <2>4. FileOf(s) \in DOMAIN disk[d] /\ disk[d][FileOf(s)] = s.content
    BY <1>2, <1>4, <2>2 DEF Accounted
  <2> QED
    BY <1>4, <2>3, <2>4, GeneratorsKeepCases
<1>5. ASSUME ~(Finish /\ Writing), NEW e \in Dests, Rehash(e) PROVE Accounted(refs'[d], disk'[d], d)
  <2>1. disk' = disk /\ refs'[d] = IF d = e THEN Rehashed(refs[d], disk[d]) ELSE refs[d]
    BY <1>5 DEF Rehash, Shape
  <2>2. \A it \in Items(refs'[d]) : \E old \in Items(refs[d]) : old.name = it.name /\ old.content = it.content
    BY <2>1, RehashingKeepsItems DEF RecordsAreWellFormed
  <2> QED
    BY <1>2, <1>5, <2>1, <2>2 DEF Accounted
<1> QED
  BY <1>1, <1>3, <1>4, <1>5, QuietSteps

\* A destination that a run has written is accounted for: its record names the run's cases, and a case
\* of the same name and text in any other corpus has the same file.
LEMMA DestIsAccounted ==
  ASSUME LanguagesAreKept, Shape, CasesAreRead, FilesAreWritten, RunMakesThemTrue, Writing, run.pc = "extras"
  PROVE  Accounted(refs[Dest], disk[Dest], Dest)
<1>1. Dest \in Dests
  BY HereIsADest DEF Shape
<1>2. PICK y \in Usable : run.acc = CasesOf(y[1], y[2])
  BY DEF CasesAreRead
<1> SUFFICES ASSUME NEW it \in Items(refs[Dest]), NEW x \in Usable, NEW s \in Range(CasesOf(x[1], x[2])[Dest]),
                    s.base = it.name, s.content = it.content
             PROVE  FileOf(s) \in DOMAIN disk[Dest] /\ disk[Dest][FileOf(s)] = s.content
  BY DEF Accounted
<1>3. PICK t \in Range(run.acc[Dest]) : it.name = t.base /\ it.content = t.content
  BY DEF RunMakesThemTrue
<1>4. s.ext = t.ext
  BY <1>1, <1>2, <1>3 DEF LanguagesAreKept
<1>5. FileOf(s) = FileOf(t)
  BY <1>3, <1>4 DEF FileOf
<1> QED
  BY <1>3, <1>5 DEF FilesAreWritten, InPlace

LEMMA MakesTrueStep ==
  /\ NamesAreDistinct /\ LanguagesAreKept
  /\ Shape /\ CasesAreRead /\ FilesAreWritten /\ ExtrasAreKnown /\ RunMakesThemTrue
  /\ [Next]_vars
  => RunMakesThemTrue'
<1> SUFFICES ASSUME NamesAreDistinct, LanguagesAreKept, Shape, CasesAreRead, FilesAreWritten, ExtrasAreKnown,
                    RunMakesThemTrue, [Next]_vars, Writing'
             PROVE  RunMakesThemTrue'
  BY DEF RunMakesThemTrue
<1>0. DOMAIN run = Fields /\ DOMAIN refs = Dests
  BY DEF Shape
<1>1. CASE Aside
  BY <1>1 DEF Aside, RunMakesThemTrue, Done, Dest
<1>2. CASE WriteRefs
  <2>1. /\ Writing /\ run.dests # <<>> /\ run.pc = "refs" /\ disk' = disk
        /\ run'.acc = run.acc /\ run'.dests = run.dests
    BY <1>0, <1>2 DEF WriteRefs, At, Writing, Fields
  <2>2. Dest \in Dests /\ Dest \in Range(run.dests)
    BY <2>1, HereIsADest
  <2>3. \/ refs' = [refs EXCEPT ![Dest] = BuildRefs(run.acc[Dest], docs, disk[Dest])]
        \/ refs' = refs /\ refs[Dest] = BuildRefs(run.acc[Dest], docs, disk[Dest])
    BY <1>2, <2>1 DEF WriteRefs, RefsEqual, Writing
  <2>4. refs'[Dest] = BuildRefs(run.acc[Dest], docs, disk[Dest]) /\ \A d \in Dests : d # Dest => refs'[d] = refs[d]
    BY <1>0, <2>2, <2>3
  <2>5. ASSUME NEW it \in Items(refs'[Dest])
        PROVE  \E s \in Range(run.acc[Dest]) : it.name = s.base /\ it.content = s.content
    <3>1. PICK s \in Range(run.acc[Dest]) : it = Item(s, disk[Dest])
      BY <2>4, <2>5, ItemsAreOfTheCases
    <3> QED
      BY <3>1 DEF Item
  <2>6. \A d \in Dests : Done(d)' => Done(d) /\ refs'[d] = refs[d]
    BY <2>1, <2>2, <2>4 DEF Done
  <2> HIDE <2>3
  <2> QED
    BY <2>1, <2>5, <2>6 DEF RunMakesThemTrue, Dest
<1>3. CASE WriteFile
  <2>1. /\ Writing /\ run.pc = "files" /\ run'.acc = run.acc /\ run'.dests = run.dests
        /\ run.dests # <<>> /\ refs' = refs
    BY <1>0, <1>3 DEF WriteFile, At, Writing, Fields
  <2>2. \A d \in Dests : Done(d)' => disk'[d] = disk[d] /\ Done(d)
    BY <1>3, <2>1, HereIsADest, FileIsWritten DEF Done
  <2> QED
    BY <2>1, <2>2 DEF RunMakesThemTrue, Dest
<1>4. CASE FindExtras
  <2>1. /\ Writing /\ run.pc = "files" /\ run'.acc = run.acc /\ run'.dests = run.dests
        /\ refs' = refs /\ disk' = disk
    BY <1>0, <1>4 DEF FindExtras, At, Writing, Fields
  <2> QED
    BY <2>1 DEF RunMakesThemTrue, Done, Dest
<1>5. CASE \E x \in run.extras : RemoveExtra(x)
  <2>1. PICK x \in run.extras : RemoveExtra(x)
    BY <1>5
  <2>2. /\ Writing /\ run.pc = "extras" /\ run'.acc = run.acc /\ run'.dests = run.dests
        /\ run.dests # <<>> /\ refs' = refs
    BY <1>0, <2>1, ExtraIsRemoved DEF RemoveExtra, At, Fields
  <2>3. \A d \in Dests : Done(d)' => disk'[d] = disk[d] /\ Done(d)
    BY <2>1, <2>2, HereIsADest, ExtraIsRemoved DEF Done
  <2> QED
    BY <2>2, <2>3 DEF RunMakesThemTrue, Dest
<1>6. CASE NextDest
  <2>1. /\ Writing /\ run.pc = "extras" /\ run'.pc = "refs" /\ run'.dests = Tail(run.dests)
        /\ refs' = refs /\ disk' = disk /\ run.dests # <<>>
    BY <1>0, <1>6 DEF NextDest, At, Writing, Fields
  <2>2. \A d \in Dests : Done(d)' => Done(d) \/ d = Dest
    BY <2>1, SeqEnds DEF Shape, Done, Dest
  <2>3. Accounted(refs[Dest], disk[Dest], Dest)
    BY <2>1, DestIsAccounted
  <2>4. \A d \in Dests : Done(d)' => Accounted(refs[d], disk[d], d)
    BY <2>1, <2>2, <2>3 DEF RunMakesThemTrue
  <2> QED
    BY <2>1, <2>4 DEF RunMakesThemTrue
<1> QED
  BY <1>1, <1>2, <1>3, <1>4, <1>5, <1>6, StepsOfARun

LEMMA ComparedStep ==
  NamesAreDistinct /\ Shape /\ CheckHasCompared /\ [Next]_vars => CheckHasCompared'
<1> SUFFICES ASSUME NamesAreDistinct, Shape, CheckHasCompared, [Next]_vars,
                    run'.pc # "idle", run'.check, ~run'.changed
             PROVE  CheckHasCompared'
  BY DEF CheckHasCompared
<1>0. DOMAIN run = Fields /\ (~Writing => run.extras = {}) /\ docs \in Corpora
  BY DEF Shape
<1>1. ASSUME run.pc # "idle", run.check, ~run.changed, refs' = refs, disk' = disk, run'.acc = run.acc,
             run'.dests = run.dests,
             run'.pc = run.pc \/ (run.pc = "files" /\ run'.pc = "extras")
      PROVE  CheckHasCompared'
  BY <1>1 DEF CheckHasCompared, Done, Dest
<1>2. CASE WriteRefs
  <2>1. /\ run.pc = "refs" /\ run.dests # <<>> /\ run.check /\ disk' = disk /\ refs' = refs
        /\ run'.acc = run.acc /\ run'.dests = run.dests
    BY <1>0, <1>2 DEF WriteRefs, At, Fields
  <2>2. ~run.changed /\ refs[Dest] = BuildRefs(run.acc[Dest], docs, disk[Dest])
    BY <1>0, <1>2 DEF WriteRefs, RefsEqual, Fields
  <2>3. Items(refs[Dest]) = {Item(s, disk[Dest]) : s \in Range(run.acc[Dest])}
    BY <2>2, ItemsAreOfTheCases
  <2> QED
    BY <2>1, <2>2, <2>3 DEF CheckHasCompared, Done, Dest
<1>3. CASE WriteFile
  <2>1. /\ run.pc = "files" /\ run'.pc = "files" /\ run.check /\ refs' = refs /\ run'.acc = run.acc
        /\ run'.dests = run.dests /\ ~run.changed
    BY <1>0, <1>3 DEF WriteFile, At, Fields
  <2>2. disk' = disk
    BY <1>3, <2>1 DEF WriteFile
  <2> QED
    BY <1>1, <2>1, <2>2
<1>4. CASE FindExtras
  <2>1. /\ run.pc = "files" /\ run'.pc = "extras" /\ run.check /\ refs' = refs /\ disk' = disk
        /\ run'.acc = run.acc /\ run'.dests = run.dests /\ ~run.changed
    BY <1>0, <1>4 DEF FindExtras, At, Fields
  <2> QED
    BY <1>1, <2>1
<1>5. CASE \E x \in run.extras : RemoveExtra(x)
  <2>1. PICK x \in run.extras : RemoveExtra(x)
    BY <1>5
  <2>2. Writing
    BY <1>0, <2>1
  <2>3. run'.check = run.check
    BY <1>0, <2>1 DEF RemoveExtra, Fields
  <2> QED
    BY <2>2, <2>3 DEF Writing
<1>6. CASE NextDest
  <2>1. /\ run.pc = "extras" /\ run'.pc = "refs" /\ run.check /\ refs' = refs /\ disk' = disk
        /\ run'.acc = run.acc /\ run'.dests = Tail(run.dests) /\ run.dests # <<>> /\ ~run.changed
    BY <1>0, <1>6 DEF NextDest, At, Fields
  <2>2. \A d \in Dests : Done(d)' => Done(d) \/ d = Dest
    BY <2>1, SeqEnds DEF Shape, Done, Dest
  <2> QED
    BY <2>1, <2>2 DEF CheckHasCompared
<1>7. CASE Finish \/ Crash
  BY <1>7 DEF Finish, Crash, Idle
<1>8. ASSUME NEW f \in Files, Edit(f) PROVE CheckHasCompared'
  <2>1. /\ run'.pc = run.pc /\ run.check /\ refs' = refs /\ disk' = disk /\ run'.acc = run.acc
        /\ run'.dests = run.dests /\ ~run.changed /\ run.pc # "idle"
    BY <1>0, <1>8 DEF Edit, Fields
  <2> QED
    BY <1>1, <2>1
<1>9. CASE \E d \in Dests : Generate(d) \/ Rehash(d)
  BY <1>9 DEF Generate, Rehash
<1>10. ASSUME NEW check \in BOOLEAN, NEW rm \in BOOLEAN, NEW filter \in {NoFilter} \cup FilterNames,
              Start(check, rm, filter)
       PROVE  CheckHasCompared'
  <2>1. CASE run' = run
    BY <1>10, <2>1 DEF Start
  <2>2. CASE run' # run
    <3>1. PICK only \in Scopes :
             /\ run'.pc = "refs" /\ run'.acc = CasesOf(docs, only) /\ <<docs, only>> \in Usable
             /\ \A d \in only : d \in Range(run'.dests)
      BY <1>10, <2>2, StartsInScope
    <3>2. <<docs, only>>[1] = docs /\ <<docs, only>>[2] = only
      OBVIOUS
    <3>3. \A d \in Dests : d \notin only => run'.acc[d] = <<>>
      BY <3>1, <3>2 DEF NamesAreDistinct
    <3> QED
      BY <3>1, <3>3 DEF CheckHasCompared, Done
  <2> QED
    BY <2>1, <2>2
<1>11. CASE UNCHANGED vars
  <2>1. run' = run /\ refs' = refs /\ disk' = disk
    BY <1>11 DEF vars
  <2> QED
    BY <1>1, <2>1
<1> QED
  BY <1>2, <1>3, <1>4, <1>5, <1>6, <1>7, <1>8, <1>9, <1>10, <1>11 DEF Next, Progress

\* What every reachable state of the tool has, as far as a check is concerned.
Truthful ==
  /\ Shape /\ CasesAreRead /\ FilesAreWritten /\ ExtrasAreKnown
  /\ RecordsAreWellFormed /\ RecordsAreTrue /\ RunMakesThemTrue /\ CheckHasCompared

LEMMA TruthfulInit == Init => Truthful
<1> SUFFICES ASSUME Init PROVE Truthful
  OBVIOUS
<1>1. Shape /\ CasesAreRead
  BY ShapeInit
<1>2. run.pc = "idle"
  BY DEF Init, Idle
<1>3. ~Writing
  BY <1>2 DEF Writing
<1>4. \A d \in Dests : refs[d] = <<>>
  BY DEF Init
<1>5. DOMAIN <<>> = {} /\ Items(<<>>) = {} /\ WellFormed(<<>>)
  BY DEF Items, WellFormed
<1>6. RecordsAreWellFormed /\ RecordsAreTrue
  BY <1>4, <1>5 DEF RecordsAreWellFormed, RecordsAreTrue, Accounted
<1> QED
  BY <1>1, <1>2, <1>3, <1>6 DEF Truthful, FilesAreWritten, ExtrasAreKnown, RunMakesThemTrue, CheckHasCompared

LEMMA FreshMeansThere ==
  ASSUME NamesAreDistinct, LanguagesAreKept, Truthful, Finish, verdict' = "fresh", ~patchy, NEW d \in Dests
  PROVE  Written(run.acc, d) /\ Runnable(run.acc, d)
<1> USE DEF Truthful
<1>1. run.check /\ ~run.changed /\ run.pc = "refs" /\ run.dests = <<>>
  BY DEF Finish
<1>2. Done(d)
  BY <1>1, EmptyRange DEF Done
<1>3. CASE run.acc[d] = <<>>
  BY <1>3, EmptyRange DEF Written, Runnable
<1>4. CASE run.acc[d] # <<>>
  <2>1. Items(refs[d]) = {Item(s, disk[d]) : s \in Range(run.acc[d])}
    BY <1>1, <1>2, <1>4 DEF CheckHasCompared
  <2>2. \A s : Item(s, disk[d]).name = s.base /\ Item(s, disk[d]).content = s.content
               /\ Item(s, disk[d]).outputs = Outputs(s.base, {s.ext, GenExt}, disk[d])
    BY DEF Item
  <2>3. PICK x \in Usable : run.acc = CasesOf(x[1], x[2])
    BY <1>1 DEF CasesAreRead
  <2>4. Accounted(refs[d], disk[d], d)
    BY <1>1 DEF RecordsAreTrue
  <2>5. ASSUME NEW s \in Range(run.acc[d]) PROVE FileOf(s) \in DOMAIN disk[d] /\ disk[d][FileOf(s)] = s.content
    <3>1. Item(s, disk[d]) \in Items(refs[d])
      BY <2>1
    <3> QED
      BY <2>2, <2>3, <2>4, <3>1 DEF Accounted
  <2>6. ASSUME NEW s \in Range(run.acc[d]), s.ext = "ipmt"
        PROVE  \E it \in TestCases(refs[d]) : it.name = s.base
    <3>1. "ipmt" \in DOMAIN Outputs(s.base, {s.ext, GenExt}, disk[d])
      BY <2>5, <2>6 DEF Outputs, FileOf
    <3> QED
      BY <2>1, <2>2, <3>1 DEF TestCases
  <2>7. ASSUME NEW s \in Range(run.acc[d]), s.ext = "dsl" PROVE RulesLoad(refs[d], disk[d])
    <3>1. \A t \in Range(run.acc[d]) : t.ext = "dsl"
      BY <2>3, <2>7 DEF LanguagesAreKept
    <3> SUFFICES ASSUME NEW it \in Items(refs[d]) PROVE <<it.name, "dsl">> \in DOMAIN disk[d]
      BY DEF RulesLoad
    <3>2. PICK t \in Range(run.acc[d]) : it = Item(t, disk[d])
      BY <2>1
    <3> QED
      BY <2>2, <2>5, <3>1, <3>2 DEF FileOf
  <2>8. Runnable(run.acc, d)
    BY <2>6, <2>7 DEF Runnable
  <2> QED
    BY <2>5, <2>8 DEF Written
<1> QED
  BY <1>3, <1>4

\* When --check reports that nothing is stale, after a complete run and with no killed or filtered one since,
\* every case it extracted has its file and its content, every diagram is a test case and every rule can be
\* read, though --check has read no fixture (main.go:679-730,
\* 810-817).
THEOREM ChecksAreTrue ==
  ASSUME NamesAreDistinct, LanguagesAreKept
  PROVE  Spec => CheckIsHonest
<1>1. Init => Truthful
  BY TruthfulInit
<1>2. Truthful /\ [Next]_vars => Truthful'
  BY ShapeStep, CasesStep, FilesStep, ExtrasKnownStep, WellFormedStep, TrueStep, MakesTrueStep, ComparedStep
     DEF Truthful
<1>3. Truthful /\ [Next]_vars =>
        [(Finish /\ verdict' = "fresh" /\ ~patchy) => \A d \in Dests : Written(run.acc, d) /\ Runnable(run.acc, d)]_vars
  BY FreshMeansThere
<1> QED
  BY <1>1, <1>2, <1>3, PTL DEF Spec, CheckIsHonest
=============================================================================
