--------------------------- MODULE MdEmbedProofs ---------------------------
(***************************************************************************)
(* Theorems about the runs of md-embed, ipm.embed and ipm.check, for every *)
(* tree of files, every number of processes, saves and crashes.            *)
(***************************************************************************)
EXTENDS MdEmbed, SetInduction, SequenceTheorems

(* ---------------------------------------------------------------------- *)
(* What the operators return.                                              *)

\* A fresh key is a key, or there is none, whatever the bounds are.
LEMMA FreshKeyIsAKey ==
  ASSUME NEW prev, NEW next
  PROVE  FreshKey(prev, next) \in Keys \cup {NoId}
<1>1. ASSUME NEW p, NEW n PROVE KeyBetween(p, n) \in Keys \cup {NoId}
  <2> DEFINE lo == IF IsKey(p) THEN p ELSE -1
             hi == IF IsKey(n) THEN n ELSE KeyMax + 1
             mid == (lo + hi) \div 2
  <2>1. lo \in -1 .. KeyMax /\ hi \in 0 .. KeyMax + 1 /\ mid \in Int
    BY KeysAssumption DEF Keys, IsKey
  <2>2. KeyBetween(p, n) = IF p = NoId /\ n = NoId THEN KeyFirst
                           ELSE IF lo < mid /\ mid < hi THEN mid ELSE NoId
    BY DEF KeyBetween
  <2> HIDE DEF lo, hi, mid
  <2> QED
    BY <2>1, <2>2, KeysAssumption DEF Keys
<1>2. ASSUME NEW p PROVE KeyAfter(p) \in Keys \cup {NoId}
  <2>1. CASE IsKey(p) /\ p + KeyStep <= KeyMax
    BY <2>1, KeysAssumption DEF KeyAfter, IsKey, Keys
  <2>2. CASE ~(IsKey(p) /\ p + KeyStep <= KeyMax)
    <3>1. KeyAfter(p) \in {KeyFirst, KeyBetween(p, NoId)}
      BY <2>2 DEF KeyAfter
    <3> QED
      BY <1>1, <3>1, KeysAssumption
  <2> QED
    BY <2>1, <2>2
<1> QED
  BY <1>1, <1>2 DEF FreshKey

\* What ScanBlocks sees is the beginning of the file.
LEMMA ScannedIsThePrefix ==
  ASSUME NEW doc \in Seq(Block)
  PROVE  /\ Scanned(doc) \in Seq(Block)
         /\ Len(Scanned(doc)) <= Len(doc)
         /\ \A j \in 1 .. Len(Scanned(doc)) : Scanned(doc)[j] = doc[j]
<1> DEFINE opens == {j \in DOMAIN doc : doc[j].shape = "open"}
<1>1. CASE opens = {}
  BY <1>1 DEF Scanned
<1>2. CASE opens # {}
  <2> DEFINE k == CHOOSE j \in opens : \A l \in opens : j <= l
  <2>1. opens \in SUBSET Nat
    OBVIOUS
  <2>2. \E j \in opens : \A l \in opens : j <= l
    BY <1>2, <2>1, LeastElement
  <2>3. k \in opens
    BY <2>2
  <2>4. k \in 1 .. Len(doc)
    BY <2>3
  <2>5. Scanned(doc) = SubSeq(doc, 1, k)
    BY <1>2 DEF Scanned
  <2> HIDE DEF k, opens
  <2>6. \A j \in 1 .. k : doc[j] \in Block
    BY <2>4
  <2> QED
    BY <2>4, <2>5, <2>6, SubSeqProperties
<1> QED
  BY <1>1, <1>2

Includes == [Names -> Srcs \cup {Missing}]

\* The outcomes of the first pass, and the source of a block that has one.
LEMMA FirstOutcomes ==
  ASSUME NEW b \in Block, NEW is \in Includes
  PROVE  /\ FirstOutcome(b, is) \in SkipOutcomes \cup {"InsertMarker", "Rehash", "OK"}
         /\ Content(b, is) \in Srcs \cup {Missing}
         /\ Live(b, is) => Content(b, is) # Missing
<1>1. Content(b, is) \in Srcs \cup {Missing}
  BY DEF Content, IsInclude, Includes, Block
<1>2. FirstOutcome(b, is) \in SkipOutcomes \cup {"InsertMarker", "Rehash", "OK"}
  BY DEF FirstOutcome, SkipOutcomes
<1>3. Live(b, is) => Content(b, is) # Missing
  <2>1. CASE b.shape = "open"
    BY <2>1 DEF FirstOutcome, Live, SkipOutcomes
  <2>2. CASE b.shape = "nosrc"
    BY <2>2 DEF FirstOutcome, Live, SkipOutcomes
  <2>3. CASE b.shape \notin {"open", "nosrc"} /\ Content(b, is) = Missing
    BY <2>3 DEF FirstOutcome, Live, SkipOutcomes
  <2> QED
    BY <2>1, <2>2, <2>3
<1> QED
  BY <1>1, <1>2, <1>3

LEMMA IdsAndPaths ==
  ASSUME NEW b \in Block, NEW f \in Files, NEW id \in BlockIds
  PROVE  /\ FirstId(b) \in BlockIds
         /\ Override(b) \in Overrides \cup {NoPath}
         /\ PathOf(f, id, Override(b)) \in SvgPaths
         /\ RenamedFrom(f, b, id) \in SvgPaths \cup {NoPath}
         /\ HasMarker(b) => b.marker \in Marker
<1>1. HasMarker(b) => b.marker \in Marker
  BY DEF HasMarker, Block
<1>2. FirstId(b) \in BlockIds
  BY <1>1 DEF FirstId, IsInclude, Block, Marker, BlockIds
<1>3. Override(b) \in Overrides \cup {NoPath}
  BY <1>1 DEF Override, Marker, PathAttrs
<1>4. PathOf(f, id, Override(b)) \in SvgPaths
  BY <1>3 DEF PathOf, SvgPaths, SvgDirPaths
<1>5. RenamedFrom(f, b, id) \in SvgPaths \cup {NoPath}
  BY <1>1 DEF RenamedFrom, SvgPaths, SvgDirPaths, Marker
<1> QED
  BY <1>1, <1>2, <1>3, <1>4, <1>5

\* What the analysis of a file says of each of its blocks.
LEMMA AnalyzeReturns ==
  ASSUME NEW f \in Files, NEW doc \in Seq(Block), NEW is \in Includes
  PROVE  /\ Analyze(f, doc, is) \in Seq(Result)
         /\ Len(Analyze(f, doc, is)) = Len(Scanned(doc))
         /\ \A j \in 1 .. Len(Scanned(doc)) :
              LET r == Analyze(f, doc, is)[j]
              IN  /\ r.outcome \in SkipOutcomes <=> ~Live(doc[j], is)
                  /\ r.outcome \in SkipOutcomes => r.outcome = FirstOutcome(doc[j], is)
                  /\ r.outcome \notin SkipOutcomes \cup {"OK"} =>
                       \/ ~HasMarker(doc[j])
                       \/ doc[j].marker.hash # Content(doc[j], is)
                       \/ \E k \in 1 .. j - 1 : Live(doc[k], is) /\ FirstId(doc[k]) = FirstId(doc[j])
                  /\ r.file = f /\ r.hash = Content(doc[j], is)
                  /\ r.mode = doc[j].flag
                  /\ r.path = PathOf(f, r.id, Override(doc[j]))
                  /\ r.renamed = RenamedFrom(f, doc[j], r.id)
                  /\ r.outcome = "OK" => /\ HasMarker(doc[j])
                                         /\ doc[j].marker.hash = Content(doc[j], is)
                                         /\ r.id = doc[j].marker.id
<1> DEFINE bs == Scanned(doc)
           es == [j \in DOMAIN bs |-> [live |-> Live(bs[j], is),
                                       id   |-> IF Live(bs[j], is) THEN FirstId(bs[j]) ELSE NoId]]
           ids == AssignIds(es)
           rekeyed == Rekeyed(es)
           Outcome(j) == IF j \in rekeyed
                         THEN IF HasMarker(bs[j]) THEN "Rehash" ELSE "InsertMarker"
                         ELSE FirstOutcome(bs[j], is)
<1>1. bs \in Seq(Block) /\ Len(bs) <= Len(doc) /\ \A j \in 1 .. Len(bs) : bs[j] = doc[j]
  BY ScannedIsThePrefix
<1> HIDE DEF bs
<1>2. Len(es) = Len(bs) /\ DOMAIN bs = 1 .. Len(bs)
  BY <1>1
<1>3. \A j \in 1 .. Len(bs) : /\ es[j].live = Live(bs[j], is)
                              /\ es[j].id = IF Live(bs[j], is) THEN FirstId(bs[j]) ELSE NoId
  BY <1>2
<1> HIDE DEF es
<1>4. ASSUME NEW j \in 1 .. Len(bs)
      PROVE  /\ ids[j] \in Keys \cup {NoId, es[j].id}
             /\ j \notin rekeyed => ids[j] = es[j].id
             /\ j \in rekeyed => es[j].live
             /\ j \in rekeyed /\ es[j].id # NoId => \E k \in 1 .. j - 1 : es[k].live /\ es[k].id = es[j].id
  <2> DEFINE prev == PrevKeys(es)
  <2>1. ids[j] = IdAfter(es, j, prev[j - 1])
    BY <1>2, Zenon DEF AssignIds
  <2>2. j \in rekeyed <=> es[j].live /\ ~Preserved(es, j) /\ FreshKey(prev[j - 1], NextKey(es, j)) # NoId
    BY <1>2 DEF Rekeyed
  <2> HIDE DEF prev, ids, rekeyed
  <2> QED
    BY <2>1, <2>2, FreshKeyIsAKey DEF IdAfter, Preserved
<1>5. Analyze(f, doc, is) =
        [j \in 1 .. Len(bs) |->
           [outcome |-> Outcome(j),
            file    |-> f,
            id      |-> ids[j],
            hash    |-> Content(bs[j], is),
            mode    |-> bs[j].flag,
            path    |-> PathOf(f, ids[j], Override(bs[j])),
            renamed |-> RenamedFrom(f, bs[j], ids[j])]]
  BY <1>2, Zenon DEF Analyze, bs, es
<1> HIDE DEF ids, rekeyed
<1>6. ASSUME NEW j \in 1 .. Len(bs)
      PROVE  /\ Outcome(j) \in SkipOutcomes <=> ~Live(bs[j], is)
             /\ Outcome(j) \in SkipOutcomes \cup {"InsertMarker", "Rehash", "OK"}
             /\ Outcome(j) \in SkipOutcomes => Outcome(j) = FirstOutcome(bs[j], is)
             /\ Outcome(j) \notin SkipOutcomes \cup {"OK"} =>
                  \/ ~HasMarker(bs[j])
                  \/ bs[j].marker.hash # Content(bs[j], is)
                  \/ \E k \in 1 .. j - 1 : Live(bs[k], is) /\ FirstId(bs[k]) = FirstId(bs[j])
             /\ Outcome(j) = "OK" => /\ HasMarker(bs[j])
                                     /\ bs[j].marker.hash = Content(bs[j], is)
                                     /\ ids[j] = bs[j].marker.id
  <2>1. bs[j] \in Block
    BY <1>1
  <2>2. CASE j \in rekeyed
    <3>1. Outcome(j) \in {"Rehash", "InsertMarker"} /\ Live(bs[j], is)
      <4>1. es[j].live
        BY <1>4, <2>2, Zenon
      <4> QED
        BY <1>3, <2>2, <4>1
    <3>2. HasMarker(bs[j]) => es[j].id = FirstId(bs[j]) /\ FirstId(bs[j]) # NoId
      BY <1>3, <3>1 DEF HasMarker, FirstId
    <3>3. HasMarker(bs[j]) => \E k \in 1 .. j - 1 : Live(bs[k], is) /\ FirstId(bs[k]) = FirstId(bs[j])
      <4>1. SUFFICES ASSUME HasMarker(bs[j])
                     PROVE  \E k \in 1 .. j - 1 : Live(bs[k], is) /\ FirstId(bs[k]) = FirstId(bs[j])
        OBVIOUS
      <4>2. PICK k \in 1 .. j - 1 : es[k].live /\ es[k].id = es[j].id
        BY <1>4, <2>2, <3>2, <4>1
      <4>3. k \in 1 .. Len(bs)
        BY <1>1
      <4>4. Live(bs[k], is) /\ FirstId(bs[k]) = FirstId(bs[j])
        BY <1>3, <3>2, <4>1, <4>2, <4>3
      <4> QED
        BY <4>4
    <3> HIDE DEF Outcome
    <3> QED
      BY <3>1, <3>3 DEF SkipOutcomes
  <2>3. CASE j \notin rekeyed
    <3>1. Outcome(j) = FirstOutcome(bs[j], is)
      BY <2>3
    <3>2. FirstOutcome(bs[j], is) = "OK" => /\ HasMarker(bs[j])
                                           /\ bs[j].marker.hash = Content(bs[j], is)
      BY DEF FirstOutcome
    <3>3. FirstOutcome(bs[j], is) = "OK" => Live(bs[j], is)
      BY DEF Live, SkipOutcomes
    <3>4. Live(bs[j], is) /\ HasMarker(bs[j]) => ids[j] = bs[j].marker.id
      BY <1>3, <1>4, <2>3 DEF FirstId
    <3>5. FirstOutcome(bs[j], is) \notin SkipOutcomes \cup {"OK"} =>
            ~HasMarker(bs[j]) \/ bs[j].marker.hash # Content(bs[j], is)
      BY DEF FirstOutcome, SkipOutcomes
    <3> QED
      BY <2>1, <3>1, <3>2, <3>3, <3>4, <3>5, FirstOutcomes DEF Live
  <2> QED
    BY <2>2, <2>3
<1>7. ASSUME NEW j \in 1 .. Len(bs) PROVE ids[j] \in BlockIds
  <2>1. bs[j] \in Block
    BY <1>1
  <2>2. es[j].id \in BlockIds
    BY <1>3, <2>1, IdsAndPaths DEF BlockIds
  <2> QED
    BY <1>4, <2>2 DEF BlockIds
<1>8. ASSUME NEW j \in 1 .. Len(bs) PROVE Analyze(f, doc, is)[j] \in Result
  <2>1. bs[j] \in Block
    BY <1>1
  <2>2. bs[j].flag \in Flags
    BY <2>1 DEF Block
  <2> QED
    BY <1>5, <1>6, <1>7, <2>1, <2>2, IdsAndPaths, FirstOutcomes DEF Result
<1>9. Analyze(f, doc, is) \in Seq(Result) /\ Len(Analyze(f, doc, is)) = Len(bs)
  <2> DEFINE rs == Analyze(f, doc, is)
  <2>1. DOMAIN rs = 1 .. Len(bs) /\ Len(bs) \in Nat
    BY <1>1, <1>5
  <2>2. rs = [j \in 1 .. Len(bs) |-> rs[j]]
    BY <1>5
  <2>3. \A j \in 1 .. Len(bs) : rs[j] \in Result
    BY <1>8
  <2> HIDE DEF rs
  <2>4. rs \in [1 .. Len(bs) -> Result]
    BY <2>1, <2>2, <2>3
  <2>5. rs \in Seq(Result)
    BY <2>1, <2>4
  <2> QED
    BY <2>1, <2>5 DEF rs
<1>10. ASSUME NEW j \in 1 .. Len(bs)
       PROVE  LET r == Analyze(f, doc, is)[j]
              IN  /\ r.outcome = Outcome(j) /\ r.id = ids[j]
                  /\ r.file = f /\ r.hash = Content(doc[j], is)
                  /\ r.mode = doc[j].flag
                  /\ r.path = PathOf(f, r.id, Override(doc[j]))
                  /\ r.renamed = RenamedFrom(f, doc[j], r.id)
                  /\ bs[j] = doc[j]
                  /\ \A k \in 1 .. j - 1 : bs[k] = doc[k]
  BY <1>1, <1>5
<1> HIDE DEF Outcome
<1>11. ASSUME NEW j \in 1 .. Len(bs)
       PROVE  LET r == Analyze(f, doc, is)[j]
              IN  /\ r.outcome \in SkipOutcomes <=> ~Live(doc[j], is)
                  /\ r.outcome \in SkipOutcomes => r.outcome = FirstOutcome(doc[j], is)
                  /\ r.outcome \notin SkipOutcomes \cup {"OK"} =>
                       \/ ~HasMarker(doc[j])
                       \/ doc[j].marker.hash # Content(doc[j], is)
                       \/ \E k \in 1 .. j - 1 : Live(doc[k], is) /\ FirstId(doc[k]) = FirstId(doc[j])
                  /\ r.outcome = "OK" => /\ HasMarker(doc[j])
                                         /\ doc[j].marker.hash = Content(doc[j], is)
                                         /\ r.id = doc[j].marker.id
  BY <1>6, <1>10
<1> QED
  BY <1>9, <1>10, <1>11 DEF bs

\* The markers are the only thing that ApplyMarkers changes, and it writes none without a source.
LEMMA ApplyMarkersReturns ==
  ASSUME NEW doc \in Seq(Block), NEW results \in Seq(Result),
         \A j \in DOMAIN results : results[j].outcome \notin SkipOutcomes => results[j].hash # Missing
  PROVE  ApplyMarkers(doc, results) \in Seq(Block)
<1>1. ASSUME NEW j \in DOMAIN doc PROVE ApplyMarkers(doc, results)[j] \in Block
  <2> DEFINE m == [id |-> results[j].id, hash |-> results[j].hash, path |-> Override(doc[j])]
  <2>1. doc[j] \in Block
    BY <1>1
  <2>2. ASSUME j \in DOMAIN results, results[j].outcome \notin SkipOutcomes
        PROVE  m \in Marker
    <3>1. Override(doc[j]) \in Overrides \cup {NoPath}
      <4>1. HasMarker(doc[j]) => doc[j].marker \in Marker
        BY <2>1 DEF HasMarker, Block
      <4> QED
        BY <4>1 DEF Override, Marker, PathAttrs
    <3>2. results[j] \in Result
      BY <2>2
    <3> QED
      BY <2>2, <3>1, <3>2 DEF Marker, PathAttrs, Result
  <2>3. \A x \in Marker : [doc[j] EXCEPT !.marker = x] \in Block
    BY <2>1 DEF Block
  <2> HIDE DEF m
  <2>4. CASE j \in DOMAIN results /\ results[j].outcome \notin SkipOutcomes \cup {"OK"}
    <3>1. ApplyMarkers(doc, results)[j] = [doc[j] EXCEPT !.marker = m]
      BY <2>4 DEF ApplyMarkers, m
    <3> QED
      BY <2>2, <2>3, <2>4, <3>1
  <2>5. CASE ~(j \in DOMAIN results /\ results[j].outcome \notin SkipOutcomes \cup {"OK"})
    BY <2>1, <2>5 DEF ApplyMarkers
  <2> QED
    BY <2>4, <2>5
<1> QED
  BY <1>1 DEF ApplyMarkers

\* What is inserted into a sequence, or taken out of it, leaves it one.
LEMMA InsertKeeps ==
  ASSUME NEW S, NEW s \in Seq(S), NEW j \in 1 .. Len(s) + 1, NEW x \in S
  PROVE  InsertAt(s, j, x) \in Seq(S)
<1>1. \A i \in 1 .. j - 1 : s[i] \in S
  OBVIOUS
<1>2. \A i \in j .. Len(s) : s[i] \in S
  OBVIOUS
<1>3. SubSeq(s, 1, j - 1) \in Seq(S) /\ SubSeq(s, j, Len(s)) \in Seq(S)
  BY <1>1, <1>2, SubSeqProperties
<1>4. <<x>> \in Seq(S)
  OBVIOUS
<1> QED
  BY <1>3, <1>4, ConcatProperties DEF InsertAt

LEMMA RemoveKeeps ==
  ASSUME NEW S, NEW s \in Seq(S), NEW j \in DOMAIN s
  PROVE  RemoveAt(s, j) \in Seq(S)
<1>1. \A i \in 1 .. j - 1 : s[i] \in S
  OBVIOUS
<1>2. \A i \in j + 1 .. Len(s) : s[i] \in S
  OBVIOUS
<1>3. SubSeq(s, 1, j - 1) \in Seq(S) /\ SubSeq(s, j + 1, Len(s)) \in Seq(S)
  BY <1>1, <1>2, SubSeqProperties
<1> QED
  BY <1>3, ConcatProperties DEF RemoveAt

\* A save leaves a sequence of blocks.
LEMMA EditedDocsAreDocs ==
  ASSUME NEW doc \in Seq(Block), NEW kind \in EditKinds \ {"include", "svg"},
         NEW d \in EditedDocs(kind, doc)
  PROVE  d \in Seq(Block)
<1>1. \A j \in DOMAIN doc : doc[j] \in Block
  OBVIOUS
<1>2. ASSUME NEW j \in DOMAIN doc, NEW b \in Block PROVE [doc EXCEPT ![j] = b] \in Seq(Block)
  OBVIOUS
<1>3. ASSUME NEW j \in 1 .. Len(doc) + 1, NEW b \in Block PROVE InsertAt(doc, j, b) \in Seq(Block)
  BY InsertKeeps
<1>4. ASSUME NEW j \in DOMAIN doc PROVE RemoveAt(doc, j) \in Seq(Block)
  BY RemoveKeeps
<1>5. \A b \in Block : /\ \A x \in Srcs : [b EXCEPT !.src = x] \in Block
                       /\ \A x \in Flags : [b EXCEPT !.flag = x] \in Block
                       /\ \A x \in Shapes : [b EXCEPT !.shape = x] \in Block
                       /\ \A x \in Marker : [b EXCEPT !.marker = x] \in Block
                       /\ \A o \in PathAttrs : HasMarker(b) => [b.marker EXCEPT !.path = o] \in Marker
  BY DEF Block, HasMarker, Marker
<1>6. \A x \in Srcs \cup Names : NewBlock(x) \in Block
  BY DEF NewBlock, Block, Flags, Shapes
<1>7. \A n \in AuthorIds : [id |-> n, hash |-> NoHash, path |-> NoPath] \in Marker
  BY DEF Marker, PathAttrs, BlockIds
<1>8. CASE kind = "content"
  <2>1. PICK j \in DOMAIN doc, x \in Srcs : d = [doc EXCEPT ![j].src = x]
    BY <1>8, EmbedAssumption DEF EditedDocs
  <2> QED
    BY <1>1, <1>2, <1>5, <2>1
<1>9. CASE kind \in {"mode", "flag"}
  <2>1. PICK j \in DOMAIN doc, x \in Flags : d = [doc EXCEPT ![j].flag = x]
    BY <1>9, EmbedAssumption DEF EditedDocs, Flags
  <2> QED
    BY <1>1, <1>2, <1>5, <2>1
<1>10. CASE kind = "fence"
  <2>1. PICK j \in DOMAIN doc, x \in Shapes : d = [doc EXCEPT ![j].shape = x]
    BY <1>10, EmbedAssumption DEF EditedDocs, Shapes
  <2> QED
    BY <1>1, <1>2, <1>5, <2>1
<1>11. CASE kind = "insert"
  <2>1. PICK j \in 1 .. Len(doc) + 1, x \in Srcs \cup Names : d = InsertAt(doc, j, NewBlock(x))
    BY <1>11, EmbedAssumption DEF EditedDocs
  <2> QED
    BY <1>3, <1>6, <2>1
<1>12. CASE kind = "delete"
  <2>1. PICK j \in DOMAIN doc : d = RemoveAt(doc, j)
    BY <1>12, EmbedAssumption DEF EditedDocs
  <2> QED
    BY <1>4, <2>1
<1>13. CASE kind = "copy"
  <2>1. PICK j \in DOMAIN doc : d = InsertAt(doc, j + 1, doc[j])
    BY <1>13, EmbedAssumption DEF EditedDocs
  <2>2. j + 1 \in 1 .. Len(doc) + 1
    OBVIOUS
  <2> QED
    BY <1>1, <1>3, <2>1, <2>2
<1>14. CASE kind = "path"
  <2>1. PICK j \in DOMAIN doc, o \in PathAttrs : HasMarker(doc[j]) /\ d = [doc EXCEPT ![j].marker.path = o]
    BY <1>14, EmbedAssumption DEF EditedDocs
  <2>2. [doc[j] EXCEPT !.marker.path = o] \in Block
    BY <1>1, <1>5, <2>1
  <2> QED
    BY <1>2, <2>1, <2>2
<1>15. CASE kind = "author"
  <2>1. PICK j \in DOMAIN doc, n \in AuthorIds :
          d = [doc EXCEPT ![j].marker = [id |-> n, hash |-> NoHash, path |-> NoPath]]
    BY <1>15, EmbedAssumption DEF EditedDocs
  <2> QED
    BY <1>1, <1>2, <1>5, <1>7, <2>1
<1> QED
  BY <1>8, <1>9, <1>10, <1>11, <1>12, <1>13, <1>14, <1>15, EmbedAssumption

(* ---------------------------------------------------------------------- *)
(* Type correctness, and what a run has in hand.                           *)

FitInv == TypeOK /\ RunsAreFit

LEMMA BusyRuns ==
  ASSUME FitInv, NEW p \in Procs, Busy(p)
  PROVE  run[p] \in RunType /\ RunIsFit(run[p])
BY DEF FitInv, TypeOK, RunsAreFit, Busy, Idle

\* A step of one process that leaves it idle, or with a fit run.
LEMMA OneRunMoves ==
  ASSUME FitInv, NEW p \in Procs, NEW r \in RunType \cup {Idle}, r # Idle => RunIsFit(r),
         run' = [run EXCEPT ![p] = r]
  PROVE  run' \in [Procs -> {Idle} \cup RunType] /\ RunsAreFit'
<1>1. run' \in [Procs -> {Idle} \cup RunType]
  BY DEF FitInv, TypeOK
<1>2. ASSUME NEW q \in Procs, run'[q].pc # "idle" PROVE RunIsFit(run'[q])
  <2>1. CASE q = p
    BY <1>2, <2>1 DEF FitInv, TypeOK, Idle
  <2>2. CASE q # p
    BY <1>2, <2>2 DEF FitInv, TypeOK, RunsAreFit, Busy
  <2> QED
    BY <2>1, <2>2
<1> QED
  BY <1>1, <1>2 DEF RunsAreFit, Busy

LEMMA SkipSteps ==
  ASSUME FitInv, NEW p \in Procs, SkipBlock(p) \/ KeepBlock(p) \/ CountStale(p)
  PROVE  FitInv'
<1>1. run[p] \in RunType /\ RunIsFit(run[p]) /\ Current(p) \in Result
  BY BusyRuns DEF SkipBlock, KeepBlock, CountStale, AtBlock, Busy, Current, RunType
<1>2. PICK b \in Nat \ {0}, keep \in SUBSET SvgPaths, stale \in BOOLEAN :
        run' = [run EXCEPT ![p] = [run[p] EXCEPT !.b = b, !.keep = keep, !.stale = stale]]
  <2>1. run[p].b + 1 \in Nat \ {0} /\ run[p].stale \in BOOLEAN /\ run[p].keep \in SUBSET SvgPaths
        /\ Current(p).path \in SvgPaths
    BY <1>1 DEF RunType, Result
  <2>2. run \in [Procs -> {Idle} \cup RunType]
    BY DEF FitInv, TypeOK
  <2>3. CASE SkipBlock(p)
    <3> DEFINE broken == Current(p).outcome \in {"MissingSrc", "BadMeta"}
    <3>1. run' = [run EXCEPT ![p] = [run[p] EXCEPT !.b = run[p].b + 1, !.keep = run[p].keep,
                                                    !.stale = run[p].stale \/ broken]]
      BY <1>1, <2>2, <2>3 DEF SkipBlock, RunType
    <3> QED
      BY <2>1, <3>1
  <2>4. CASE KeepBlock(p)
    <3>1. run' = [run EXCEPT ![p] = [run[p] EXCEPT !.b = run[p].b + 1,
                                                    !.keep = run[p].keep \cup {Current(p).path},
                                                    !.stale = run[p].stale]]
      BY <1>1, <2>2, <2>4 DEF KeepBlock, RunType
    <3> QED
      BY <2>1, <3>1
  <2>5. CASE CountStale(p)
    <3>1. run' = [run EXCEPT ![p] = [run[p] EXCEPT !.b = run[p].b + 1,
                                                    !.keep = run[p].keep \cup {Current(p).path},
                                                    !.stale = TRUE]]
      BY <1>1, <2>2, <2>5 DEF CountStale, RunType
    <3> QED
      BY <2>1, <3>1
  <2> QED
    BY <2>3, <2>4, <2>5
<1> DEFINE r == [run[p] EXCEPT !.b = b, !.keep = keep, !.stale = stale]
<1>3. r \in RunType /\ r # Idle /\ RunIsFit(r)
  BY <1>1 DEF RunType, RunIsFit, Idle
<1> HIDE DEF r
<1>4. run' \in [Procs -> {Idle} \cup RunType] /\ RunsAreFit'
  BY <1>2, <1>3, OneRunMoves DEF r
<1> QED
  BY <1>4 DEF FitInv, TypeOK, SkipBlock, KeepBlock, CountStale, history, counters

LEMMA OpenStep ==
  ASSUME FitInv, NEW p \in Procs, OpenFile(p)
  PROVE  FitInv'
<1> DEFINE f == Head(run[p].todo)
           results == Analyze(f, docs[f], incs)
           pc == IF results = <<>> THEN "open" ELSE "block"
           r == [run[p] EXCEPT !.todo = Tail(run[p].todo), !.file = f, !.text = docs[f],
                               !.blocks = results, !.b = 1, !.keep = run[p].keep,
                               !.stale = run[p].stale, !.pc = pc]
<1>1. run[p] \in RunType /\ RunIsFit(run[p]) /\ run[p].pc = "open" /\ run[p].todo # <<>>
  BY BusyRuns DEF OpenFile, Opened, Busy
<1>2. run[p].todo \in Seq(Files)
  BY <1>1 DEF RunType
<1>3. f \in Files /\ Tail(run[p].todo) \in Seq(Files) /\ Len(Tail(run[p].todo)) = Len(run[p].todo) - 1
      /\ f \in Range(run[p].todo) /\ Range(Tail(run[p].todo)) \subseteq Range(run[p].todo)
  BY <1>1, <1>2 DEF Range
<1>4. f \notin Ignored
  BY <1>1, <1>3 DEF RunIsFit
<1>5. docs[f] \in Seq(Block) /\ incs \in Includes
  BY <1>3 DEF FitInv, TypeOK, Includes
<1>6. /\ results \in Seq(Result)
      /\ \A j \in DOMAIN results : results[j].outcome \notin SkipOutcomes => results[j].hash # Missing
  <2>1. DOMAIN results = 1 .. Len(Scanned(docs[f])) /\ results \in Seq(Result)
    BY <1>3, <1>5, AnalyzeReturns
  <2>2. ASSUME NEW j \in DOMAIN results, results[j].outcome \notin SkipOutcomes
        PROVE  results[j].hash # Missing
    <3>1. Live(docs[f][j], incs) /\ results[j].hash = Content(docs[f][j], incs)
      BY <1>3, <1>5, <2>1, <2>2, AnalyzeReturns, SMTT(30)
    <3>2. docs[f][j] \in Block
      BY <1>5, <2>1, <2>2, ScannedIsThePrefix
    <3> QED
      BY <1>5, <3>1, <3>2, FirstOutcomes
  <2> QED
    BY <2>1, <2>2
<1>7. run' = [run EXCEPT ![p] = r]
  BY Zenon DEF OpenFile, Opened
<1>8. r.todo = Tail(run[p].todo) /\ r.file = f /\ r.blocks = results /\ r.pc = pc
      /\ r.opts = run[p].opts /\ r.dropped = run[p].dropped
  BY <1>1 DEF RunType
<1>9. r \in RunType
  <2>1. pc \in {"open", "block"} /\ run[p].keep \in SUBSET SvgPaths /\ run[p].stale \in BOOLEAN
    BY <1>1 DEF RunType
  <2> HIDE DEF f, results, pc
  <2>2. 1 \in Nat \ {0}
    OBVIOUS
  <2> DEFINE half == [run[p] EXCEPT !.todo = Tail(run[p].todo), !.file = f, !.text = docs[f],
                                    !.blocks = results]
  <2>3. half \in RunType
    BY <1>1, <1>3, <1>5, <1>6 DEF RunType
  <2>4. r = [half EXCEPT !.b = 1, !.keep = run[p].keep, !.stale = run[p].stale, !.pc = pc]
    BY <1>1 DEF RunType
  <2> HIDE DEF half, r
  <2>5. \A b \in Nat \ {0}, keep \in SUBSET SvgPaths, stale \in BOOLEAN, at \in {"open", "block"} :
          [half EXCEPT !.b = b, !.keep = keep, !.stale = stale, !.pc = at] \in RunType
    BY <2>3 DEF RunType
  <2> QED
    BY <2>1, <2>2, <2>4, <2>5
<1>10. RunIsFit(r)
  <2> HIDE DEF r, f, results
  <2>1. (Range(r.todo) \cup r.dropped) \cap Ignored = {}
    BY <1>1, <1>3, <1>8 DEF RunIsFit
  <2>2. ~r.opts.whole => r.todo = <<>> /\ r.dropped \subseteq {f}
    <3>1. CASE run[p].opts.whole
      BY <1>8, <3>1
    <3>2. CASE ~run[p].opts.whole
      <4>1. Len(run[p].todo) = 1 /\ run[p].dropped = {}
        BY <1>1, <3>2 DEF RunIsFit
      <4>2. Len(Tail(run[p].todo)) = 0
        BY <1>3, <4>1
      <4>3. Tail(run[p].todo) = <<>>
        BY <1>3, <4>2, EmptySeq
      <4>4. r.todo = <<>> /\ r.dropped = {}
        BY <1>8, <4>1, <4>3, Zenon
      <4> QED
        BY <4>4
    <3> QED
      BY <3>1, <3>2
  <2>3. f # NoPath
    BY <1>3, EmbedAssumption
  <2> QED
    BY <1>1, <1>3, <1>4, <1>6, <1>8, <2>1, <2>2, <2>3 DEF RunIsFit
<1> HIDE DEF r
<1>11. run' \in [Procs -> {Idle} \cup RunType] /\ RunsAreFit'
  BY <1>7, <1>9, <1>10, OneRunMoves
<1> QED
  BY <1>11, Zenon DEF FitInv, TypeOK, OpenFile, Opened, history, counters

\* The block whose SVG is to be rendered has a source.
LEMMA CurrentIsAResult ==
  ASSUME FitInv, NEW p \in Procs, MustRender(p)
  PROVE  /\ run[p] \in RunType /\ RunIsFit(run[p]) /\ run[p].pc = "block" /\ run[p].opts.write
         /\ run[p].b \in DOMAIN run[p].blocks
         /\ Current(p) \in Result /\ Current(p).hash \in Srcs
<1>1. run[p] \in RunType /\ RunIsFit(run[p]) /\ run[p].pc = "block" /\ run[p].opts.write
  BY BusyRuns DEF MustRender, AtBlock, Busy
<1>2. run[p].blocks \in Seq(Result) /\ run[p].b \in 1 .. Len(run[p].blocks)
  BY <1>1 DEF MustRender, AtBlock, RunType
<1>3. Current(p) \in Result /\ Current(p).hash # Missing
  BY <1>1, <1>2 DEF Current, RunIsFit, MustRender, Skipped
<1> QED
  BY <1>1, <1>2, <1>3 DEF Result

\* The end of the step that takes a block over into the markers.
LEMMA HandledRuns ==
  ASSUME FitInv, NEW p \in Procs, MustRender(p), NEW pc \in {"block", "drop"}, Handled(p, pc)
  PROVE  run' \in [Procs -> {Idle} \cup RunType] /\ RunsAreFit'
<1>1. /\ run[p] \in RunType /\ RunIsFit(run[p]) /\ run[p].pc = "block" /\ run[p].opts.write
      /\ run[p].b \in DOMAIN run[p].blocks /\ Current(p) \in Result /\ Current(p).hash \in Srcs
  BY CurrentIsAResult
<1> DEFINE o == IF Current(p).outcome = "OK" THEN "Rerender" ELSE Current(p).outcome
           res == [Current(p) EXCEPT !.outcome = o]
           blocks == [run[p].blocks EXCEPT ![run[p].b] = res]
           b == IF pc = "block" THEN run[p].b + 1 ELSE run[p].b
           keep == run[p].keep \cup {Current(p).path}
           r == [run[p] EXCEPT !.pc = pc, !.b = b, !.keep = keep, !.blocks = blocks]
<1>2. res \in Result /\ res.hash # Missing /\ Current(p).path \in SvgPaths
  <2>1. Missing \notin Srcs
    BY EmbedAssumption
  <2> QED
    BY <1>1, <2>1 DEF Result
<1>3. run' = [run EXCEPT ![p] = r]
  BY <1>1, ZenonT(60) DEF Handled, Current
<1>4. blocks \in Seq(Result) /\ DOMAIN blocks = DOMAIN run[p].blocks
      /\ \A j \in DOMAIN blocks : blocks[j] = IF j = run[p].b THEN res ELSE run[p].blocks[j]
  <2> HIDE DEF res
  <2> QED
    BY <1>1, <1>2 DEF RunType
<1>5. b \in Nat \ {0} /\ keep \in SUBSET SvgPaths
  BY <1>1, <1>2 DEF RunType
<1> HIDE DEF blocks, b, keep, res
<1>6. r \in RunType
  BY <1>1, <1>4, <1>5 DEF RunType
<1>7. RunIsFit(r)
  BY <1>1, <1>2, <1>4 DEF RunType, RunIsFit
<1> HIDE DEF r
<1> QED
  BY <1>3, <1>6, <1>7, OneRunMoves

SvgsOK == DOMAIN svgs \subseteq SvgPaths /\ \A path \in DOMAIN svgs : svgs[path] \in Svg

\* What a write or a removal of an SVG leaves.
LEMMA SvgsStay ==
  ASSUME FitInv
  PROVE  /\ \A path \in SvgPaths, svg \in Svg : svgs' = WithSvg(path, svg) => SvgsOK'
         /\ \A path : svgs' = WithoutSvg(path) => SvgsOK'
         /\ svgs' = svgs => SvgsOK'
BY DEF FitInv, TypeOK, SvgsOK, WithSvg, WithoutSvg

LEMMA RenderSteps ==
  ASSUME FitInv, NEW p \in Procs, LeaveSvg(p) \/ WriteSvg(p)
  PROVE  FitInv'
<1>1. MustRender(p)
  BY DEF LeaveSvg, WriteSvg, Renders
<1>2. /\ run[p] \in RunType /\ Current(p) \in Result /\ Current(p).hash \in Srcs
  BY <1>1, CurrentIsAResult
<1>3. PICK pc \in {"block", "drop"} : Handled(p, pc)
  BY DEF LeaveSvg, WriteSvg
<1>4. run' \in [Procs -> {Idle} \cup RunType] /\ RunsAreFit'
  BY <1>1, <1>3, HandledRuns
<1>5. Rendered(Current(p)) \in Svg /\ Current(p).path \in SvgPaths
  BY <1>2 DEF Rendered, Svg, Result, SvgDirPaths
<1>6. SvgsOK'
  BY <1>5, SvgsStay DEF LeaveSvg, WriteSvg
<1> QED
  BY <1>4, <1>6 DEF FitInv, TypeOK, SvgsOK, LeaveSvg, WriteSvg, history, counters

LEMMA DropStep ==
  ASSUME FitInv, NEW p \in Procs, DropRenamed(p)
  PROVE  FitInv'
<1>1. run[p] \in RunType /\ RunIsFit(run[p]) /\ run[p].pc = "drop"
  BY BusyRuns DEF DropRenamed, Busy
<1> DEFINE b == run[p].b + 1
           gone == run[p].dropped \cup {run[p].file}
           r == [run[p] EXCEPT !.pc = "block", !.b = b, !.dropped = gone]
<1>2. run' = [run EXCEPT ![p] = r]
  BY <1>1 DEF DropRenamed
<1>3. b \in Nat \ {0} /\ run[p].file \in Files \ Ignored /\ gone \in SUBSET Files /\ gone \cap Ignored = {}
  BY <1>1 DEF RunType, RunIsFit
<1>4. run[p].opts.whole \/ (run[p].todo = <<>> /\ gone = {run[p].file})
  BY <1>1, <1>3, EmbedAssumption DEF RunIsFit
<1> HIDE DEF b
<1>5. r \in RunType
  <2> HIDE DEF gone
  <2> QED
    BY <1>1, <1>3 DEF RunType
<1>6. r.dropped = gone /\ r.todo = run[p].todo /\ r.opts = run[p].opts /\ r.file = run[p].file
      /\ r.pc = "block" /\ r.blocks = run[p].blocks
  BY <1>1 DEF RunType
<1>7. RunIsFit(r)
  <2> HIDE DEF r, gone
  <2> QED
    BY <1>1, <1>3, <1>4, <1>6, EmbedAssumption DEF RunIsFit
<1> HIDE DEF r
<1>8. run' \in [Procs -> {Idle} \cup RunType] /\ RunsAreFit'
  BY <1>2, <1>5, <1>7, OneRunMoves
<1>9. SvgsOK'
  BY SvgsStay DEF DropRenamed
<1> QED
  BY <1>8, <1>9 DEF FitInv, TypeOK, SvgsOK, DropRenamed, history, counters

LEMMA WriteStep ==
  ASSUME FitInv, NEW p \in Procs, WriteMd(p)
  PROVE  FitInv'
<1>1. run[p] \in RunType /\ RunIsFit(run[p]) /\ run[p].pc = "block"
  BY BusyRuns DEF WriteMd, Busy
<1> DEFINE r == [run[p] EXCEPT !.pc = "open"]
<1>2. run' = [run EXCEPT ![p] = r]
  BY DEF WriteMd
<1>3. r \in RunType /\ RunIsFit(r)
  BY <1>1 DEF RunType, RunIsFit
<1> HIDE DEF r
<1>4. run' \in [Procs -> {Idle} \cup RunType] /\ RunsAreFit'
  BY <1>2, <1>3, OneRunMoves
<1>5. docs' \in [Files -> Seq(Block)]
  <2> DEFINE text == ApplyMarkers(run[p].text, run[p].blocks)
  <2>1. run[p].text \in Seq(Block) /\ run[p].blocks \in Seq(Result)
        /\ \A j \in DOMAIN run[p].blocks :
             run[p].blocks[j].outcome \notin SkipOutcomes => run[p].blocks[j].hash # Missing
    BY <1>1 DEF RunType, RunIsFit
  <2>2. text \in Seq(Block)
    BY <2>1, ApplyMarkersReturns
  <2>3. docs \in [Files -> Seq(Block)]
    BY DEF FitInv, TypeOK
  <2>4. docs' \in {docs, [docs EXCEPT ![run[p].file] = text]}
    BY DEF WriteMd
  <2> HIDE DEF text
  <2> QED
    BY <2>2, <2>3, <2>4
<1> QED
  BY <1>4, <1>5 DEF FitInv, TypeOK, WriteMd, history, counters

LEMMA PruneSteps ==
  ASSUME FitInv, NEW p \in Procs, ListOrphans(p) \/ PruneOne(p)
  PROVE  FitInv'
<1>1. run[p] \in RunType /\ RunIsFit(run[p])
  BY BusyRuns DEF ListOrphans, PruneOne, Busy
<1>2. CASE ListOrphans(p)
  <2> DEFINE orphans == (DOMAIN svgs \ Overrides) \ run[p].keep
             r == [run[p] EXCEPT !.pc = "prune", !.orphans = orphans]
  <2>1. run' = [run EXCEPT ![p] = r]
    BY <1>2 DEF ListOrphans
  <2>2. orphans \in SUBSET SvgDirPaths
    BY DEF FitInv, TypeOK, SvgPaths
  <2> HIDE DEF orphans
  <2>3. r \in RunType
    BY <1>1, <2>2 DEF RunType
  <2>4. RunIsFit(r)
    BY <1>1, <1>2 DEF RunType, RunIsFit, ListOrphans, Prunes
  <2> HIDE DEF r
  <2>5. run' \in [Procs -> {Idle} \cup RunType] /\ RunsAreFit'
    BY <2>1, <2>3, <2>4, OneRunMoves
  <2> QED
    BY <1>2, <2>5 DEF FitInv, TypeOK, ListOrphans, history, counters
<1>3. CASE PruneOne(p)
  <2>1. PICK path \in run[p].orphans :
          IF path \in DOMAIN svgs
          THEN /\ svgs' = WithoutSvg(path)
               /\ run' = [run EXCEPT ![p].orphans = @ \ {path}]
          ELSE /\ run' = [run EXCEPT ![p] = Idle]
               /\ UNCHANGED svgs
    BY <1>3 DEF PruneOne
  <2> DEFINE orphans == run[p].orphans \ {path}
             r == [run[p] EXCEPT !.orphans = orphans]
  <2>2. SvgsOK'
    BY <2>1, SvgsStay
  <2>3. orphans \in SUBSET SvgDirPaths
    BY <1>1 DEF RunType
  <2>4. run' = [run EXCEPT ![p] = r] \/ run' = [run EXCEPT ![p] = Idle]
    BY <2>1
  <2> HIDE DEF orphans
  <2>5. r \in RunType /\ RunIsFit(r)
    BY <1>1, <2>3 DEF RunType, RunIsFit
  <2> HIDE DEF r
  <2>6. run' \in [Procs -> {Idle} \cup RunType] /\ RunsAreFit'
    BY <2>4, <2>5, OneRunMoves
  <2> QED
    BY <1>3, <2>2, <2>6 DEF FitInv, TypeOK, SvgsOK, PruneOne, history, counters
<1> QED
  BY <1>2, <1>3

LEMMA AbortStep ==
  ASSUME FitInv, NEW p \in Procs, AbortRender(p)
  PROVE  FitInv'
<1>1. run' \in [Procs -> {Idle} \cup RunType] /\ RunsAreFit'
  BY OneRunMoves DEF AbortRender
<1> QED
  BY <1>1 DEF FitInv, TypeOK, AbortRender, history, counters

LEMMA FinishStep ==
  ASSUME FitInv, NEW p \in Procs, Finish(p)
  PROVE  FitInv'
<1>1. run[p] \in RunType /\ RunIsFit(run[p])
  BY BusyRuns DEF Finish, Busy
<1>2. run' \in [Procs -> {Idle} \cup RunType] /\ RunsAreFit'
  BY OneRunMoves DEF Finish
<1> DEFINE writes == run[p].calm /\ run[p].opts.write
           whole == run[p].opts.whole
<1>3. synced' = (IF ~writes THEN synced ELSE IF whole THEN Files \ Ignored ELSE synced \cup {run[p].file})
  BY DEF Finish
<1>4. dropped' = (IF ~writes THEN dropped ELSE IF whole THEN run[p].dropped
                 ELSE (dropped \ {run[p].file}) \cup run[p].dropped)
  BY DEF Finish
<1> HIDE DEF writes
<1>5. synced \subseteq Files \ Ignored /\ dropped \subseteq synced
  BY DEF FitInv, TypeOK
<1>6. run[p].dropped \subseteq Files \ Ignored
  BY <1>1 DEF RunType, RunIsFit
<1>7. ~whole => run[p].file \in Files \ Ignored /\ run[p].dropped \subseteq {run[p].file}
  <2>1. SUFFICES ASSUME ~whole PROVE run[p].file \in Files \ Ignored /\ run[p].dropped \subseteq {run[p].file}
    OBVIOUS
  <2>2. run[p].todo = <<>>
    BY <1>1, <2>1 DEF Finish, RunIsFit
  <2>3. run[p].file # NoPath
    BY <1>1, <2>1, <2>2 DEF RunIsFit
  <2> QED
    BY <1>1, <2>1, <2>3 DEF RunIsFit, RunType
<1>8. synced' \subseteq Files \ Ignored /\ dropped' \subseteq synced'
  <2> HIDE DEF whole
  <2>1. CASE ~writes
    BY <1>3, <1>4, <1>5, <2>1
  <2>2. CASE writes /\ whole
    BY <1>3, <1>4, <1>6, <2>2
  <2>3. CASE writes /\ ~whole
    BY <1>3, <1>4, <1>5, <1>7, <2>3
  <2> QED
    BY <2>1, <2>2, <2>3
<1>9. swept' \in BOOLEAN
  BY Zenon DEF Finish, FitInv, TypeOK
<1>10. checked' \in {"none", "pass", "fail"}
  BY DEF Finish, FitInv, TypeOK
<1> QED
  BY <1>2, <1>8, <1>9, <1>10 DEF FitInv, TypeOK, Finish, counters

LEMMA CrashStep ==
  ASSUME FitInv, NEW p \in Procs, Crash(p)
  PROVE  FitInv'
<1>1. run' \in [Procs -> {Idle} \cup RunType] /\ RunsAreFit'
  BY OneRunMoves DEF Crash
<1>2. crashes' \in 0 .. MaxCrashes
  BY EmbedAssumption DEF Crash, FitInv, TypeOK
<1>3. SvgsOK'
  <2>1. CASE svgs' = svgs
    BY <2>1, SvgsStay
  <2>2. CASE svgs' # svgs
    <3>1. PICK cut \in Cuts :
            /\ Renders(p)
            /\ svgs' = WithSvg(Current(p).path, CutShort(Current(p), cut))
      BY <2>2 DEF Crash
    <3>2. Current(p) \in Result /\ Current(p).hash \in Srcs
      BY <3>1, CurrentIsAResult DEF Renders
    <3>3. CutShort(Current(p), cut) \in Svg
      BY <3>2 DEF CutShort, Result, Rendered, Svg, SvgDirPaths
    <3>4. Current(p).path \in SvgPaths
      BY <3>2 DEF Result
    <3> QED
      BY <3>1, <3>3, <3>4, SvgsStay
  <2> QED
    BY <2>1, <2>2
<1> QED
  BY <1>1, <1>2, <1>3 DEF FitInv, TypeOK, SvgsOK, Crash, history

\* A disturbed run is as fit as before.
LEMMA DisturbedRuns ==
  ASSUME FitInv
  PROVE  /\ Disturbed(run) \in [Procs -> {Idle} \cup RunType]
         /\ \A q \in Procs : Disturbed(run)[q] # Idle => RunIsFit(Disturbed(run)[q])
         /\ \A q \in Procs : /\ Disturbed(run)[q].pc = run[q].pc
                             /\ Busy(q) => /\ ~Disturbed(run)[q].calm
                                            /\ Disturbed(run)[q].opts = run[q].opts
<1>1. ASSUME NEW q \in Procs, ~Busy(q) PROVE Disturbed(run)[q] = Idle /\ run[q] = Idle
  BY <1>1, BusyRuns DEF FitInv, TypeOK, Disturbed, Busy, RunType
<1>2. ASSUME NEW q \in Procs, Busy(q)
      PROVE  /\ Disturbed(run)[q] = [run[q] EXCEPT !.calm = FALSE]
             /\ [run[q] EXCEPT !.calm = FALSE] \in RunType
             /\ RunIsFit([run[q] EXCEPT !.calm = FALSE])
             /\ [run[q] EXCEPT !.calm = FALSE].pc = run[q].pc
             /\ ~[run[q] EXCEPT !.calm = FALSE].calm
             /\ [run[q] EXCEPT !.calm = FALSE].opts = run[q].opts
  <2>1. run[q] \in RunType /\ RunIsFit(run[q])
    BY <1>2, BusyRuns
  <2>2. Disturbed(run)[q] = [run[q] EXCEPT !.calm = FALSE]
    BY <1>2 DEF Disturbed, Busy
  <2>3. [run[q] EXCEPT !.calm = FALSE] \in RunType
    BY <2>1 DEF RunType
  <2>4. RunIsFit([run[q] EXCEPT !.calm = FALSE])
    BY <2>1 DEF RunType, RunIsFit
  <2> QED
    BY <2>1, <2>2, <2>3, <2>4 DEF RunType
<1>3. ASSUME NEW q \in Procs PROVE Disturbed(run)[q] \in {Idle} \cup RunType
  BY <1>1, <1>2
<1>4. Disturbed(run) \in [Procs -> {Idle} \cup RunType]
  BY <1>3 DEF Disturbed
<1> QED
  BY <1>1, <1>2, <1>4

\* A run on files no pattern ignores starts fit.
LEMMA StartStep ==
  ASSUME FitInv, NEW p \in Procs, ~Busy(p), NEW todo \in Seq(Files), Range(todo) \cap Ignored = {},
         NEW opts \in Opts, opts.whole => (opts.force => opts.write), ~opts.whole => Len(todo) = 1,
         Started(p, todo, opts)
  PROVE  FitInv'
<1> DEFINE calm == AllIdleBut(p)
           r == [pc |-> "open", todo |-> todo, opts |-> opts, file |-> NoPath, text |-> <<>>,
                 blocks |-> <<>>, b |-> 1, keep |-> {}, orphans |-> {}, stale |-> FALSE,
                 dropped |-> {}, calm |-> calm]
<1>1. run' = [Disturbed(run) EXCEPT ![p] = r]
  BY DEF Started
<1>2. calm \in BOOLEAN
  BY DEF AllIdleBut
<1> HIDE DEF calm
<1>3. r \in RunType
  <2>1. <<>> \in Seq(Block) /\ <<>> \in Seq(Result) /\ 1 \in Nat \ {0}
    OBVIOUS
  <2> QED
    BY <1>2, <2>1 DEF RunType
<1>4. RunIsFit(r)
  <2>1. r.opts = opts /\ r.todo = todo /\ r.pc = "open" /\ r.file = NoPath /\ r.dropped = {}
        /\ r.blocks = <<>>
    OBVIOUS
  <2> HIDE DEF r
  <2> QED
    BY <2>1 DEF RunIsFit
<1> HIDE DEF r
<1>5. run' \in [Procs -> {Idle} \cup RunType]
  BY <1>1, <1>3, DisturbedRuns
<1>6. ASSUME NEW q \in Procs, run'[q].pc # "idle" PROVE RunIsFit(run'[q])
  <2>1. CASE q = p
    BY <1>1, <1>4, <2>1, DisturbedRuns
  <2>2. CASE q # p
    <3>1. run'[q] = Disturbed(run)[q]
      BY <1>1, <2>2, DisturbedRuns
    <3> QED
      BY <1>6, <3>1, DisturbedRuns DEF Idle
  <2> QED
    BY <2>1, <2>2
<1>7. checked' \in {"none", "pass", "fail"}
  BY DEF Started, FitInv, TypeOK
<1> QED
  BY <1>5, <1>6, <1>7 DEF FitInv, TypeOK, RunsAreFit, Busy, Started, counters

LEMMA StartSteps ==
  ASSUME FitInv, (\E p \in Clis, opts \in CliModes : StartCli(p, opts))
                 \/ (\E p \in Rpcs, f \in Files, opts \in RpcModes : StartRpc(p, f, opts))
  PROVE  FitInv'
<1>1. ASSUME NEW f \in Files \ Ignored
      PROVE  <<f>> \in Seq(Files) /\ Range(<<f>>) \cap Ignored = {} /\ Len(<<f>>) = 1
  BY DEF Range
<1>2. ASSUME NEW p \in Clis, NEW opts \in CliModes, StartCli(p, opts) PROVE FitInv'
  <2>1. p \in Procs /\ opts \in Opts /\ (opts.force => opts.write) /\ ~Busy(p)
    BY <1>2, EmbedAssumption DEF Procs, StartCli
  <2>2. CASE opts.whole
    BY <1>2, <2>1, <2>2, KeptAssumption, StartStep DEF StartCli
  <2>3. CASE ~opts.whole
    <3>1. PICK f \in Range(Kept) : Started(p, <<f>>, opts)
      BY <1>2, <2>3 DEF StartCli
    <3>2. f \in Files \ Ignored
      BY KeptAssumption
    <3> QED
      BY <1>1, <2>1, <2>3, <3>1, <3>2, StartStep
  <2> QED
    BY <2>2, <2>3
<1>3. ASSUME NEW p \in Rpcs, NEW f \in Files, NEW opts \in RpcModes, StartRpc(p, f, opts) PROVE FitInv'
  <2>1. p \in Procs /\ opts \in Opts /\ ~opts.whole /\ ~Busy(p) /\ f \in Files \ Ignored /\ Started(p, <<f>>, opts)
    BY <1>3, EmbedAssumption DEF Procs, StartRpc
  <2> QED
    BY <1>1, <2>1, StartStep
<1> QED
  BY <1>2, <1>3

LEMMA SaveSteps ==
  ASSUME FitInv, (\E f \in Files : SaveDoc(f)) \/ (\E n \in Names : SaveInclude(n)) \/ LoseSvg
  PROVE  FitInv'
<1>1. Saved
  BY DEF SaveDoc, SaveInclude, LoseSvg
<1>2. run' \in [Procs -> {Idle} \cup RunType] /\ RunsAreFit'
  BY <1>1, DisturbedRuns DEF Saved, RunsAreFit, Busy, Idle
<1>3. saves' \in 0 .. MaxSaves /\ crashes' \in 0 .. MaxCrashes /\ checked' = "none" /\ swept' = FALSE
      /\ synced' = {} /\ dropped' = {}
  BY <1>1, EmbedAssumption DEF Saved, FitInv, TypeOK
<1>4. docs' \in [Files -> Seq(Block)]
  <2>1. CASE docs' = docs
    BY <2>1 DEF FitInv, TypeOK
  <2>2. CASE docs' # docs
    <3>1. PICK f \in Files : SaveDoc(f)
      BY <2>2 DEF SaveInclude, LoseSvg
    <3>2. PICK kind \in EditKinds \ {"include", "svg"} : \E doc \in EditedDocs(kind, docs[f]) :
            docs' = [docs EXCEPT ![f] = doc]
      BY <3>1 DEF SaveDoc
    <3>3. PICK doc \in EditedDocs(kind, docs[f]) : docs' = [docs EXCEPT ![f] = doc]
      BY <3>2
    <3>4. docs \in [Files -> Seq(Block)] /\ docs[f] \in Seq(Block)
      BY DEF FitInv, TypeOK
    <3>5. doc \in Seq(Block)
      BY <3>4, EditedDocsAreDocs
    <3> QED
      BY <3>3, <3>4, <3>5
  <2> QED
    BY <2>1, <2>2
<1>5. incs' \in [Names -> Srcs \cup {Missing}]
  BY DEF SaveDoc, SaveInclude, LoseSvg, FitInv, TypeOK
<1>6. SvgsOK'
  <2>1. CASE svgs' = svgs
    BY <2>1, SvgsStay
  <2>2. CASE svgs' # svgs
    <3>1. PICK path \in DOMAIN svgs :
            \/ svgs' = WithoutSvg(path)
            \/ \E s \in (Srcs \ BadSrcs) \ {svgs[path].hash} :
                  svgs' = [svgs EXCEPT ![path].hash = s, ![path].whole = TRUE]
      BY <2>2 DEF SaveDoc, SaveInclude, LoseSvg
    <3>2. CASE svgs' = WithoutSvg(path)
      BY <3>2, SvgsStay
    <3>3. ASSUME NEW s \in Srcs, svgs' = [svgs EXCEPT ![path].hash = s, ![path].whole = TRUE]
          PROVE  SvgsOK'
      <4>1. [svgs[path] EXCEPT !.hash = s, !.whole = TRUE] \in Svg
        BY DEF FitInv, TypeOK, Svg
      <4>2. DOMAIN svgs' = DOMAIN svgs /\ \A q \in DOMAIN svgs :
              svgs'[q] = IF q = path THEN [svgs[path] EXCEPT !.hash = s, !.whole = TRUE] ELSE svgs[q]
        BY <3>3
      <4> QED
        BY <4>1, <4>2 DEF FitInv, TypeOK, SvgsOK
    <3> QED
      BY <3>1, <3>2, <3>3
  <2> QED
    BY <2>1, <2>2
<1> QED
  BY <1>2, <1>3, <1>4, <1>5, <1>6 DEF FitInv, TypeOK, SvgsOK

LEMMA FitInit == Init => FitInv
<1> SUFFICES ASSUME Init PROVE FitInv
  OBVIOUS
<1>1. run \in [Procs -> {Idle} \cup RunType] /\ RunsAreFit
  BY DEF Init, RunsAreFit, Busy, Idle
<1>2. docs \in [Files -> Seq(Block)] /\ incs \in [Names -> Srcs \cup {Missing}]
  BY TreeAssumption DEF Init
<1>3. saves \in 0 .. MaxSaves /\ crashes \in 0 .. MaxCrashes
  BY EmbedAssumption DEF Init
<1>4. SvgsOK
  BY DEF Init, SvgsOK
<1> QED
  BY <1>1, <1>2, <1>3, <1>4 DEF Init, FitInv, TypeOK, SvgsOK

LEMMA FitStep == FitInv /\ [Next]_vars => FitInv'
<1> SUFFICES ASSUME FitInv, [Next]_vars PROVE FitInv'
  OBVIOUS
<1>1. ASSUME NEW p \in Procs, Step(p) \/ Crash(p) PROVE FitInv'
  BY <1>1, OpenStep, SkipSteps, RenderSteps, DropStep, AbortStep, WriteStep, PruneSteps, FinishStep,
     CrashStep DEF Step
<1>2. CASE UNCHANGED vars
  BY <1>2 DEF vars, history, counters, FitInv, TypeOK, RunsAreFit, Busy
<1> QED
  BY <1>1, <1>2, StartSteps, SaveSteps DEF Next

\* Every file is a sequence of blocks, every SVG file has a path of the tree or of an override, and
\* every run is on files that no pattern ignores and writes no marker without a source
\* (main.go:150-387).
THEOREM TypeCorrect == Spec => []TypeOK
<1>1. FitInv => TypeOK
  BY DEF FitInv
<1> QED
  BY FitInit, FitStep, <1>1, PTL DEF Spec

(* ---------------------------------------------------------------------- *)
(* What --check says of the tree.                                          *)

\* What the analysis says of a block against what the tree holds.
LEMMA ResultsTell ==
  ASSUME TypeOK, NEW f \in Files \ Ignored, NEW j \in DOMAIN Analyze(f, docs[f], incs)
  PROVE  LET r == Analyze(f, docs[f], incs)[j]
         IN  /\ r.outcome \in SkipOutcomes <=> j \notin LiveBlocks(f)
             /\ r.outcome \in {"MissingSrc", "BadMeta"} => OutOfSync
             /\ r.outcome = "OK" /\ Fresh(r) => IsCurrent(f, j)
             /\ r.outcome \notin SkipOutcomes /\ ~(r.outcome = "OK" /\ Fresh(r)) => OutOfSync
<1> DEFINE doc == docs[f]
           r == Analyze(f, doc, incs)[j]
<1>1. doc \in Seq(Block) /\ incs \in Includes /\ f \in Files
  BY DEF TypeOK, Includes
<1> HIDE DEF doc
<1>2. Analyze(f, doc, incs) \in Seq(Result) /\ Len(Analyze(f, doc, incs)) = Len(Scanned(doc))
  BY <1>1, AnalyzeReturns
<1>3. j \in 1 .. Len(Scanned(doc))
  BY <1>2 DEF doc
<1>4. /\ Scanned(doc) \in Seq(Block) /\ Len(Scanned(doc)) <= Len(doc)
      /\ \A k \in 1 .. Len(Scanned(doc)) : doc[k] \in Block
  BY <1>1, ScannedIsThePrefix
<1>5. \A k : k \in LiveBlocks(f) <=> k \in 1 .. Len(Scanned(doc)) /\ Live(doc[k], incs)
  BY <1>4 DEF LiveBlocks, doc
<1>6. /\ r.outcome \in SkipOutcomes <=> ~Live(doc[j], incs)
      /\ r.outcome \in SkipOutcomes => r.outcome = FirstOutcome(doc[j], incs)
      /\ r.outcome \notin SkipOutcomes \cup {"OK"} =>
           \/ ~HasMarker(doc[j])
           \/ doc[j].marker.hash # Content(doc[j], incs)
           \/ \E k \in 1 .. j - 1 : Live(doc[k], incs) /\ FirstId(doc[k]) = FirstId(doc[j])
      /\ r.hash = Content(doc[j], incs)
      /\ r.path = PathOf(f, r.id, Override(doc[j]))
      /\ r.outcome = "OK" => /\ HasMarker(doc[j])
                             /\ doc[j].marker.hash = Content(doc[j], incs)
                             /\ r.id = doc[j].marker.id
  BY <1>1, <1>3, AnalyzeReturns
<1> HIDE DEF r
<1>7. r.outcome \in SkipOutcomes <=> j \notin LiveBlocks(f)
  BY <1>3, <1>5, <1>6
<1>8. r.outcome \in {"MissingSrc", "BadMeta"} => OutOfSync
  <2>1. j \in DOMAIN doc
    BY <1>1, <1>3, <1>4
  <2>2. r.outcome \in {"MissingSrc", "BadMeta"} => FirstOutcome(doc[j], incs) = r.outcome
    BY <1>6 DEF SkipOutcomes
  <2> QED
    BY <1>1, <2>1, <2>2 DEF OutOfSync, doc
<1>9. r.outcome = "OK" => r.path = SvgOf(f, j)
  BY <1>6 DEF SvgOf, Override, doc
<1>10. ASSUME r.outcome = "OK", Fresh(r) PROVE IsCurrent(f, j)
  <2>1. Analyze(f, docs[f], incs)[j].outcome = "OK"
    BY <1>10 DEF r, doc
  <2> QED
    BY <1>6, <1>9, <1>10, <2>1 DEF IsCurrent, Fresh, doc
<1>11. ASSUME r.outcome \notin SkipOutcomes, ~(r.outcome = "OK" /\ Fresh(r)) PROVE OutOfSync
  <2>1. SUFFICES ASSUME InSync(f) PROVE FALSE
    BY DEF OutOfSync
  <2>2. \A k \in LiveBlocks(f) :
          /\ HasMarker(doc[k])
          /\ \A l \in LiveBlocks(f) \ {k} : doc[l].marker # NoMarker => doc[l].marker.id # doc[k].marker.id
          /\ doc[k].marker.hash = Content(doc[k], incs)
          /\ Shows(SvgAt(SvgOf(f, k)), Content(doc[k], incs), doc[k].flag)
    BY <2>1 DEF InSync, doc
  <2>3. j \in LiveBlocks(f) /\ doc[j] \in Block /\ Live(doc[j], incs)
    BY <1>3, <1>4, <1>5, <1>7, <1>11
  <2>4. CASE r.outcome = "OK"
    <3>1. Content(doc[j], incs) \in Srcs /\ doc[j].flag \in Flags
      BY <1>1, <2>3, FirstOutcomes DEF Block
    <3>2. SvgAt(SvgOf(f, j)) # Missing /\ SvgAt(SvgOf(f, j)).hash = Content(doc[j], incs)
      BY <2>2, <2>3 DEF Shows
    <3> QED
      BY <1>6, <1>9, <1>11, <2>4, <3>2 DEF Fresh
  <2>5. CASE r.outcome # "OK"
    <3>1. HasMarker(doc[j]) /\ doc[j].marker.hash = Content(doc[j], incs)
      BY <2>2, <2>3
    <3>2. PICK k \in 1 .. j - 1 : Live(doc[k], incs) /\ FirstId(doc[k]) = FirstId(doc[j])
      BY <1>6, <1>11, <2>5, <3>1
    <3>3. k \in LiveBlocks(f) /\ k # j
      BY <1>3, <1>4, <1>5, <3>2
    <3>4. HasMarker(doc[k])
      BY <2>2, <3>3
    <3>5. doc[k].marker.id = doc[j].marker.id /\ doc[k].marker # NoMarker
      BY <3>1, <3>2, <3>4 DEF FirstId, HasMarker
    <3> QED
      BY <2>2, <2>3, <3>3, <3>5
  <2> QED
    BY <2>4, <2>5
<1> QED
  BY <1>7, <1>8, <1>10, <1>11 DEF r, doc

\* A step of a process moves its own run only, keeps the flags it was started with, and unless the
\* run writes, leaves the tree alone.
LEMMA RunsKeepTheirFlags ==
  ASSUME FitInv, NEW p \in Procs, Step(p) \/ Crash(p)
  PROVE  /\ Busy(p)
         /\ \A q \in Procs \ {p} : run'[q] = run[q]
         /\ Busy(p)' => run'[p].calm = run[p].calm /\ run'[p].opts = run[p].opts
         /\ incs' = incs
         /\ ~run[p].opts.write => docs' = docs /\ svgs' = svgs
         /\ ~Finish(p) => checked' = checked
<1>1. Busy(p)
  BY Zenon DEF Step, Crash, Busy, OpenFile, Opened, SkipBlock, KeepBlock, CountStale, LeaveSvg, WriteSvg,
         DropRenamed, AbortRender, WriteMd, ListOrphans, PruneOne, Finish, Renders, MustRender, AtBlock
<1>2. run[p] \in RunType /\ RunIsFit(run[p]) /\ run \in [Procs -> {Idle} \cup RunType]
  BY <1>1, BusyRuns DEF FitInv, TypeOK
<1>3. ~run[p].opts.write => run[p].pc \in {"open", "block"}
  BY <1>2, Zenon DEF RunIsFit
<1> DEFINE Moves == /\ \A q \in Procs \ {p} : run'[q] = run[q]
                    /\ Busy(p)' => run'[p].calm = run[p].calm /\ run'[p].opts = run[p].opts
           Keeps == /\ incs' = incs
                    /\ ~run[p].opts.write => docs' = docs /\ svgs' = svgs
                    /\ ~Finish(p) => checked' = checked
<1>4. CASE OpenFile(p)
  BY <1>2, <1>4, Zenon DEF OpenFile, Opened, RunType, Busy, history
<1>5. CASE SkipBlock(p)
  BY <1>2, <1>5 DEF SkipBlock, RunType, Busy, history
<1>6. CASE KeepBlock(p)
  BY <1>2, <1>6 DEF KeepBlock, RunType, Busy, history
<1>7. CASE CountStale(p)
  BY <1>2, <1>7 DEF CountStale, RunType, Busy, history
<1>8. CASE LeaveSvg(p) \/ WriteSvg(p)
  <2>1. PICK pc \in {"block", "drop"} : Handled(p, pc)
    BY <1>8 DEF LeaveSvg, WriteSvg
  <2>2. Moves
    BY <1>2, <2>1 DEF Handled, RunType, Busy
  <2>3. Keeps
    BY <1>8 DEF LeaveSvg, WriteSvg, Renders, MustRender, history
  <2> QED
    BY <1>1, <2>2, <2>3
<1>9. CASE DropRenamed(p)
  <2>1. Moves
    BY <1>2, <1>9 DEF DropRenamed, RunType, Busy
  <2>2. Keeps
    BY <1>3, <1>9 DEF DropRenamed, history
  <2> QED
    BY <1>1, <2>1, <2>2
<1>10. CASE AbortRender(p)
  BY <1>1, <1>2, <1>10 DEF AbortRender, Busy, Idle, history
<1>11. CASE WriteMd(p)
  BY <1>1, <1>2, <1>11 DEF WriteMd, RunType, Busy, history
<1>12. CASE ListOrphans(p)
  BY <1>1, <1>2, <1>12 DEF ListOrphans, RunType, Busy, history
<1>13. CASE PruneOne(p)
  <2>1. PICK path \in run[p].orphans :
          IF path \in DOMAIN svgs
          THEN /\ svgs' = WithoutSvg(path)
               /\ run' = [run EXCEPT ![p].orphans = @ \ {path}]
          ELSE /\ run' = [run EXCEPT ![p] = Idle]
               /\ UNCHANGED svgs
    BY <1>13 DEF PruneOne
  <2>2. Moves
    BY <1>2, <2>1 DEF RunType, Busy, Idle
  <2>3. Keeps
    BY <1>3, <1>13 DEF PruneOne, history
  <2> QED
    BY <1>1, <2>2, <2>3
<1>14. CASE Finish(p)
  BY <1>1, <1>2, <1>14 DEF Finish, Busy, Idle
<1>15. CASE Crash(p)
  <2>1. Moves
    BY <1>2, <1>15 DEF Crash, Busy, Idle
  <2>2. Keeps
    BY <1>15 DEF Crash, Renders, MustRender, history
  <2> QED
    BY <1>1, <2>1, <2>2
<1> QED
  BY <1>4, <1>5, <1>6, <1>7, <1>8, <1>9, <1>10, <1>11, <1>12, <1>13, <1>14, <1>15, Zenon DEF Step

\* An undisturbed run is alone.
LEMMA CalmStep ==
  ASSUME FitInv, CalmIsAlone, [Next]_vars
  PROVE  CalmIsAlone'
<1>1. ASSUME NEW p \in Procs, Step(p) \/ Crash(p) PROVE CalmIsAlone'
  <2>1. /\ Busy(p)
        /\ \A q \in Procs \ {p} : run'[q] = run[q]
        /\ Busy(p)' => run'[p].calm = run[p].calm /\ run'[p].opts = run[p].opts
    BY <1>1, RunsKeepTheirFlags
  <2> QED
    BY <2>1 DEF CalmIsAlone, AllIdleBut, Busy
<1>2. ASSUME NEW p \in Procs, NEW todo, NEW opts, Started(p, todo, opts) PROVE CalmIsAlone'
  <2>1. /\ \A q \in Procs \ {p} : run'[q] = Disturbed(run)[q]
        /\ run'[p].calm = AllIdleBut(p)
    BY <1>2, DisturbedRuns DEF Started
  <2>2. ASSUME NEW q \in Procs, Busy(q)', run'[q].calm PROVE AllIdleBut(q)'
    <3>1. CASE q = p
      BY <2>1, <2>2, <3>1, DisturbedRuns DEF AllIdleBut, Busy
    <3>2. CASE q # p
      BY <2>1, <2>2, <3>2, DisturbedRuns DEF Busy
    <3> QED
      BY <3>1, <3>2
  <2> QED
    BY <2>2 DEF CalmIsAlone
<1>3. CASE Saved
  BY <1>3, DisturbedRuns DEF Saved, CalmIsAlone, Busy
<1>4. CASE UNCHANGED vars
  BY <1>4 DEF vars, CalmIsAlone, AllIdleBut, Busy
<1> QED
  BY <1>1, <1>2, <1>3, <1>4 DEF Next, StartCli, StartRpc, SaveDoc, SaveInclude, LoseSvg, Procs

\* As long as a verdict stands no run writes.
LEMMA VerdictStep ==
  ASSUME FitInv, CalmIsAlone, VerdictStands, [Next]_vars
  PROVE  VerdictStands'
<1>1. ASSUME NEW p \in Procs, Step(p) \/ Crash(p) PROVE VerdictStands'
  <2>1. /\ \A q \in Procs \ {p} : run'[q] = run[q]
        /\ Busy(p) /\ Busy(p)' => run'[p].opts = run[p].opts
        /\ ~Finish(p) => checked' = checked
    BY <1>1, RunsKeepTheirFlags
  <2>2. CASE checked' = checked
    BY <2>1, <2>2, <1>1, RunsKeepTheirFlags DEF VerdictStands, Busy
  <2>3. CASE checked' # checked
    <3>1. Finish(p) /\ run[p].calm /\ Busy(p)
      BY <1>1, <2>1, <2>3, RunsKeepTheirFlags DEF Finish
    <3>2. \A q \in Procs \ {p} : ~Busy(q)
      BY <3>1 DEF CalmIsAlone, AllIdleBut
    <3>3. \A q \in Procs : ~Busy(q)'
      BY <2>1, <3>1, <3>2 DEF Finish, Busy, FitInv, TypeOK, Idle
    <3> QED
      BY <3>3 DEF VerdictStands
  <2> QED
    BY <2>2, <2>3
<1>2. ASSUME NEW p \in Procs, NEW todo, NEW opts, Started(p, todo, opts) PROVE VerdictStands'
  <2>1. /\ \A q \in Procs \ {p} : run'[q] = Disturbed(run)[q]
        /\ run'[p].opts = opts
        /\ checked' = IF opts.write THEN "none" ELSE checked
    BY <1>2, DisturbedRuns DEF Started
  <2> QED
    BY <2>1, DisturbedRuns DEF VerdictStands, Busy
<1>3. CASE Saved
  BY <1>3 DEF Saved, VerdictStands
<1>4. CASE UNCHANGED vars
  BY <1>4 DEF vars, history, VerdictStands, Busy
<1> QED
  BY <1>1, <1>2, <1>3, <1>4 DEF Next, StartCli, StartRpc, SaveDoc, SaveInclude, LoseSvg, Procs

\* What is said of the tree depends on the tree only.
LEMMA TheTreeStays ==
  ASSUME docs' = docs, incs' = incs, svgs' = svgs
  PROVE  /\ \A f, j : IsCurrent(f, j)' <=> IsCurrent(f, j)
         /\ \A f : LiveBlocks(f)' = LiveBlocks(f)
         /\ OutOfSync' <=> OutOfSync
<1>1. \A f : LiveBlocks(f)' = LiveBlocks(f)
  BY DEF LiveBlocks
<1>2. \A f, j : SvgOf(f, j)' = SvgOf(f, j)
  BY DEF SvgOf
<1>3. \A path : SvgAt(path)' = SvgAt(path)
  BY DEF SvgAt
<1>4. \A f : InSync(f)' <=> InSync(f)
  BY <1>1, <1>2, <1>3 DEF InSync
<1> QED
  BY <1>1, <1>2, <1>3, <1>4 DEF IsCurrent, OutOfSync

Checks(p) == Busy(p) /\ run[p].calm /\ run[p].opts.whole /\ ~run[p].opts.write

\* A check reads the next file.
LEMMA CheckOpens ==
  ASSUME FitInv, NEW p \in Procs, Checks(p), CheckSoFar(run[p]), OpenFile(p)
  PROVE  CheckSoFar(run[p])'
<1> DEFINE f == Head(run[p].todo)
           results == Analyze(f, docs[f], incs)
           r == run'[p]
<1>1. run[p] \in RunType /\ RunIsFit(run[p]) /\ run[p].pc = "open" /\ run[p].todo # <<>>
  BY BusyRuns, Zenon DEF OpenFile, Opened, Busy
<1>2. docs' = docs /\ incs' = incs /\ svgs' = svgs
  BY Zenon DEF OpenFile, Opened
<1>3. /\ r.todo = Tail(run[p].todo) /\ r.file = f /\ r.blocks = results /\ r.b = 1
      /\ r.stale = run[p].stale /\ r.pc = IF results = <<>> THEN "open" ELSE "block"
  BY <1>1, Zenon DEF OpenFile, Opened, RunType, FitInv, TypeOK
<1>4. run[p].todo \in Seq(Files)
  BY <1>1 DEF RunType
<1>5. f \in Files /\ f \in Range(run[p].todo) /\ Range(run[p].todo) \subseteq {f} \cup Range(Tail(run[p].todo))
  <2> DEFINE todo == run[p].todo
  <2> HIDE DEF todo
  <2>1. todo \in Seq(Files) /\ todo # <<>> /\ f = Head(todo)
    BY <1>1, <1>4 DEF todo
  <2> HIDE DEF f
  <2>2. 1 \in DOMAIN todo /\ f = todo[1]
    BY <2>1
  <2>3. f \in Files
    BY <2>1, <2>2
  <2>4. f \in Range(todo)
    BY <2>2 DEF Range
  <2>5. ASSUME NEW k \in DOMAIN todo PROVE todo[k] = f \/ todo[k] \in Range(Tail(todo))
    <3>1. CASE k = 1
      BY <2>2, <3>1
    <3>2. CASE k # 1
      <4>1. k - 1 \in DOMAIN Tail(todo) /\ todo[k] = Tail(todo)[k - 1]
        BY <2>1, <3>2
      <4> QED
        BY <4>1 DEF Range
    <3> QED
      BY <3>1, <3>2
  <2>6. Range(todo) \subseteq {f} \cup Range(Tail(todo))
    BY <2>5 DEF Range
  <2> QED
    BY <2>3, <2>4, <2>6 DEF todo
<1>6. f \notin Ignored
  BY <1>1, <1>5 DEF RunIsFit
<1> HIDE DEF r
<1>7. r.pc = "block" => r.blocks = Analyze(r.file, docs[r.file], incs)
  BY <1>3
<1>8. results = <<>> => LiveBlocks(f) = {}
  <2>1. docs[f] \in Seq(Block) /\ incs \in Includes
    BY <1>5 DEF FitInv, TypeOK, Includes
  <2>2. Len(results) = Len(Scanned(docs[f])) /\ Scanned(docs[f]) \in Seq(Block)
    BY <1>5, <2>1, AnalyzeReturns, ScannedIsThePrefix
  <2> HIDE DEF results, f
  <2> QED
    BY <2>2 DEF LiveBlocks
<1>9. \A j \in LiveBlocks(f) : j >= 1
  <2>1. docs[f] \in Seq(Block)
    BY <1>5 DEF FitInv, TypeOK
  <2>2. Scanned(docs[f]) \in Seq(Block)
    BY <2>1, ScannedIsThePrefix
  <2> QED
    BY <2>2 DEF LiveBlocks
<1> HIDE DEF f, results
<1>10. ASSUME ~r.stale, NEW g \in Files \ Ignored PROVE PassSoFar(r, g)
  <2>1. PassSoFar(run[p], g)
    BY <1>3, <1>10 DEF CheckSoFar
  <2>2. CASE g = f
    <3>1. CASE results = <<>>
      BY <1>8, <2>2, <3>1 DEF PassSoFar
    <3>2. CASE results # <<>>
      <4>1. r.pc = "block" /\ r.file = f /\ r.b = 1
        BY <1>3, <3>2
      <4>2. \A j \in LiveBlocks(f) : ~(j < r.b)
        <5>1. \A j \in LiveBlocks(f) : j \in Nat
          <6>1. docs[f] \in Seq(Block)
            BY <1>5 DEF FitInv, TypeOK
          <6>2. Scanned(docs[f]) \in Seq(Block)
            BY <6>1, ScannedIsThePrefix
          <6> QED
            BY <6>2 DEF LiveBlocks
        <5> QED
          BY <1>9, <4>1, <5>1
      <4> QED
        BY <2>2, <4>1, <4>2 DEF PassSoFar
    <3> QED
      BY <3>1, <3>2
  <2>3. CASE g # f
    BY <1>1, <1>3, <1>5, <2>1, <2>3 DEF PassSoFar
  <2> QED
    BY <2>2, <2>3
<1>11. r.stale => OutOfSync
  BY <1>3 DEF CheckSoFar
<1>12. CheckSoFar(r)
  BY <1>7, <1>10, <1>11 DEF CheckSoFar
<1> QED
  BY <1>2, <1>12, TheTreeStays, SMTT(30) DEF CheckSoFar, PassSoFar, r

\* A check looks at one block.
LEMMA CheckLooks ==
  ASSUME FitInv, NEW p \in Procs, Checks(p), CheckSoFar(run[p]),
         SkipBlock(p) \/ KeepBlock(p) \/ CountStale(p)
  PROVE  CheckSoFar(run[p])'
<1> DEFINE f == run[p].file
           j == run[p].b
           c == Analyze(f, docs[f], incs)[j]
           r == run'[p]
<1>1. run[p] \in RunType /\ RunIsFit(run[p]) /\ run[p].pc = "block" /\ j <= Len(run[p].blocks)
  BY BusyRuns DEF SkipBlock, KeepBlock, CountStale, AtBlock, Busy
<1>2. docs' = docs /\ incs' = incs /\ svgs' = svgs
  BY DEF SkipBlock, KeepBlock, CountStale
<1>3. run[p].blocks = Analyze(f, docs[f], incs) /\ j \in DOMAIN run[p].blocks /\ Current(p) = c
  BY <1>1 DEF CheckSoFar, RunType, Current
<1>4. f \in Files \ Ignored /\ TypeOK
  BY <1>1 DEF RunIsFit, FitInv
<1>5. ~run[p].opts.force
  BY <1>1 DEF RunIsFit, Checks
<1>6. /\ r.todo = run[p].todo /\ r.file = f /\ r.blocks = run[p].blocks /\ r.pc = "block"
      /\ r.b = j + 1
  BY <1>1 DEF SkipBlock, KeepBlock, CountStale, RunType, FitInv, TypeOK
<1>7. r.stale = (run[p].stale \/ IF c.outcome \in SkipOutcomes THEN c.outcome \in {"MissingSrc", "BadMeta"}
                                 ELSE ~(c.outcome = "OK" /\ Fresh(c)))
  <2>1. run[p].stale \in BOOLEAN
    BY <1>1 DEF RunType
  <2>2. CASE SkipBlock(p)
    <3>1. r.stale = (run[p].stale \/ Current(p).outcome \in {"MissingSrc", "BadMeta"})
      BY <1>1, <2>2 DEF SkipBlock, FitInv, TypeOK, RunType
    <3>2. Current(p).outcome \in SkipOutcomes
      BY <2>2 DEF SkipBlock, Skipped
    <3> HIDE DEF r, c
    <3>3. c.outcome \in SkipOutcomes /\ r.stale = (run[p].stale \/ c.outcome \in {"MissingSrc", "BadMeta"})
      BY <1>3, <3>1, <3>2
    <3> QED
      BY <3>3
  <2>3. CASE KeepBlock(p)
    <3>1. r.stale = run[p].stale
      BY <1>1, <2>3 DEF KeepBlock, FitInv, TypeOK, RunType
    <3>2. Current(p).outcome \notin SkipOutcomes /\ Current(p).outcome = "OK" /\ Fresh(Current(p))
      BY <2>3 DEF KeepBlock, Skipped, Unchanged
    <3> QED
      BY <1>3, <2>1, <3>1, <3>2, Zenon
  <2>4. CASE CountStale(p)
    <3>1. r.stale = TRUE
      BY <1>1, <2>4 DEF CountStale, FitInv, TypeOK, RunType
    <3>2. Current(p).outcome \notin SkipOutcomes /\ ~(Current(p).outcome = "OK" /\ Fresh(Current(p)))
      BY <1>5, <2>4 DEF CountStale, Skipped, Unchanged
    <3> QED
      BY <1>3, <2>1, <3>1, <3>2, Zenon
  <2> QED
    BY <2>2, <2>3, <2>4
<1>8. /\ c.outcome \in SkipOutcomes <=> j \notin LiveBlocks(f)
      /\ c.outcome \in {"MissingSrc", "BadMeta"} => OutOfSync
      /\ c.outcome = "OK" /\ Fresh(c) => IsCurrent(f, j)
      /\ c.outcome \notin SkipOutcomes /\ ~(c.outcome = "OK" /\ Fresh(c)) => OutOfSync
  BY <1>3, <1>4, ResultsTell
<1>9. j \in Nat /\ \A k \in LiveBlocks(f) : k \in Nat
  <2>1. docs[f] \in Seq(Block)
    BY <1>4 DEF TypeOK
  <2>2. Scanned(docs[f]) \in Seq(Block)
    BY <2>1, ScannedIsThePrefix
  <2> QED
    BY <1>1, <2>2 DEF LiveBlocks, RunType
<1> HIDE DEF r, c, j, f
<1>10. r.stale => OutOfSync
  BY <1>7, <1>8, Zenon DEF CheckSoFar
<1>11. ~r.stale => ~run[p].stale /\ (j \in LiveBlocks(f) => IsCurrent(f, j))
  BY <1>7, <1>8, Zenon
<1>12. ASSUME ~r.stale, NEW g \in Files \ Ignored PROVE PassSoFar(r, g)
  <2>1. PassSoFar(run[p], g)
    BY <1>11, <1>12 DEF CheckSoFar
  <2>2. CASE run[p].pc = "block" /\ g = f /\ \A k \in LiveBlocks(f) : k < j => IsCurrent(f, k)
    <3>1. ASSUME NEW k \in LiveBlocks(f), k < r.b PROVE IsCurrent(f, k)
      <4>1. k < j \/ k = j
        BY <1>6, <1>9, <3>1
      <4> QED
        BY <1>11, <1>12, <2>2, <4>1
    <3> QED
      BY <1>6, <2>2, <3>1 DEF PassSoFar
  <2>3. g \in Range(run[p].todo) \/ (\A k \in LiveBlocks(g) : IsCurrent(g, k)) => PassSoFar(r, g)
    BY <1>6 DEF PassSoFar
  <2> QED
    BY <2>1, <2>2, <2>3 DEF PassSoFar, f, j
<1>13. r.blocks = Analyze(r.file, docs[r.file], incs)
  BY <1>3, <1>6 DEF f
<1>14. CheckSoFar(r)
  BY <1>10, <1>12, <1>13 DEF CheckSoFar
<1> QED
  BY <1>2, <1>14, TheTreeStays DEF CheckSoFar, PassSoFar, r

\* A check is done with a file, whose live blocks are all current.
LEMMA CheckLeaves ==
  ASSUME FitInv, NEW p \in Procs, Checks(p), CheckSoFar(run[p]), WriteMd(p)
  PROVE  CheckSoFar(run[p])'
<1> DEFINE f == run[p].file
           r == run'[p]
<1>1. run[p] \in RunType /\ RunIsFit(run[p]) /\ run[p].pc = "block" /\ run[p].b > Len(run[p].blocks)
  BY BusyRuns DEF WriteMd, Busy
<1>2. docs' = docs /\ incs' = incs /\ svgs' = svgs
  BY DEF WriteMd, Checks
<1>3. run[p].blocks = Analyze(f, docs[f], incs)
  BY <1>1 DEF CheckSoFar
<1>4. r.todo = run[p].todo /\ r.stale = run[p].stale /\ r.pc = "open"
  BY <1>1 DEF WriteMd, RunType, FitInv, TypeOK
<1>5. f \in Files \ Ignored /\ docs[f] \in Seq(Block) /\ incs \in Includes
  BY <1>1 DEF RunIsFit, FitInv, TypeOK, Includes
<1>6. Len(run[p].blocks) = Len(Scanned(docs[f])) /\ Scanned(docs[f]) \in Seq(Block)
  BY <1>3, <1>5, AnalyzeReturns, ScannedIsThePrefix
<1>7. \A k \in LiveBlocks(f) : k < run[p].b
  BY <1>1, <1>6 DEF LiveBlocks, RunType
<1> HIDE DEF f, r
<1>8. ASSUME ~r.stale, NEW g \in Files \ Ignored PROVE PassSoFar(r, g)
  <2>1. PassSoFar(run[p], g)
    BY <1>4, <1>8 DEF CheckSoFar
  <2> QED
    BY <1>4, <1>7, <2>1 DEF PassSoFar, f
<1>9. CheckSoFar(r)
  BY <1>4, <1>8 DEF CheckSoFar
<1> QED
  BY <1>2, <1>9, TheTreeStays DEF CheckSoFar, PassSoFar, r

\* A check goes on as long as it is busy.
LEMMA CheckMoves ==
  ASSUME FitInv, NEW p \in Procs, Checks(p), CheckSoFar(run[p]), Step(p) \/ Crash(p), Busy(p)'
  PROVE  CheckSoFar(run[p])'
<1>1. run[p] \in RunType /\ RunIsFit(run[p]) /\ run \in [Procs -> {Idle} \cup RunType]
  BY BusyRuns DEF Checks, FitInv, TypeOK
<1>2. ~run[p].opts.write /\ run[p].pc \in {"open", "block"}
  BY <1>1 DEF Checks, RunIsFit
<1>3. ~(LeaveSvg(p) \/ WriteSvg(p) \/ AbortRender(p) \/ DropRenamed(p) \/ ListOrphans(p) \/ PruneOne(p))
  BY <1>2 DEF LeaveSvg, WriteSvg, AbortRender, DropRenamed, ListOrphans, PruneOne, Renders, MustRender,
              Prunes
<1>4. ~(Finish(p) \/ Crash(p))
  BY <1>1 DEF Finish, Crash, Busy, Idle
<1> QED
  BY <1>3, <1>4, CheckOpens, CheckLooks, CheckLeaves DEF Step

\* What a check has seen so far it goes on having seen.
LEMMA ChecksStep ==
  ASSUME FitInv, CalmIsAlone, ChecksAreRight, [Next]_vars
  PROVE  ChecksAreRight'
<1>1. ASSUME NEW p \in Procs, Step(p) \/ Crash(p) PROVE ChecksAreRight'
  <2>1. /\ Busy(p)
        /\ \A q \in Procs \ {p} : run'[q] = run[q]
        /\ Busy(p)' => run'[p].calm = run[p].calm /\ run'[p].opts = run[p].opts
    BY <1>1, RunsKeepTheirFlags
  <2>2. ASSUME NEW q \in Procs, Busy(q)', run'[q].calm, run'[q].opts.whole, ~run'[q].opts.write
        PROVE  CheckSoFar(run[q])'
    <3>1. q = p
      BY <2>1, <2>2 DEF CalmIsAlone, AllIdleBut, Busy
    <3>2. Checks(p)
      BY <2>1, <2>2, <3>1 DEF Checks
    <3> QED
      BY <1>1, <2>2, <3>1, <3>2, CheckMoves DEF ChecksAreRight, Checks
  <2> QED
    BY <2>2 DEF ChecksAreRight
<1>2. ASSUME NEW p \in Procs, NEW todo, NEW opts, ~Busy(p), Started(p, todo, opts),
             opts.whole => todo = Kept
      PROVE  ChecksAreRight'
  <2> DEFINE r == run'[p]
  <2>1. /\ \A q \in Procs \ {p} : run'[q] = Disturbed(run)[q]
        /\ r.pc = "open" /\ r.opts = opts /\ r.todo = todo /\ r.stale = FALSE
    BY <1>2, DisturbedRuns DEF Started
  <2>2. ASSUME NEW q \in Procs, Busy(q)', run'[q].calm, run'[q].opts.whole, ~run'[q].opts.write
        PROVE  CheckSoFar(run[q])'
    <3>1. q = p
      BY <2>1, <2>2, DisturbedRuns DEF Busy
    <3>2. Range(r.todo) = Files \ Ignored
      BY <1>2, <2>1, <2>2, <3>1, KeptAssumption
    <3> HIDE DEF r
    <3>3. CheckSoFar(r)
      BY <2>1, <3>2 DEF CheckSoFar, PassSoFar
    <3>4. docs' = docs /\ incs' = incs /\ svgs' = svgs
      BY <1>2 DEF Started
    <3> QED
      BY <3>1, <3>3, <3>4, TheTreeStays DEF CheckSoFar, PassSoFar, r
  <2> QED
    BY <2>2 DEF ChecksAreRight
<1>3. ASSUME NEW p \in Clis, NEW opts \in CliModes, StartCli(p, opts) PROVE ChecksAreRight'
  <2>1. p \in Procs /\ ~Busy(p)
    BY <1>3 DEF StartCli, Procs
  <2> QED
    BY <1>2, <1>3, <2>1 DEF StartCli
<1>4. ASSUME NEW p \in Rpcs, NEW f \in Files, NEW opts \in RpcModes, StartRpc(p, f, opts)
      PROVE  ChecksAreRight'
  <2>1. p \in Procs /\ ~Busy(p) /\ ~opts.whole
    BY <1>4, EmbedAssumption DEF StartRpc, Procs
  <2> QED
    BY <1>2, <1>4, <2>1 DEF StartRpc
<1>5. CASE Saved
  BY <1>5, DisturbedRuns DEF Saved, ChecksAreRight, Busy
<1>6. CASE UNCHANGED vars
  <2>1. docs' = docs /\ incs' = incs /\ svgs' = svgs /\ run' = run
    BY <1>6 DEF vars
  <2>2. ASSUME NEW p \in Procs, CheckSoFar(run[p]) PROVE CheckSoFar(run[p])'
    BY <2>1, <2>2, TheTreeStays DEF CheckSoFar, PassSoFar
  <2> QED
    BY <2>1, <2>2 DEF ChecksAreRight, Busy
<1> QED
  BY <1>1, <1>3, <1>4, <1>5, <1>6, Zenon DEF Next, SaveDoc, SaveInclude, LoseSvg

\* A verdict is right when it is given, and the tree stays as it is as long as it stands.
LEMMA VerdictIsRight ==
  ASSUME FitInv, CalmIsAlone, VerdictStands, ChecksAreRight, PassIsCurrent, FailIsHonest, [Next]_vars
  PROVE  PassIsCurrent' /\ FailIsHonest'
<1>1. ASSUME docs' = docs, incs' = incs, svgs' = svgs, checked' \in {checked, "none"}
      PROVE  PassIsCurrent' /\ FailIsHonest'
  BY <1>1, TheTreeStays DEF PassIsCurrent, FailIsHonest
<1>2. CASE checked' = "none"
  BY <1>2 DEF PassIsCurrent, FailIsHonest
<1>3. ASSUME NEW p \in Procs, Step(p) \/ Crash(p) PROVE PassIsCurrent' /\ FailIsHonest'
  <2>1. /\ Busy(p) /\ incs' = incs
        /\ ~run[p].opts.write => docs' = docs /\ svgs' = svgs
        /\ ~Finish(p) => checked' = checked
    BY <1>3, RunsKeepTheirFlags
  <2>2. CASE ~Finish(p)
    <3>1. CASE checked = "none"
      BY <1>2, <2>1, <2>2, <3>1
    <3>2. CASE checked # "none"
      BY <1>1, <2>1, <2>2, <3>2 DEF VerdictStands
    <3> QED
      BY <3>1, <3>2
  <2>3. CASE Finish(p)
    <3>1. docs' = docs /\ incs' = incs /\ svgs' = svgs
      BY <2>3 DEF Finish
    <3>2. CASE checked' = checked
      BY <1>1, <3>1, <3>2
    <3>3. CASE checked' # checked
      <4>1. /\ Checks(p)
            /\ checked' = IF run[p].stale THEN "fail" ELSE "pass"
        BY <2>1, <2>3, <3>3 DEF Finish, Checks
      <4>2. run[p] \in RunType /\ RunIsFit(run[p]) /\ CheckSoFar(run[p])
        BY <4>1, BusyRuns DEF Checks, ChecksAreRight
      <4>3. run[p].pc = "open" /\ run[p].todo = <<>>
        BY <2>3, <4>1, <4>2 DEF Finish, Checks, RunIsFit
      <4>4. ~run[p].stale => \A f \in Files \ Ignored : \A j \in LiveBlocks(f) : IsCurrent(f, j)
        <5>1. Range(run[p].todo) = {}
          BY <4>3 DEF Range
        <5> QED
          BY <4>2, <4>3, <5>1 DEF CheckSoFar, PassSoFar
      <4>5. run[p].stale => OutOfSync
        BY <4>2 DEF CheckSoFar
      <4> QED
        BY <3>1, <4>1, <4>4, <4>5, TheTreeStays DEF PassIsCurrent, FailIsHonest
    <3> QED
      BY <3>2, <3>3
  <2> QED
    BY <2>2, <2>3
<1>4. ASSUME NEW p \in Procs, NEW todo, NEW opts, Started(p, todo, opts)
      PROVE  PassIsCurrent' /\ FailIsHonest'
  <2>1. docs' = docs /\ incs' = incs /\ svgs' = svgs /\ checked' \in {checked, "none"}
    BY <1>4 DEF Started
  <2> QED
    BY <1>1, <2>1
<1>5. CASE Saved
  BY <1>2, <1>5 DEF Saved
<1>6. CASE UNCHANGED vars
  BY <1>1, <1>6 DEF vars, history
<1> QED
  BY <1>3, <1>4, <1>5, <1>6, Zenon DEF Next, StartCli, StartRpc, SaveDoc, SaveInclude, LoseSvg, Procs

LEMMA CheckInvHolds == Spec => []CheckInv
<1>1. Init => CheckInv
  <2>1. Init => FitInv
    BY FitInit
  <2>2. Init => CalmIsAlone /\ VerdictStands /\ ChecksAreRight /\ PassIsCurrent /\ FailIsHonest
    BY DEF Init, Idle, Busy, CalmIsAlone, VerdictStands, ChecksAreRight, PassIsCurrent, FailIsHonest
  <2> QED
    BY <2>1, <2>2 DEF CheckInv, FitInv
<1>2. CheckInv /\ [Next]_vars => CheckInv'
  BY FitStep, CalmStep, VerdictStep, ChecksStep, VerdictIsRight DEF CheckInv, FitInv
<1> QED
  BY <1>1, <1>2, PTL DEF Spec

\* When an undisturbed md-embed --check of the tree passes (main.go:196-207), every live block of
\* every file it looks at has a marker with the hash of its source and an SVG rendered from that
\* source, whatever crashed or concurrent runs there were, and it stays so until something is saved
\* or a run that writes is started.
THEOREM PassesAreCurrent == Spec => []PassIsCurrent
<1>1. CheckInv => PassIsCurrent
  BY DEF CheckInv
<1> QED
  BY <1>1, CheckInvHolds, PTL

\* When it fails (main.go:196-207), there is a file that is not in sync, or a block whose source is
\* missing or whose fence has bad metadata: a check never sends the author after nothing.
THEOREM FailsAreHonest == Spec => []FailIsHonest
<1>1. CheckInv => FailIsHonest
  BY DEF CheckInv
<1> QED
  BY <1>1, CheckInvHolds, PTL

(* ---------------------------------------------------------------------- *)
(* What a run repairs, in a tree without path= and without two ways to     *)
(* render a fence, where a crash cuts an SVG short before its meta comment *)
(* and every block that needs a key gets one.                              *)

PlainBlock(b) == b.flag # "solved" /\ (b.marker # NoMarker => b.marker.path = NoPath)
PlainDoc(doc) == \A j \in DOMAIN doc : PlainBlock(doc[j])

PlainTree ==
  /\ Cuts \subseteq {"before"}
  /\ EditKinds \cap {"mode", "path"} = {}
  /\ \A tree \in InitDocs : \A f \in Files : PlainDoc(tree[f])

Embedded(res) == res.outcome \notin SkipOutcomes
Distinct(results) ==
  \A j \in DOMAIN results : Embedded(results[j]) =>
     /\ results[j].id # NoId
     /\ \A k \in DOMAIN results \ {j} : Embedded(results[k]) => results[k].id # results[j].id
RoomForKeys == \A f \in Files \ Ignored : Distinct(Analyze(f, docs[f], incs))

(* The two halves of InSync, and the SVGs a file names.                    *)
Fixed(f) ==
  \A j \in LiveBlocks(f) :
     /\ HasMarker(docs[f][j])
     /\ docs[f][j].marker.hash = Content(docs[f][j], incs)
     /\ \A k \in LiveBlocks(f) \ {j} : FirstId(docs[f][k]) # FirstId(docs[f][j])
Shown(f) ==
  \A j \in LiveBlocks(f) :
     SvgAt(<<f, FirstId(docs[f][j])>>) =
       [hash  |-> Content(docs[f][j], incs),
        mode  |-> docs[f][j].flag,
        from  |-> <<f, FirstId(docs[f][j])>>,
        whole |-> TRUE]
LivePaths(f) == {<<f, FirstId(docs[f][j])>> : j \in LiveBlocks(f)}

Named(path) == \E f \in Files \ Ignored : Fixed(f) /\ path \in LivePaths(f)

(* The tree between two steps.                                             *)
PlainSvg(path, svg) == svg.mode = "plain" /\ svg.from = path /\ (svg.hash # NoHash => svg.whole)
TreeIsPlain ==
  /\ \A f \in Files : PlainDoc(docs[f])
  /\ \A path \in DOMAIN svgs : PlainSvg(path, svgs[path])
SyncedAreFixed == \A f \in synced : Fixed(f)
SyncedAreShown == \A f \in synced \ dropped : Shown(f)
SweptIsClean ==
  swept => synced = Files \ Ignored /\ \A path \in DOMAIN svgs \ Overrides : Named(path)
TreeInv == TreeIsPlain /\ SyncedAreFixed /\ SyncedAreShown /\ SweptIsClean

(* A run in the middle of a file.  What it has in hand is of that file,    *)
(* and what it handled it keeps.                                           *)
InHand(r) == r.pc \in {"block", "drop"}
HandIsPlain(r) ==
  InHand(r) =>
    /\ PlainDoc(r.text)
    /\ \A j \in DOMAIN r.blocks : Embedded(r.blocks[j]) =>
         /\ r.blocks[j].mode = "plain"
         /\ r.blocks[j].file = r.file
         /\ r.blocks[j].path = <<r.file, r.blocks[j].id>>
         /\ r.blocks[j].renamed # NoPath => \E id \in BlockIds : r.blocks[j].renamed = <<r.file, id>>
         /\ j < r.b \/ (j = r.b /\ r.pc = "drop") => r.blocks[j].path \in r.keep
    /\ r.pc = "drop" => /\ r.b \in DOMAIN r.blocks
                        /\ Embedded(r.blocks[r.b]) /\ r.blocks[r.b].renamed # NoPath

(* The results in hand are those of the analysis, up to the re-rendering.  *)
Near(rs, as) ==
  /\ DOMAIN rs = DOMAIN as
  /\ \A j \in DOMAIN as :
       \/ rs[j] = as[j]
       \/ as[j].outcome = "OK" /\ rs[j] = [as[j] EXCEPT !.outcome = "Rerender"]

(* An undisturbed run, and one on a synced file, has the file in hand as   *)
(* it is.                                                                  *)
HandIsCurrent(r) ==
  InHand(r) /\ (r.calm \/ r.file \in synced) =>
    r.text = docs[r.file] /\ Near(r.blocks, Analyze(r.file, docs[r.file], incs))

(* A run that prunes will meet the SVGs of a file before it does.          *)
Secure(r, f) ==
  /\ \/ f \in Range(r.todo)
     \/ InHand(r) /\ r.file = f
     \/ LivePaths(f) \subseteq r.keep
  /\ r.pc = "prune" => r.orphans \cap LivePaths(f) = {}
PruningIsSafe(r) ==
  r.opts.write /\ r.opts.whole => \A f \in Files \ Ignored : r.calm \/ f \in synced => Secure(r, f)

(* How far an undisturbed run has come with a file.                        *)
ShownSoFar(r) ==
  \A j \in DOMAIN r.blocks : j < r.b /\ Embedded(r.blocks[j]) =>
     SvgAt(r.blocks[j].path) = Rendered(r.blocks[j])
Repaired(r, f) ==
  \/ f \in Range(r.todo)
  \/ InHand(r) /\ r.file = f /\ (f \in r.dropped \/ ShownSoFar(r))
  \/ Fixed(f) /\ (f \in r.dropped \/ Shown(f))

(* And what it keeps besides the SVGs of the files as they are.            *)
Expected(r, path) ==
  \/ Named(path)
  \/ InHand(r) /\ \E j \in DOMAIN r.blocks : Embedded(r.blocks[j]) /\ path = r.blocks[j].path
Repairs(r) ==
  r.calm /\ r.opts.write =>
    /\ \A f \in Files \ Ignored : r.opts.whole \/ f = r.file => Repaired(r, f)
    /\ r.opts.whole =>
         /\ \A path \in r.keep : Expected(r, path)
         /\ r.pc = "prune" => r.todo = <<>> /\ DOMAIN svgs \ Overrides \subseteq r.keep \cup r.orphans

RunInv(r) == HandIsPlain(r) /\ HandIsCurrent(r) /\ PruningIsSafe(r) /\ Repairs(r)
RepairInv == TreeInv /\ \A p \in Procs : Busy(p) => RunInv(run[p])

\* An open fence ends the scan at the same block before and after.
LEMMA SameShapes ==
  ASSUME NEW doc \in Seq(Block), NEW d \in Seq(Block), DOMAIN d = DOMAIN doc,
         \A j \in DOMAIN doc : d[j].shape = doc[j].shape
  PROVE  DOMAIN Scanned(d) = DOMAIN Scanned(doc)
<1> DEFINE opens == {j \in DOMAIN doc : doc[j].shape = "open"}
           k == CHOOSE j \in opens : \A l \in opens : j <= l
<1>1. opens = {j \in DOMAIN d : d[j].shape = "open"}
  OBVIOUS
<1>2. Len(d) = Len(doc)
  OBVIOUS
<1>3. CASE opens = {}
  BY <1>1, <1>3 DEF Scanned
<1>4. CASE opens # {}
  <2>1. opens \in SUBSET Nat
    OBVIOUS
  <2>2. \E j \in opens : \A l \in opens : j <= l
    BY <1>4, <2>1, LeastElement
  <2>3. k \in opens
    BY <2>2
  <2>4. k \in 1 .. Len(doc)
    BY <2>3
  <2>5. Scanned(doc) = SubSeq(doc, 1, k) /\ Scanned(d) = SubSeq(d, 1, k)
    BY <1>1, <1>4, Zenon DEF Scanned
  <2> HIDE DEF k, opens
  <2> QED
    BY <1>2, <2>4, <2>5
<1> QED
  BY <1>3, <1>4

\* What a run has in hand of a file says of each of its blocks.
LEMMA NearTells ==
  ASSUME NEW f \in Files, NEW doc \in Seq(Block), NEW is \in Includes, PlainDoc(doc),
         NEW rs, Near(rs, Analyze(f, doc, is))
  PROVE  /\ DOMAIN rs = 1 .. Len(Scanned(doc)) /\ DOMAIN rs \subseteq DOMAIN doc
         /\ \A j \in DOMAIN rs :
              /\ Embedded(rs[j]) <=> Live(doc[j], is)
              /\ rs[j].hash = Content(doc[j], is) /\ rs[j].mode = doc[j].flag
              /\ rs[j].file = f /\ rs[j].id \in BlockIds
              /\ rs[j].path = <<f, rs[j].id>>
              /\ rs[j].renamed = RenamedFrom(f, doc[j], rs[j].id)
              /\ rs[j].outcome = "OK" => /\ HasMarker(doc[j])
                                         /\ doc[j].marker.hash = Content(doc[j], is)
                                         /\ rs[j].id = doc[j].marker.id
<1> DEFINE as == Analyze(f, doc, is)
<1>1. as \in Seq(Result) /\ Len(as) = Len(Scanned(doc)) /\ DOMAIN as = DOMAIN rs
  BY AnalyzeReturns DEF Near
<1>2. DOMAIN rs = 1 .. Len(Scanned(doc)) /\ DOMAIN rs \subseteq DOMAIN doc
  BY <1>1, ScannedIsThePrefix
<1>3. ASSUME NEW j \in DOMAIN rs
      PROVE  /\ Embedded(as[j]) <=> Live(doc[j], is)
             /\ as[j].hash = Content(doc[j], is) /\ as[j].mode = doc[j].flag
             /\ as[j].file = f /\ as[j].id \in BlockIds
             /\ as[j].path = PathOf(f, as[j].id, Override(doc[j]))
             /\ as[j].renamed = RenamedFrom(f, doc[j], as[j].id)
             /\ as[j].outcome = "OK" => /\ HasMarker(doc[j])
                                        /\ doc[j].marker.hash = Content(doc[j], is)
                                        /\ as[j].id = doc[j].marker.id
  <2>1. as[j] \in Result
    BY <1>1
  <2> QED
    BY <1>2, <2>1, AnalyzeReturns DEF Embedded, Result
<1>4. \A j \in DOMAIN rs : as[j] \in Result /\ Override(doc[j]) = NoPath
  BY <1>1, <1>2 DEF PlainDoc, PlainBlock, Override, HasMarker
<1>5. ASSUME NEW j \in DOMAIN rs
      PROVE  /\ Embedded(rs[j]) <=> Embedded(as[j])
             /\ rs[j].hash = as[j].hash /\ rs[j].mode = as[j].mode /\ rs[j].id = as[j].id
             /\ rs[j].path = as[j].path /\ rs[j].renamed = as[j].renamed /\ rs[j].file = as[j].file
             /\ rs[j].outcome = "OK" => as[j].outcome = "OK"
  <2>1. as[j] \in Result
    BY <1>4
  <2>2. CASE rs[j] = as[j]
    BY <2>2
  <2>3. CASE as[j].outcome = "OK" /\ rs[j] = [as[j] EXCEPT !.outcome = "Rerender"]
    BY <2>1, <2>3 DEF Result, Embedded, SkipOutcomes
  <2> QED
    BY <1>1, <2>2, <2>3 DEF Near
<1> HIDE DEF as
<1>6. ASSUME NEW j \in DOMAIN rs
      PROVE  /\ Embedded(rs[j]) <=> Live(doc[j], is)
             /\ rs[j].hash = Content(doc[j], is) /\ rs[j].mode = doc[j].flag
             /\ rs[j].file = f /\ rs[j].id \in BlockIds
             /\ rs[j].path = <<f, rs[j].id>>
             /\ rs[j].renamed = RenamedFrom(f, doc[j], rs[j].id)
             /\ rs[j].outcome = "OK" => /\ HasMarker(doc[j])
                                        /\ doc[j].marker.hash = Content(doc[j], is)
                                        /\ rs[j].id = doc[j].marker.id
  BY <1>3, <1>4, <1>5 DEF PathOf
<1> QED
  BY <1>2, <1>6

\* An embedded block has a source, and its SVG is rendered one way.
LEMMA LiveBlocksAreWhole ==
  ASSUME NEW b \in Block, NEW is \in Includes, PlainBlock(b), Live(b, is)
  PROVE  b.flag = "plain" /\ Content(b, is) \in Srcs
<1>1. Content(b, is) \in Srcs
  BY FirstOutcomes
<1>2. b.shape \notin {"open", "nosrc"} /\ Content(b, is) # Missing
  BY FirstOutcomes DEF Live, FirstOutcome, SkipOutcomes
<1>3. b.flag \notin {"bad", "embedfalse"}
  BY <1>2 DEF Live, FirstOutcome, SkipOutcomes
<1> QED
  BY <1>1, <1>3 DEF PlainBlock, Block, Flags

\* An embedded block has a source.
LEMMA NearHasSources ==
  ASSUME NEW f \in Files, NEW doc \in Seq(Block), NEW is \in Includes, PlainDoc(doc),
         NEW rs, Near(rs, Analyze(f, doc, is))
  PROVE  \A j \in DOMAIN rs : Embedded(rs[j]) => rs[j].hash \in Srcs /\ rs[j].hash # Missing
<1>1. ASSUME NEW j \in DOMAIN rs, Embedded(rs[j]) PROVE rs[j].hash \in Srcs /\ rs[j].hash # Missing
  <2>1. j \in DOMAIN doc /\ Live(doc[j], is) /\ rs[j].hash = Content(doc[j], is)
    BY <1>1, NearTells
  <2>2. doc[j] \in Block
    BY <2>1
  <2> QED
    BY <2>1, <2>2, FirstOutcomes
<1> QED
  BY <1>1

\* A marker that is written has no path=, and its block is otherwise as before.
LEMMA MarkersArePlain ==
  ASSUME NEW doc, PlainDoc(doc), NEW rs
  PROVE  /\ PlainDoc(ApplyMarkers(doc, rs))
         /\ DOMAIN ApplyMarkers(doc, rs) = DOMAIN doc
<1>1. DOMAIN ApplyMarkers(doc, rs) = DOMAIN doc
  BY DEF ApplyMarkers
<1>2. ASSUME NEW j \in DOMAIN doc PROVE PlainBlock(ApplyMarkers(doc, rs)[j])
  <2> DEFINE m == [id |-> rs[j].id, hash |-> rs[j].hash, path |-> Override(doc[j])]
  <2>1. PlainBlock(doc[j])
    BY DEF PlainDoc
  <2>2. Override(doc[j]) = NoPath
    BY <2>1 DEF PlainBlock, Override, HasMarker
  <2>3. ApplyMarkers(doc, rs)[j] \in {doc[j], [doc[j] EXCEPT !.marker = m]}
    BY DEF ApplyMarkers
  <2>4. m.path = NoPath
    BY <2>2
  <2> HIDE DEF m
  <2>5. [doc[j] EXCEPT !.marker = m].flag = doc[j].flag
    OBVIOUS
  <2>6. [doc[j] EXCEPT !.marker = m].marker \in {m, doc[j].marker}
    OBVIOUS
  <2> QED
    BY <2>1, <2>3, <2>4, <2>5, <2>6 DEF PlainBlock
<1> QED
  BY <1>1, <1>2 DEF PlainDoc

\* A file whose markers are written has the ids and hashes of the analysis.
LEMMA MarkersTell ==
  ASSUME NEW f \in Files, NEW doc \in Seq(Block), NEW is \in Includes, PlainDoc(doc),
         NEW rs \in Seq(Result), Near(rs, Analyze(f, doc, is)), NEW d, d = ApplyMarkers(doc, rs)
  PROVE  /\ d \in Seq(Block) /\ PlainDoc(d) /\ DOMAIN Scanned(d) = DOMAIN rs
         /\ \A j \in DOMAIN rs :
              /\ Live(d[j], is) <=> Embedded(rs[j])
              /\ Content(d[j], is) = rs[j].hash /\ d[j].flag = rs[j].mode
              /\ Embedded(rs[j]) =>
                   d[j].marker = [id |-> rs[j].id, hash |-> rs[j].hash, path |-> NoPath]
<1>1. /\ DOMAIN rs = 1 .. Len(Scanned(doc)) /\ DOMAIN rs \subseteq DOMAIN doc
      /\ \A j \in DOMAIN rs :
              /\ Embedded(rs[j]) <=> Live(doc[j], is)
              /\ rs[j].hash = Content(doc[j], is) /\ rs[j].mode = doc[j].flag
              /\ rs[j].outcome = "OK" => /\ HasMarker(doc[j])
                                         /\ doc[j].marker.hash = Content(doc[j], is)
                                         /\ rs[j].id = doc[j].marker.id
  BY NearTells
<1>2. d \in Seq(Block)
  BY NearHasSources, ApplyMarkersReturns DEF Embedded
<1>3. PlainDoc(d) /\ DOMAIN d = DOMAIN doc
  BY MarkersArePlain
<1>4. ASSUME NEW j \in DOMAIN doc
      PROVE  /\ d[j].shape = doc[j].shape /\ d[j].src = doc[j].src /\ d[j].flag = doc[j].flag
             /\ j \in DOMAIN rs /\ Embedded(rs[j]) /\ rs[j].outcome # "OK" =>
                  d[j].marker = [id |-> rs[j].id, hash |-> rs[j].hash, path |-> NoPath]
             /\ j \in DOMAIN rs /\ rs[j].outcome = "OK" => d[j] = doc[j]
  <2> DEFINE m == [id |-> rs[j].id, hash |-> rs[j].hash, path |-> Override(doc[j])]
  <2>1. doc[j] \in Block /\ PlainBlock(doc[j])
    BY DEF PlainDoc
  <2>2. Override(doc[j]) = NoPath
    BY <2>1 DEF PlainBlock, Override, HasMarker
  <2>3. d[j] = IF j \in DOMAIN rs /\ rs[j].outcome \notin SkipOutcomes \cup {"OK"}
               THEN [doc[j] EXCEPT !.marker = m] ELSE doc[j]
    BY Zenon DEF ApplyMarkers
  <2>4. m = [id |-> rs[j].id, hash |-> rs[j].hash, path |-> NoPath]
    BY <2>2
  <2> HIDE DEF m
  <2>5. /\ [doc[j] EXCEPT !.marker = m].flag = doc[j].flag /\ [doc[j] EXCEPT !.marker = m].src = doc[j].src
        /\ [doc[j] EXCEPT !.marker = m].shape = doc[j].shape /\ [doc[j] EXCEPT !.marker = m].marker = m
    BY <2>1 DEF Block
  <2> QED
    BY <2>3, <2>4, <2>5 DEF Embedded
<1>5. DOMAIN Scanned(d) = DOMAIN rs
  <2>1. DOMAIN Scanned(d) = DOMAIN Scanned(doc)
    BY <1>2, <1>3, <1>4, SameShapes
  <2>2. Scanned(doc) \in Seq(Block)
    BY ScannedIsThePrefix
  <2> QED
    BY <1>1, <2>1, <2>2
<1>6. ASSUME NEW j \in DOMAIN doc
      PROVE  Content(d[j], is) = Content(doc[j], is) /\ (Live(d[j], is) <=> Live(doc[j], is))
  <2>1. Content(d[j], is) = Content(doc[j], is)
    BY <1>4 DEF Content, IsInclude
  <2>2. \A b : Live(b, is) <=> /\ b.shape \notin {"open", "nosrc"} /\ Content(b, is) # Missing
                              /\ b.flag \notin {"bad", "embedfalse"}
    BY DEF Live, FirstOutcome, SkipOutcomes
  <2> QED
    BY <1>4, <2>1, <2>2
<1>7. ASSUME NEW j \in DOMAIN rs, rs[j].outcome = "OK"
      PROVE  d[j].marker = [id |-> rs[j].id, hash |-> rs[j].hash, path |-> NoPath]
  <2>1. d[j] = doc[j] /\ doc[j] \in Block /\ PlainBlock(doc[j])
    <3>1. j \in DOMAIN doc
      BY <1>1
    <3>2. d[j] = doc[j]
      BY <1>4, <1>7, <3>1, Zenon
    <3> QED
      BY <3>1, <3>2 DEF PlainDoc
  <2>2. doc[j].marker \in Marker /\ doc[j].marker.path = NoPath /\ doc[j].marker.id = rs[j].id
        /\ doc[j].marker.hash = rs[j].hash
    BY <1>1, <1>7, <2>1 DEF HasMarker, Block, PlainBlock
  <2> QED
    BY <2>1, <2>2 DEF Marker
<1> QED
  BY <1>1, <1>2, <1>3, <1>4, <1>5, <1>6, <1>7

TreeType == docs \in [Files -> Seq(Block)] /\ incs \in Includes

\* The blocks that are embedded are blocks.
LEMMA LiveBlocksAreBlocks ==
  ASSUME TreeType, NEW f \in Files
  PROVE  /\ docs[f] \in Seq(Block) /\ DOMAIN Scanned(docs[f]) \subseteq DOMAIN docs[f]
         /\ \A j : j \in LiveBlocks(f) <=> j \in DOMAIN Scanned(docs[f]) /\ Live(docs[f][j], incs)
         /\ \A j \in LiveBlocks(f) : j \in DOMAIN docs[f] /\ docs[f][j] \in Block
<1>1. docs[f] \in Seq(Block)
  BY DEF TreeType
<1>2. Scanned(docs[f]) \in Seq(Block) /\ Len(Scanned(docs[f])) <= Len(docs[f])
  BY <1>1, ScannedIsThePrefix
<1> DEFINE doc == docs[f]
           bs == Scanned(doc)
<1>3. \A j : j \in LiveBlocks(f) <=> j \in DOMAIN bs /\ Live(doc[j], incs)
  BY DEF LiveBlocks
<1> HIDE DEF bs, doc
<1>4. DOMAIN bs \subseteq DOMAIN doc /\ \A j \in DOMAIN doc : doc[j] \in Block
  BY <1>1, <1>2 DEF bs, doc
<1> QED
  BY <1>1, <1>3, <1>4 DEF bs, doc

\* Writing the markers fixes a file, and its SVGs are those of the results.
LEMMA WritingFixes ==
  ASSUME TreeType, NEW f \in Files, TreeType', PlainDoc(docs[f]),
         NEW rs \in Seq(Result), Near(rs, Analyze(f, docs[f], incs)), Distinct(rs),
         docs'[f] = ApplyMarkers(docs[f], rs), incs' = incs
  PROVE  /\ Fixed(f)' /\ PlainDoc(docs'[f])
         /\ LivePaths(f)' = {rs[j].path : j \in {k \in DOMAIN rs : Embedded(rs[k])}}
         /\ (\A j \in DOMAIN rs : Embedded(rs[j]) => SvgAt(rs[j].path)' = Rendered(rs[j])) => Shown(f)'
<1> DEFINE d == docs'[f]
<1>1. docs[f] \in Seq(Block) /\ incs \in Includes
  BY DEF TreeType
<1>2. /\ d \in Seq(Block) /\ PlainDoc(d) /\ DOMAIN Scanned(d) = DOMAIN rs
      /\ \A j \in DOMAIN rs :
           /\ Live(d[j], incs) <=> Embedded(rs[j])
           /\ Content(d[j], incs) = rs[j].hash /\ d[j].flag = rs[j].mode
           /\ Embedded(rs[j]) => d[j].marker = [id |-> rs[j].id, hash |-> rs[j].hash, path |-> NoPath]
  BY <1>1, MarkersTell
<1>3. \A j \in DOMAIN rs : rs[j].path = <<f, rs[j].id>> /\ rs[j].file = f
  BY <1>1, NearTells
<1>4. \A j : j \in LiveBlocks(f)' <=> j \in DOMAIN rs /\ Embedded(rs[j])
  BY <1>2 DEF LiveBlocks
<1> HIDE DEF d
<1>10. \A j \in DOMAIN rs : Embedded(rs[j]) => rs[j].hash # Missing
  BY <1>1, NearHasSources
<1>5. ASSUME NEW j \in LiveBlocks(f)'
      PROVE  /\ HasMarker(d[j]) /\ d[j].marker.id = rs[j].id /\ FirstId(d[j]) = rs[j].id
             /\ d[j].marker.hash = Content(d[j], incs)
  <2>1. j \in DOMAIN rs /\ Embedded(rs[j])
    BY <1>4
  <2>2. d[j].marker = [id |-> rs[j].id, hash |-> rs[j].hash, path |-> NoPath] /\ rs[j].id # NoId
    BY <1>2, <2>1 DEF Distinct
  <2>3. d[j].marker # NoMarker
    <3>1. rs[j] \in Result /\ rs[j].hash # Missing
      BY <1>1, <1>10, <2>1
    <3>2. d[j].marker \in Marker
      BY <2>2, <3>1 DEF Marker, PathAttrs, Result
    <3> QED
      BY <3>2, TreeAssumption
  <2> QED
    BY <1>2, <2>1, <2>2, <2>3 DEF HasMarker, FirstId
<1>7. Fixed(f)'
  <2>1. ASSUME NEW j \in LiveBlocks(f)', NEW k \in LiveBlocks(f)' \ {j} PROVE FirstId(d[k]) # FirstId(d[j])
    BY <1>4, <1>5, <2>1 DEF Distinct
  <2> QED
    BY <1>5, <2>1 DEF Fixed, d
<1>11. \A j \in DOMAIN rs : rs[j].path = <<f, rs[j].id>>
  BY <1>3
<1>8. LivePaths(f)' = {rs[j].path : j \in {k \in DOMAIN rs : Embedded(rs[k])}}
  BY <1>4, <1>5, <1>11 DEF LivePaths, d
<1>9. ASSUME \A j \in DOMAIN rs : Embedded(rs[j]) => SvgAt(rs[j].path)' = Rendered(rs[j])
      PROVE  Shown(f)'
  <2> DEFINE at(path) == IF path \in DOMAIN svgs' THEN svgs'[path] ELSE Missing
  <2>1. \A path : SvgAt(path)' = at(path)
    BY DEF SvgAt
  <2>2. ASSUME NEW j \in LiveBlocks(f)'
        PROVE  at(<<f, FirstId(d[j])>>) =
                 [hash  |-> Content(d[j], incs),
                  mode  |-> d[j].flag,
                  from  |-> <<f, FirstId(d[j])>>,
                  whole |-> TRUE]
    <3>1. j \in DOMAIN rs /\ Embedded(rs[j])
      BY <1>4
    <3>2. at(rs[j].path) = Rendered(rs[j]) /\ rs[j].path = <<f, FirstId(d[j])>>
      <4>1. SvgAt(rs[j].path)' = Rendered(rs[j])
        BY <1>9, <3>1, Zenon
      <4> HIDE DEF at
      <4> QED
        BY <1>3, <1>5, <2>1, <3>1, <4>1
    <3>3. Rendered(rs[j]) =
            [hash |-> Content(d[j], incs), mode |-> d[j].flag, from |-> <<f, FirstId(d[j])>>, whole |-> TRUE]
      BY <1>2, <1>3, <1>5, <3>1 DEF Rendered
    <3> QED
      BY <3>2, <3>3
  <2> QED
    BY <2>2 DEF Shown, SvgAt, d
<1> QED
  BY <1>2, <1>7, <1>8, <1>9 DEF d

\* A fixed file: every block keeps its id and its SVG path, and its markers are written as they are.
LEMMA FixedTells ==
  ASSUME TreeType, NEW f \in Files, PlainDoc(docs[f]), Fixed(f),
         NEW rs, Near(rs, Analyze(f, docs[f], incs))
  PROVE  /\ \A j \in DOMAIN rs : Embedded(rs[j]) =>
              /\ j \in LiveBlocks(f) /\ rs[j].renamed = NoPath
              /\ rs[j].path = <<f, FirstId(docs[f][j])>> /\ rs[j].path \in LivePaths(f)
              /\ Shown(f) => SvgAt(rs[j].path) = Rendered(rs[j])
         /\ \A path \in LivePaths(f) : \E j \in DOMAIN rs : Embedded(rs[j]) /\ path = rs[j].path
         /\ ApplyMarkers(docs[f], rs) = docs[f]
<1> DEFINE doc == docs[f]
           as == Analyze(f, doc, incs)
<1>1. /\ doc \in Seq(Block) /\ incs \in Includes
      /\ \A j : j \in LiveBlocks(f) <=> j \in DOMAIN Scanned(doc) /\ Live(doc[j], incs)
      /\ \A j \in LiveBlocks(f) : j \in DOMAIN doc /\ doc[j] \in Block
  BY LiveBlocksAreBlocks DEF TreeType
<1>2. \A j \in LiveBlocks(f) :
        /\ HasMarker(doc[j]) /\ doc[j].marker.hash = Content(doc[j], incs)
        /\ \A k \in LiveBlocks(f) \ {j} : FirstId(doc[k]) # FirstId(doc[j])
  BY DEF Fixed
<1>3. /\ as \in Seq(Result) /\ DOMAIN as = DOMAIN Scanned(doc) /\ DOMAIN as = 1 .. Len(Scanned(doc))
      /\ DOMAIN rs = DOMAIN as
  <2>1. Scanned(doc) \in Seq(Block)
    BY <1>1, ScannedIsThePrefix
  <2> QED
    BY <1>1, <2>1, AnalyzeReturns DEF Near
<1>4. /\ DOMAIN rs \subseteq DOMAIN doc
      /\ \A j \in DOMAIN rs :
           /\ Embedded(rs[j]) <=> Live(doc[j], incs)
           /\ rs[j].hash = Content(doc[j], incs) /\ rs[j].mode = doc[j].flag
           /\ rs[j].path = <<f, rs[j].id>> /\ rs[j].file = f
           /\ rs[j].renamed = RenamedFrom(f, doc[j], rs[j].id)
  BY <1>1, NearTells DEF doc
<1>5. ASSUME NEW j \in DOMAIN rs, Embedded(rs[j]) PROVE j \in LiveBlocks(f)
  BY <1>1, <1>3, <1>4, <1>5
<1>6. ASSUME NEW j \in DOMAIN rs, Embedded(rs[j])
      PROVE  as[j].outcome = "OK" /\ as[j].id = doc[j].marker.id
  <2>1. /\ as[j].outcome \in SkipOutcomes <=> ~Live(doc[j], incs)
        /\ as[j].outcome \notin SkipOutcomes \cup {"OK"} =>
                       \/ ~HasMarker(doc[j])
                       \/ doc[j].marker.hash # Content(doc[j], incs)
                       \/ \E k \in 1 .. j - 1 : Live(doc[k], incs) /\ FirstId(doc[k]) = FirstId(doc[j])
        /\ as[j].outcome = "OK" => as[j].id = doc[j].marker.id
    <3>1. doc \in Seq(Block) /\ incs \in Includes /\ j \in 1 .. Len(Scanned(doc))
      BY <1>1, <1>3
    <3> HIDE DEF doc
    <3> QED
      BY <3>1, AnalyzeReturns, SMTT(60)
  <2> HIDE DEF as, doc
  <2>2. ASSUME NEW k \in 1 .. j - 1, Live(doc[k], incs) PROVE FirstId(doc[k]) # FirstId(doc[j])
    <3>1. k \in DOMAIN Scanned(doc) /\ k # j
      BY <1>3
    <3>2. k \in LiveBlocks(f)
      BY <1>1, <2>2, <3>1
    <3> QED
      BY <1>2, <1>5, <1>6, <3>1, <3>2
  <2>3. HasMarker(doc[j]) /\ doc[j].marker.hash = Content(doc[j], incs)
    BY <1>2, <1>5, <1>6
  <2> QED
    BY <1>4, <1>6, <2>1, <2>2, <2>3
<1>7. ASSUME NEW j \in DOMAIN rs, Embedded(rs[j])
      PROVE  rs[j].id = doc[j].marker.id /\ rs[j].outcome \in {"OK", "Rerender"}
  <2>1. as[j] \in Result
    BY <1>3
  <2>2. rs[j] = as[j] \/ (as[j].outcome = "OK" /\ rs[j] = [as[j] EXCEPT !.outcome = "Rerender"])
    BY <1>3 DEF Near
  <2> HIDE DEF as, doc
  <2>3. rs[j].id = as[j].id
    BY <2>1, <2>2 DEF Result
  <2>4. rs[j].outcome \in {as[j].outcome, "Rerender"}
    BY <2>1, <2>2 DEF Result
  <2> QED
    BY <1>6, <1>7, <2>3, <2>4
<1> HIDE DEF doc, as
<1>8. ASSUME NEW j \in DOMAIN rs, Embedded(rs[j])
      PROVE  /\ FirstId(doc[j]) = rs[j].id /\ rs[j].renamed = NoPath
             /\ rs[j].path = <<f, FirstId(doc[j])>>
  <2>1. HasMarker(doc[j]) /\ rs[j].id = doc[j].marker.id
    BY <1>2, <1>5, <1>7, <1>8
  <2> QED
    BY <1>4, <1>8, <2>1 DEF FirstId, RenamedFrom
<1>9. ASSUME NEW path \in LivePaths(f) PROVE \E j \in DOMAIN rs : Embedded(rs[j]) /\ path = rs[j].path
  <2>1. PICK j \in LiveBlocks(f) : path = <<f, FirstId(doc[j])>>
    BY DEF LivePaths, doc
  <2>2. j \in DOMAIN rs /\ Embedded(rs[j])
    BY <1>1, <1>3, <1>4, <2>1
  <2> QED
    BY <1>8, <2>1, <2>2
<1>10. ASSUME NEW j \in DOMAIN rs, Embedded(rs[j]), Shown(f) PROVE SvgAt(rs[j].path) = Rendered(rs[j])
  <2>1. SvgAt(rs[j].path) =
          [hash  |-> Content(doc[j], incs),
           mode  |-> doc[j].flag,
           from  |-> <<f, FirstId(doc[j])>>,
           whole |-> TRUE]
    BY <1>5, <1>8, <1>10 DEF Shown, doc
  <2> QED
    BY <1>4, <1>8, <1>10, <2>1 DEF Rendered
<1>11. ApplyMarkers(doc, rs) = doc
  <2>1. ASSUME NEW j \in DOMAIN doc PROVE ApplyMarkers(doc, rs)[j] = doc[j]
    <3>1. CASE j \in DOMAIN rs /\ rs[j].outcome \notin SkipOutcomes \cup {"OK"}
      <4>1. Embedded(rs[j]) /\ j \in LiveBlocks(f)
        BY <1>5, <3>1 DEF Embedded
      <4>2. /\ doc[j] \in Block /\ HasMarker(doc[j]) /\ PlainBlock(doc[j])
            /\ doc[j].marker.hash = rs[j].hash /\ doc[j].marker.id = rs[j].id
        BY <1>1, <1>2, <1>4, <1>7, <3>1, <4>1 DEF PlainDoc, doc
      <4>3. doc[j].marker \in Marker /\ doc[j].marker.path = NoPath /\ Override(doc[j]) = NoPath
        BY <4>2 DEF HasMarker, Block, PlainBlock, Override
      <4>4. doc[j].marker = [id |-> rs[j].id, hash |-> rs[j].hash, path |-> Override(doc[j])]
        BY <4>2, <4>3 DEF Marker
      <4>5. ApplyMarkers(doc, rs)[j] =
              [doc[j] EXCEPT !.marker = [id |-> rs[j].id, hash |-> rs[j].hash, path |-> Override(doc[j])]]
        BY <3>1 DEF ApplyMarkers
      <4>6. \A m : m = doc[j].marker => [doc[j] EXCEPT !.marker = m] = doc[j]
        BY <4>2 DEF Block
      <4> QED
        BY <4>4, <4>5, <4>6, Zenon
    <3>2. CASE ~(j \in DOMAIN rs /\ rs[j].outcome \notin SkipOutcomes \cup {"OK"})
      BY <3>2 DEF ApplyMarkers
    <3> QED
      BY <3>1, <3>2
  <2>2. ApplyMarkers(doc, rs) = [j \in DOMAIN doc |-> ApplyMarkers(doc, rs)[j]]
    BY DEF ApplyMarkers
  <2>3. doc = [j \in DOMAIN doc |-> doc[j]]
    BY <1>1
  <2> QED
    BY <2>1, <2>2, <2>3, Zenon
<1>12. ASSUME NEW j \in DOMAIN rs, Embedded(rs[j]) PROVE rs[j].path \in LivePaths(f)
  BY <1>5, <1>8, <1>12 DEF LivePaths, doc
<1> QED
  BY <1>5, <1>8, <1>9, <1>10, <1>11, <1>12 DEF doc

\* A fixed file whose SVGs are shown is in sync.
LEMMA FixedAndShown ==
  ASSUME TreeType, NEW f \in Files, PlainDoc(docs[f]), Fixed(f)
  PROVE  /\ Shown(f) => InSync(f)
         /\ \A path \in LivePaths(f) : \E j \in LiveBlocks(f) : HasMarker(docs[f][j]) /\ SvgOf(f, j) = path
<1>1. ASSUME NEW j \in LiveBlocks(f)
      PROVE  /\ HasMarker(docs[f][j]) /\ FirstId(docs[f][j]) = docs[f][j].marker.id
             /\ SvgOf(f, j) = <<f, FirstId(docs[f][j])>>
             /\ docs[f][j].marker.hash = Content(docs[f][j], incs)
  <2>1. HasMarker(docs[f][j]) /\ docs[f][j].marker.hash = Content(docs[f][j], incs)
    BY DEF Fixed
  <2>2. docs[f][j].marker.path = NoPath
    BY <2>1, LiveBlocksAreBlocks DEF PlainDoc, PlainBlock, HasMarker
  <2> QED
    BY <2>1, <2>2 DEF SvgOf, PathOf, FirstId
<1>2. ASSUME NEW j \in LiveBlocks(f), NEW k \in LiveBlocks(f) \ {j}
      PROVE  docs[f][k].marker.id # docs[f][j].marker.id
  <2>1. FirstId(docs[f][k]) # FirstId(docs[f][j])
    BY DEF Fixed
  <2> QED
    BY <1>1, <2>1
<1>3. ASSUME Shown(f) PROVE InSync(f)
  <2>1. ASSUME NEW j \in LiveBlocks(f)
        PROVE  Shows(SvgAt(SvgOf(f, j)), Content(docs[f][j], incs), docs[f][j].flag)
    <3> DEFINE svg == [hash  |-> Content(docs[f][j], incs),
                       mode  |-> docs[f][j].flag,
                       from  |-> <<f, FirstId(docs[f][j])>>,
                       whole |-> TRUE]
    <3>1. SvgAt(SvgOf(f, j)) = svg
      BY <1>1, <1>3 DEF Shown
    <3>2. svg # Missing
      <4>1. docs[f][j] \in Block /\ Live(docs[f][j], incs) /\ PlainBlock(docs[f][j])
        BY LiveBlocksAreBlocks DEF PlainDoc
      <4>2. docs[f][j].flag = "plain" /\ Content(docs[f][j], incs) \in Srcs
        BY <4>1, LiveBlocksAreWhole DEF TreeType
      <4>3. FirstId(docs[f][j]) \in BlockIds
        <5>1. NoId \in BlockIds
          BY DEF BlockIds
        <5> QED
          BY <4>1, <5>1, IdsAndPaths
      <4>4. svg \in Svg
        BY <4>2, <4>3 DEF Svg, SvgDirPaths, Flags
      <4> QED
        BY <4>4, TreeAssumption
    <3> QED
      BY <3>1, <3>2 DEF Shows
  <2> QED
    BY <1>1, <1>2, <2>1 DEF InSync
<1> QED
  BY <1>1, <1>3 DEF LivePaths

LEMMA RepairInvSays == FitInv /\ RepairInv => RunsRepair
<1> SUFFICES ASSUME FitInv, RepairInv PROVE RunsRepair
  OBVIOUS
<1>1. TreeType /\ synced \subseteq Files \ Ignored /\ \A f \in Files : PlainDoc(docs[f])
  BY DEF FitInv, TypeOK, TreeType, Includes, RepairInv, TreeInv, TreeIsPlain
<1>2. RunsSync
  BY <1>1, FixedAndShown DEF RunsSync, RepairInv, TreeInv, SyncedAreFixed, SyncedAreShown
<1>3. NoOrphans
  BY <1>1, FixedAndShown DEF NoOrphans, Swept, Named, RepairInv, TreeInv, SweptIsClean
<1> QED
  BY <1>2, <1>3 DEF RunsRepair

(* ---------------------------------------------------------------------- *)
(* What stays.                                                             *)

\* A file that nobody writes is as it was.
LEMMA FileStays ==
  ASSUME NEW f, docs'[f] = docs[f], incs' = incs
  PROVE  /\ LiveBlocks(f)' = LiveBlocks(f) /\ LivePaths(f)' = LivePaths(f)
         /\ Fixed(f)' <=> Fixed(f)
         /\ (\A path \in LivePaths(f) : SvgAt(path)' = SvgAt(path)) => (Shown(f)' <=> Shown(f))
<1>1. LiveBlocks(f)' = LiveBlocks(f)
  BY DEF LiveBlocks
<1>2. LivePaths(f)' = LivePaths(f)
  BY <1>1 DEF LivePaths
<1>3. Fixed(f)' <=> Fixed(f)
  BY <1>1 DEF Fixed
<1>4. ASSUME \A path \in LivePaths(f) : SvgAt(path)' = SvgAt(path) PROVE Shown(f)' <=> Shown(f)
  <2>1. \A j \in LiveBlocks(f) : <<f, FirstId(docs[f][j])>> \in LivePaths(f)
    BY DEF LivePaths
  <2> DEFINE at(path) == IF path \in DOMAIN svgs' THEN svgs'[path] ELSE Missing
  <2>2. \A path \in LivePaths(f) : at(path) = SvgAt(path)
    BY <1>4 DEF SvgAt
  <2>3. Shown(f)' <=> \A j \in LiveBlocks(f) :
          at(<<f, FirstId(docs[f][j])>>) =
            [hash  |-> Content(docs[f][j], incs),
             mode  |-> docs[f][j].flag,
             from  |-> <<f, FirstId(docs[f][j])>>,
             whole |-> TRUE]
    BY <1>1, Zenon DEF Shown, SvgAt
  <2> HIDE DEF at
  <2> QED
    BY <2>1, <2>2, <2>3, Zenon DEF Shown
<1> QED
  BY <1>1, <1>2, <1>3, <1>4

\* Nothing that is said of the tree or of a run changes with the rest.
LEMMA NothingStirs ==
  ASSUME docs' = docs, incs' = incs, svgs' = svgs, synced' = synced, dropped' = dropped, swept' = swept
  PROVE  /\ TreeInv' <=> TreeInv
         /\ \A r : RunInv(r)' <=> RunInv(r)
<1>1. \A f : LiveBlocks(f)' = LiveBlocks(f)
  BY DEF LiveBlocks
<1>2. \A path : SvgAt(path)' = SvgAt(path)
  BY DEF SvgAt
<1>3. \A f : LivePaths(f)' = LivePaths(f) /\ (Fixed(f)' <=> Fixed(f)) /\ (Shown(f)' <=> Shown(f))
  BY FileStays, <1>2
<1>4. \A path : Named(path)' <=> Named(path)
  BY <1>3 DEF Named
<1>5. TreeInv' <=> TreeInv
  BY <1>3, <1>4 DEF TreeInv, TreeIsPlain, SyncedAreFixed, SyncedAreShown, SweptIsClean
<1>6. ASSUME NEW r PROVE RunInv(r)' <=> RunInv(r)
  <2>1. HandIsPlain(r)' <=> HandIsPlain(r)
    BY DEF HandIsPlain
  <2>2. HandIsCurrent(r)' <=> HandIsCurrent(r)
    BY DEF HandIsCurrent
  <2>3. PruningIsSafe(r)' <=> PruningIsSafe(r)
    BY <1>3 DEF PruningIsSafe, Secure
  <2>4. \A f : Repaired(r, f)' <=> Repaired(r, f)
    BY <1>2, <1>3 DEF Repaired, ShownSoFar
  <2>5. Repairs(r)' <=> Repairs(r)
    BY <1>4, <2>4 DEF Repairs, Expected
  <2> QED
    BY <2>1, <2>2, <2>3, <2>5 DEF RunInv
<1> QED
  BY <1>5, <1>6

\* A step of one run that changes nothing else.
LEMMA QuietStep ==
  ASSUME RepairInv, NEW p \in Procs, \A q \in Procs \ {p} : run'[q] = run[q],
         docs' = docs, incs' = incs, svgs' = svgs, synced' = synced, dropped' = dropped, swept' = swept,
         Busy(p)' => RunInv(run'[p])
  PROVE  RepairInv'
<1>1. ASSUME NEW q \in Procs, Busy(q)' PROVE RunInv(run[q])'
  <2>1. RunInv(run'[q])
    BY <1>1 DEF RepairInv, Busy
  <2> QED
    BY <2>1, NothingStirs
<1> QED
  BY <1>1, NothingStirs DEF RepairInv

\* A disturbed run depends on the synced files, which stay as they are.
LEMMA DisturbedStay ==
  ASSUME incs' = incs, synced' = synced, \A f \in synced : docs'[f] = docs[f]
  PROVE  \A r : RunInv(r) /\ ~r.calm => RunInv(r)'
<1> SUFFICES ASSUME NEW r, RunInv(r), ~r.calm PROVE RunInv(r)'
  OBVIOUS
<1>1. HandIsPlain(r)'
  BY DEF RunInv, HandIsPlain
<1>2. HandIsCurrent(r)'
  BY DEF RunInv, HandIsCurrent
<1>3. PruningIsSafe(r)'
  BY FileStays DEF RunInv, PruningIsSafe, Secure
<1>4. Repairs(r)'
  BY DEF Repairs
<1> QED
  BY <1>1, <1>2, <1>3, <1>4 DEF RunInv

\* While a run makes a step, so are the others.
LEMMA OthersStay ==
  ASSUME CalmIsAlone, RepairInv, NEW p \in Procs, Busy(p), \A q \in Procs \ {p} : run'[q] = run[q],
         incs' = incs, synced' = synced, \A f \in synced : docs'[f] = docs[f]
  PROVE  \A q \in Procs \ {p} : Busy(q)' => RunInv(run[q])'
<1>1. ASSUME NEW q \in Procs \ {p}, Busy(q)' PROVE RunInv(run[q])'
  <2>1. Busy(q) /\ run'[q] = run[q]
    BY <1>1 DEF Busy
  <2>2. RunInv(run'[q]) /\ ~run'[q].calm
    BY <2>1 DEF RepairInv, CalmIsAlone, AllIdleBut
  <2> QED
    BY <2>2, DisturbedStay
<1> QED
  BY <1>1

\* The synced files and their SVGs stay when a run makes a step.
LEMMA TreeStays ==
  ASSUME FitInv, TreeInv, synced' = synced, dropped' = dropped, swept' = swept, incs' = incs,
         TreeIsPlain', \A f \in synced : docs'[f] = docs[f],
         \A f \in synced \ dropped : Shown(f)',
         swept => \A path \in DOMAIN svgs' \ (DOMAIN svgs \cup Overrides) : Named(path)
  PROVE  TreeInv'
<1>1. \A f \in synced : Fixed(f)' /\ LivePaths(f)' = LivePaths(f)
  BY FileStays DEF TreeInv, SyncedAreFixed
<1>2. ASSUME swept, NEW path \in DOMAIN svgs' \ Overrides PROVE Named(path)'
  <2>1. Named(path) /\ synced = Files \ Ignored
    BY <1>2 DEF TreeInv, SweptIsClean
  <2> QED
    BY <1>1, <2>1 DEF Named
<1>3. SweptIsClean'
  BY <1>2 DEF SweptIsClean, TreeInv
<1> QED
  BY <1>1, <1>3 DEF TreeInv, SyncedAreFixed, SyncedAreShown

(* ---------------------------------------------------------------------- *)
(* The steps of a run.                                                     *)

LEMMA RunHas ==
  ASSUME FitInv, RepairInv
  PROVE  /\ TreeType /\ synced \subseteq Files \ Ignored /\ \A f \in Files : PlainDoc(docs[f])
         /\ \A p \in Procs : Busy(p) => run[p] \in RunType /\ RunIsFit(run[p]) /\ RunInv(run[p])
BY BusyRuns DEF FitInv, TypeOK, TreeType, Includes, RepairInv, TreeInv, TreeIsPlain

LEMMA HeadAndTail ==
  ASSUME NEW todo \in Seq(Files), todo # <<>>
  PROVE  /\ Head(todo) \in Files /\ Head(todo) \in Range(todo)
         /\ Range(todo) \subseteq {Head(todo)} \cup Range(Tail(todo))
<1>1. 1 \in DOMAIN todo /\ Head(todo) = todo[1]
  OBVIOUS
<1>2. Head(todo) \in Files /\ Head(todo) \in Range(todo)
  BY <1>1 DEF Range
<1>3. ASSUME NEW k \in DOMAIN todo PROVE todo[k] = Head(todo) \/ todo[k] \in Range(Tail(todo))
  <2>1. CASE k = 1
    BY <1>1, <2>1
  <2>2. CASE k # 1
    <3>1. k - 1 \in DOMAIN Tail(todo) /\ todo[k] = Tail(todo)[k - 1]
      BY <2>2
    <3> QED
      BY <3>1 DEF Range
  <2> QED
    BY <2>1, <2>2
<1> QED
  BY <1>2, <1>3 DEF Range

\* What is read of a file of the tree is plain.
LEMMA ReadIsPlain ==
  ASSUME FitInv, RepairInv, NEW f \in Files, NEW rs, Near(rs, Analyze(f, docs[f], incs)),
         NEW j \in DOMAIN rs, Embedded(rs[j])
  PROVE  /\ rs[j].mode = "plain" /\ rs[j].file = f /\ rs[j].path = <<f, rs[j].id>>
         /\ rs[j].renamed # NoPath => \E id \in BlockIds : rs[j].renamed = <<f, id>>
<1>1. docs[f] \in Seq(Block) /\ incs \in Includes /\ PlainDoc(docs[f])
  BY RunHas DEF TreeType
<1>2. /\ j \in DOMAIN docs[f] /\ Live(docs[f][j], incs) /\ rs[j].mode = docs[f][j].flag
      /\ rs[j].file = f /\ rs[j].path = <<f, rs[j].id>>
      /\ rs[j].renamed = RenamedFrom(f, docs[f][j], rs[j].id)
  BY <1>1, NearTells
<1>3. docs[f][j] \in Block /\ PlainBlock(docs[f][j])
  BY <1>1, <1>2 DEF PlainDoc
<1>4. rs[j].mode = "plain"
  BY <1>1, <1>2, <1>3, LiveBlocksAreWhole
<1>5. rs[j].renamed # NoPath => docs[f][j].marker \in Marker /\ rs[j].renamed = <<f, docs[f][j].marker.id>>
  BY <1>2, <1>3 DEF RenamedFrom, HasMarker, Block
<1> QED
  BY <1>2, <1>4, <1>5 DEF Marker

\* The next file is read: nothing of it is done yet, and without blocks there is nothing to do.
LEMMA RepairOpens ==
  ASSUME FitInv, RepairInv, NEW p \in Procs, OpenFile(p)
  PROVE  RunInv(run'[p])
<1> DEFINE f == Head(run[p].todo)
           as == Analyze(f, docs[f], incs)
           old == run[p]
           r == run'[p]
<1>1. old \in RunType /\ RunIsFit(old) /\ RunInv(old) /\ old.pc = "open" /\ old.todo # <<>>
  BY RunHas, Zenon DEF OpenFile, Opened, Busy
<1>2. /\ r.todo = Tail(old.todo) /\ r.file = f /\ r.blocks = as /\ r.b = 1 /\ r.text = docs[f]
      /\ r.keep = old.keep /\ r.opts = old.opts /\ r.dropped = old.dropped /\ r.calm = old.calm
      /\ r.pc = IF as = <<>> THEN "open" ELSE "block"
  BY <1>1, Zenon DEF OpenFile, Opened, RunType, FitInv, TypeOK
<1>3. old.todo \in Seq(Files)
  BY <1>1 DEF RunType
<1>4. f \in Files /\ f \in Range(old.todo) /\ Range(old.todo) \subseteq {f} \cup Range(Tail(old.todo))
  BY <1>1, <1>3, HeadAndTail
<1>5. f \in Files \ Ignored
  BY <1>1, <1>4 DEF RunIsFit
<1>6. docs[f] \in Seq(Block) /\ incs \in Includes /\ PlainDoc(docs[f])
  BY <1>5, RunHas DEF TreeType
<1>7. Near(as, as) /\ as \in Seq(Result) /\ Len(as) = Len(Scanned(docs[f]))
  BY <1>5, <1>6, AnalyzeReturns DEF Near
<1>14. \A j \in DOMAIN as : ~(j < 1)
  BY <1>7
<1>8. as = <<>> => LiveBlocks(f) = {}
  <2>1. Scanned(docs[f]) \in Seq(Block)
    BY <1>6, ScannedIsThePrefix
  <2> QED
    BY <1>7, <2>1 DEF LiveBlocks
<1>9. HandIsPlain(r)
  <2>1. \A j \in DOMAIN as : Embedded(as[j]) =>
          /\ as[j].mode = "plain" /\ as[j].file = f /\ as[j].path = <<f, as[j].id>>
          /\ as[j].renamed # NoPath => \E id \in BlockIds : as[j].renamed = <<f, id>>
    BY <1>4, <1>7, ReadIsPlain
  <2> HIDE DEF r, as, f
  <2> QED
    BY <1>2, <1>6, <1>14, <2>1 DEF HandIsPlain
<1>10. HandIsCurrent(r)
  BY <1>2, <1>7 DEF HandIsCurrent
<1> HIDE DEF r, as, f, old
<1>11. as = <<>> => LivePaths(f) = {} /\ Fixed(f) /\ Shown(f)
  BY <1>8 DEF LivePaths, Fixed, Shown
<1>12. PruningIsSafe(r)
  <2>1. ASSUME NEW g \in Files \ Ignored, Secure(old, g) PROVE Secure(r, g)
    <3>1. g \in Range(old.todo) \/ LivePaths(g) \subseteq old.keep
      BY <1>1, <2>1 DEF Secure, InHand
    <3>2. r.pc # "prune" /\ (as # <<>> => InHand(r) /\ r.file = f)
      BY <1>2 DEF InHand
    <3> QED
      BY <1>2, <1>4, <1>11, <3>1, <3>2 DEF Secure
  <2> QED
    BY <1>1, <1>2, <2>1 DEF RunInv, PruningIsSafe
<1>13. Repairs(r)
  <2>1. SUFFICES ASSUME r.calm, r.opts.write PROVE Repairs(r)
    BY DEF Repairs
  <2>2. Repaired(r, f)
    <3>1. CASE as = <<>>
      BY <1>11, <3>1 DEF Repaired
    <3>2. CASE as # <<>>
      <4>1. ShownSoFar(r)
        BY <1>2, <1>14 DEF ShownSoFar
      <4> QED
        BY <1>2, <3>2, <4>1 DEF Repaired, InHand
    <3> QED
      BY <3>1, <3>2
  <2>3. ASSUME NEW g \in Files \ Ignored, r.opts.whole, g # f PROVE Repaired(r, g)
    <3>1. Repaired(old, g)
      BY <1>1, <1>2, <2>1, <2>3 DEF RunInv, Repairs
    <3> QED
      BY <1>1, <1>2, <1>4, <2>3, <3>1 DEF Repaired, InHand
  <2>4. ASSUME r.opts.whole, NEW path \in r.keep PROVE Expected(r, path)
    <3>1. Expected(old, path)
      BY <1>1, <1>2, <2>1, <2>4 DEF RunInv, Repairs
    <3> QED
      BY <1>1, <3>1 DEF Expected, InHand
  <2>5. r.pc # "prune"
    BY <1>2
  <2> QED
    BY <1>2, <2>2, <2>3, <2>4, <2>5 DEF Repairs
<1> QED
  BY <1>9, <1>10, <1>12, <1>13 DEF RunInv, r

(* The run has come one block further, or writes the SVG of a renamed block *)
(* and is to remove the old one.                                           *)
Further(old, r) ==
  /\ r.todo = old.todo /\ r.file = old.file /\ r.text = old.text /\ r.opts = old.opts
  /\ r.calm = old.calm /\ old.dropped \subseteq r.dropped
  /\ old.b \in DOMAIN old.blocks /\ Near(r.blocks, old.blocks)
  /\ \/ r.pc = "block" /\ r.b = old.b + 1
     \/ /\ r.pc = "drop" /\ r.b = old.b
        /\ Embedded(old.blocks[old.b]) /\ old.blocks[old.b].renamed # NoPath
  /\ old.keep \subseteq r.keep
  /\ Embedded(old.blocks[old.b]) => old.blocks[old.b].path \in r.keep
  /\ \A path \in r.keep \ old.keep : Embedded(old.blocks[old.b]) /\ path = old.blocks[old.b].path

LEMMA NearAgain ==
  ASSUME NEW found \in Seq(Result), NEW rs, Near(rs, found), NEW now, Near(now, rs)
  PROVE  /\ Near(now, found) /\ DOMAIN now = DOMAIN found /\ DOMAIN rs = DOMAIN found
         /\ \A j \in DOMAIN found :
              /\ Embedded(now[j]) <=> Embedded(rs[j])
              /\ now[j].path = rs[j].path /\ now[j].renamed = rs[j].renamed /\ now[j].id = rs[j].id
              /\ now[j].mode = rs[j].mode /\ now[j].hash = rs[j].hash /\ now[j].file = rs[j].file
<1>2. \A j \in DOMAIN found : found[j] \in Result
  BY ElementOfSeq
<1>1. ASSUME NEW j \in DOMAIN found
      PROVE  /\ now[j] = found[j] \/ (found[j].outcome = "OK" /\ now[j] = [found[j] EXCEPT !.outcome = "Rerender"])
             /\ Embedded(now[j]) <=> Embedded(rs[j])
             /\ now[j].path = rs[j].path /\ now[j].renamed = rs[j].renamed /\ now[j].id = rs[j].id
             /\ now[j].mode = rs[j].mode /\ now[j].hash = rs[j].hash /\ now[j].file = rs[j].file
  <2> DEFINE x == found[j]
             y == rs[j]
             z == now[j]
  <2>1. x \in Result
    BY <1>2
  <2>2. y = x \/ (x.outcome = "OK" /\ y = [x EXCEPT !.outcome = "Rerender"])
    BY DEF Near
  <2>3. z = y \/ (y.outcome = "OK" /\ z = [y EXCEPT !.outcome = "Rerender"])
    BY DEF Near
  <2> HIDE DEF x, y, z
  <2>4. y \in Result
    BY <2>1, <2>2 DEF Result
  <2>5. /\ z = y \/ (y.outcome = "OK" /\ z.outcome = "Rerender")
        /\ z.path = y.path /\ z.renamed = y.renamed /\ z.id = y.id /\ z.mode = y.mode /\ z.hash = y.hash
        /\ z.file = y.file
    BY <2>3, <2>4 DEF Result
  <2>6. Embedded(z) <=> Embedded(y)
    BY <2>5 DEF Embedded, SkipOutcomes
  <2>7. z = x \/ (x.outcome = "OK" /\ z = [x EXCEPT !.outcome = "Rerender"])
    <3>1. CASE y = x
      BY <2>3, <3>1
    <3>2. CASE x.outcome = "OK" /\ y = [x EXCEPT !.outcome = "Rerender"]
      <4>1. y.outcome = "Rerender"
        BY <2>1, <3>2 DEF Result
      <4> QED
        BY <2>3, <3>2, <4>1
    <3> QED
      BY <2>2, <3>1, <3>2
  <2> QED
    BY <2>5, <2>6, <2>7 DEF x, y, z
<1> QED
  BY <1>1, Zenon DEF Near

\* Up to the block it is at, an undisturbed run has shown the file it has in hand.
LEMMA ShownBefore ==
  ASSUME FitInv, RepairInv, NEW p \in Procs, Busy(p), InHand(run[p]), run[p].calm, run[p].opts.write
  PROVE  \/ run[p].file \in Range(run[p].todo)
         \/ run[p].file \in run[p].dropped
         \/ ShownSoFar(run[p])
<1> DEFINE r == run[p]
           f == run[p].file
<1>1. r \in RunType /\ RunInv(r) /\ f \in Files \ Ignored
  BY RunHas DEF RunIsFit, InHand
<1>2. Repaired(r, f)
  BY <1>1 DEF RunInv, Repairs
<1>3. CASE Fixed(f) /\ Shown(f)
  <2>1. Near(r.blocks, Analyze(f, docs[f], incs))
    BY <1>1 DEF RunInv, HandIsCurrent
  <2>2. TreeType /\ PlainDoc(docs[f])
    BY <1>1, RunHas
  <2>3. \A j \in DOMAIN r.blocks : Embedded(r.blocks[j]) => SvgAt(r.blocks[j].path) = Rendered(r.blocks[j])
    BY <1>1, <1>3, <2>1, <2>2, FixedTells
  <2> QED
    BY <2>3 DEF ShownSoFar
<1> QED
  BY <1>2, <1>3 DEF Repaired

\* What has to be seen to for a run that comes further.
LEMMA RunsFurther ==
  ASSUME FitInv, RepairInv, NEW p \in Procs, Busy(p), InHand(run[p]), NEW r, Further(run[p], r),
         docs' = docs, incs' = incs, synced' = synced,
         run[p].calm /\ run[p].opts.write =>
           /\ \A g \in Files \ {run[p].file} : Shown(g) => Shown(g)'
           /\ \/ r.file \in Range(r.todo)
              \/ r.file \in r.dropped
              \/ ShownSoFar(r)'
  PROVE  RunInv(r)'
<1> DEFINE old == run[p]
           f == run[p].file
<1>1. old \in RunType /\ RunInv(old) /\ f \in Files \ Ignored
  BY RunHas DEF RunIsFit, InHand
<1>2. old.blocks \in Seq(Result) /\ old.b \in Nat
  BY <1>1 DEF RunType
<1>3. Near(old.blocks, old.blocks) /\ InHand(r) /\ r.pc # "prune"
  BY DEF Near, Further, InHand
<1>4. /\ DOMAIN r.blocks = DOMAIN old.blocks
      /\ \A j \in DOMAIN old.blocks :
           /\ Embedded(r.blocks[j]) <=> Embedded(old.blocks[j])
           /\ r.blocks[j].path = old.blocks[j].path /\ r.blocks[j].renamed = old.blocks[j].renamed
           /\ r.blocks[j].id = old.blocks[j].id /\ r.blocks[j].mode = old.blocks[j].mode
           /\ r.blocks[j].file = old.blocks[j].file
  BY <1>2, <1>3, NearAgain DEF Further
<1>5. \A g : LivePaths(g)' = LivePaths(g) /\ (Fixed(g)' <=> Fixed(g))
  BY FileStays
<1>6. HandIsCurrent(r)'
  <2>1. SUFFICES ASSUME r.calm \/ f \in synced
                 PROVE  r.text = docs[f] /\ Near(r.blocks, Analyze(f, docs[f], incs))
    BY DEF HandIsCurrent, Further
  <2>2. old.text = docs[f] /\ Near(old.blocks, Analyze(f, docs[f], incs))
    BY <1>1, <2>1 DEF RunInv, HandIsCurrent, Further
  <2>3. Analyze(f, docs[f], incs) \in Seq(Result)
    <3>1. docs[f] \in Seq(Block) /\ incs \in Includes
      BY <1>1, RunHas DEF TreeType
    <3> QED
      BY <1>1, <3>1, AnalyzeReturns
  <2> QED
    BY <2>2, <2>3, NearAgain DEF Further
<1>7. HandIsPlain(r)'
  <2>1. HandIsPlain(old)
    BY <1>1 DEF RunInv
  <2>2. ASSUME NEW j \in DOMAIN r.blocks, Embedded(r.blocks[j]), j < r.b \/ (j = r.b /\ r.pc = "drop")
        PROVE  r.blocks[j].path \in r.keep
    <3>1. j \in Nat
      BY <1>2, <1>4
    <3>2. j < old.b \/ j = old.b
      BY <1>2, <2>2, <3>1 DEF Further
    <3> QED
      BY <1>4, <2>1, <2>2, <3>2 DEF HandIsPlain, Further
  <2>3. r.pc = "drop" => /\ r.b \in DOMAIN r.blocks
                         /\ Embedded(r.blocks[r.b]) /\ r.blocks[r.b].renamed # NoPath
    BY <1>4 DEF Further
  <2>4. r.file = f /\ PlainDoc(r.text)
    BY <2>1 DEF HandIsPlain, Further
  <2>5. \A j \in DOMAIN r.blocks : Embedded(r.blocks[j]) =>
         /\ r.blocks[j].mode = "plain" /\ r.blocks[j].file = f
         /\ r.blocks[j].path = <<f, r.blocks[j].id>>
         /\ r.blocks[j].renamed # NoPath => \E id \in BlockIds : r.blocks[j].renamed = <<f, id>>
    BY <1>4, <2>1 DEF HandIsPlain
  <2> QED
    BY <2>2, <2>3, <2>4, <2>5 DEF HandIsPlain
<1>8. PruningIsSafe(r)'
  <2>1. ASSUME NEW g \in Files \ Ignored, Secure(old, g) PROVE Secure(r, g)'
    BY <1>3, <1>5, <2>1 DEF Secure, Further
  <2> QED
    BY <1>1, <2>1 DEF RunInv, PruningIsSafe, Further
<1>9. Repairs(r)'
  <2>1. SUFFICES ASSUME r.calm, r.opts.write
                 PROVE  /\ \A g \in Files \ Ignored : r.opts.whole \/ g = r.file => Repaired(r, g)'
                        /\ r.opts.whole => \A path \in r.keep : Expected(r, path)'
    BY <1>3 DEF Repairs
  <2>2. Repaired(r, r.file)'
    BY <1>3, <2>1 DEF Repaired, Further
  <2>3. ASSUME NEW g \in Files \ Ignored, r.opts.whole, g # r.file PROVE Repaired(r, g)'
    <3>1. Repaired(old, g)
      BY <1>1, <2>1, <2>3 DEF RunInv, Repairs, Further
    <3>2. Shown(g) => Shown(g)'
      BY <2>1, <2>3 DEF Further
    <3> QED
      BY <1>5, <2>3, <3>1, <3>2 DEF Repaired, Further
  <2>4. ASSUME r.opts.whole, NEW path \in r.keep PROVE Expected(r, path)'
    <3>1. Named(path)' <=> Named(path)
      BY <1>5 DEF Named
    <3>2. CASE path \in old.keep
      <4>1. Expected(old, path)
        BY <1>1, <2>1, <2>4, <3>2 DEF RunInv, Repairs, Further
      <4> QED
        BY <1>3, <1>4, <3>1, <4>1 DEF Expected
    <3>3. CASE path \notin old.keep
      BY <1>3, <1>4, <2>4, <3>3 DEF Expected, Further
    <3> QED
      BY <3>2, <3>3
  <2> QED
    BY <2>2, <2>3, <2>4
<1> QED
  BY <1>6, <1>7, <1>8, <1>9 DEF RunInv

\* In a plain tree an SVG with the hash of a source is that of the block.
LEMMA FreshIsShown ==
  ASSUME FitInv, RepairInv, NEW p \in Procs, Busy(p), InHand(run[p]),
         NEW j \in DOMAIN run[p].blocks, Embedded(run[p].blocks[j]), Fresh(run[p].blocks[j])
  PROVE  SvgAt(run[p].blocks[j].path) = Rendered(run[p].blocks[j])
<1> DEFINE c == run[p].blocks[j]
<1>1. run[p] \in RunType /\ RunIsFit(run[p]) /\ HandIsPlain(run[p])
  BY RunHas DEF RunInv
<1>2. c \in Result /\ c.hash # Missing /\ c.mode = "plain" /\ c.path = <<c.file, c.id>>
  BY <1>1 DEF RunType, RunIsFit, Embedded, HandIsPlain
<1>3. c.hash \in Srcs /\ NoHash \notin Srcs
  BY <1>2, EmbedAssumption DEF Result
<1> HIDE DEF c
<1>4. SvgAt(c.path) # Missing /\ SvgAt(c.path).hash = c.hash
  BY DEF Fresh, c
<1>5. c.path \in DOMAIN svgs /\ SvgAt(c.path) = svgs[c.path]
  BY <1>4 DEF SvgAt
<1>6. svgs[c.path] \in Svg /\ PlainSvg(c.path, svgs[c.path])
  BY <1>5 DEF FitInv, TypeOK, RepairInv, TreeInv, TreeIsPlain
<1>7. /\ svgs[c.path].mode = "plain" /\ svgs[c.path].whole = TRUE /\ svgs[c.path].hash = c.hash
      /\ svgs[c.path].from = c.path
  BY <1>3, <1>4, <1>5, <1>6 DEF PlainSvg, Svg
<1>8. svgs[c.path] = Rendered(c)
  BY <1>2, <1>6, <1>7 DEF Svg, Rendered
<1> QED
  BY <1>5, <1>8 DEF c

\* What a run finds or has shown it leaves shown when nothing else is written.
LEMMA ShownStays ==
  ASSUME svgs' = svgs, docs' = docs, incs' = incs
  PROVE  /\ \A g : Shown(g)' <=> Shown(g)
         /\ \A path : SvgAt(path)' = SvgAt(path)
<1>1. \A path : SvgAt(path)' = SvgAt(path)
  BY DEF SvgAt
<1> QED
  BY <1>1, FileStays

\* The block a run comes to is shown: so is what it has in hand up to the next one.
LEMMA ShownOneMore ==
  ASSUME FitInv, RepairInv, NEW p \in Procs, Busy(p), InHand(run[p]), run[p].calm, run[p].opts.write,
         NEW r, Further(run[p], r), \A path : SvgAt(path)' = SvgAt(path),
         Embedded(run[p].blocks[run[p].b]) =>
           SvgAt(run[p].blocks[run[p].b].path) = Rendered(run[p].blocks[run[p].b])
  PROVE  \/ r.file \in Range(r.todo)
         \/ r.file \in r.dropped
         \/ ShownSoFar(r)'
<1> DEFINE old == run[p]
<1>1. \/ old.file \in Range(old.todo)
      \/ old.file \in old.dropped
      \/ ShownSoFar(old)
  BY ShownBefore
<1>2. CASE ShownSoFar(old)
  <2>1. old.blocks \in Seq(Result) /\ old.b \in Nat
    BY RunHas DEF RunType
  <2>2. Near(old.blocks, old.blocks)
    BY DEF Near
  <2>3. /\ DOMAIN r.blocks = DOMAIN old.blocks
        /\ \A j \in DOMAIN old.blocks :
             /\ Embedded(r.blocks[j]) <=> Embedded(old.blocks[j])
             /\ r.blocks[j].path = old.blocks[j].path
             /\ r.blocks[j].mode = old.blocks[j].mode /\ r.blocks[j].hash = old.blocks[j].hash
             /\ r.blocks[j].file = old.blocks[j].file /\ r.blocks[j].id = old.blocks[j].id
    BY <2>1, <2>2, NearAgain DEF Further
  <2>4. ASSUME NEW j \in DOMAIN r.blocks, j < r.b, Embedded(r.blocks[j])
        PROVE  SvgAt(r.blocks[j].path) = Rendered(r.blocks[j])
    <3>1. j \in DOMAIN old.blocks /\ j \in Nat /\ Embedded(old.blocks[j])
      BY <2>1, <2>3, <2>4
    <3>2. j < old.b \/ j = old.b
      BY <2>1, <2>4, <3>1 DEF Further
    <3>3. SvgAt(old.blocks[j].path) = Rendered(old.blocks[j])
      BY <1>2, <3>1, <3>2 DEF ShownSoFar
    <3> QED
      BY <2>3, <3>1, <3>3 DEF Rendered
  <2> QED
    BY <2>4 DEF ShownSoFar
<1> QED
  BY <1>1, <1>2 DEF Further

\* A step that leaves every file as it is: the other runs and the tree do not notice.
LEMMA RunsGoOn ==
  ASSUME RepairInv, NEW p \in Procs, \A q \in Procs \ {p} : run'[q] = run[q],
         docs' = docs, incs' = incs, svgs' = svgs, synced' = synced, dropped' = dropped, swept' = swept,
         Busy(p)' => RunInv(run[p])'
  PROVE  RepairInv'
<1>1. ASSUME NEW q \in Procs \ {p}, Busy(q)' PROVE RunInv(run[q])'
  <2>1. RunInv(run'[q])
    BY <1>1 DEF RepairInv, Busy
  <2> QED
    BY <2>1, NothingStirs
<1> QED
  BY <1>1, NothingStirs DEF RepairInv

\* A block is passed over, or found current, or counted.
LEMMA RepairLooks ==
  ASSUME FitInv, RepairInv, NEW p \in Procs, SkipBlock(p) \/ KeepBlock(p) \/ CountStale(p)
  PROVE  RepairInv'
<1> DEFINE old == run[p]
           r == run'[p]
           b == run[p].b
           c == run[p].blocks[b]
           more == IF SkipBlock(p) THEN {} ELSE {c.path}
<1>1. old \in RunType /\ RunIsFit(old) /\ RunInv(old) /\ old.pc = "block" /\ b \in DOMAIN old.blocks
      /\ Busy(p) /\ InHand(old)
  <2>1. old \in RunType /\ RunIsFit(old) /\ RunInv(old) /\ old.pc = "block" /\ b <= Len(old.blocks)
        /\ Busy(p)
    BY RunHas DEF SkipBlock, KeepBlock, CountStale, AtBlock, Busy
  <2> QED
    BY <2>1 DEF RunType, InHand
<1>2. /\ \A q \in Procs \ {p} : run'[q] = run[q]
      /\ docs' = docs /\ incs' = incs /\ svgs' = svgs
      /\ synced' = synced /\ dropped' = dropped /\ swept' = swept
  BY <1>1 DEF SkipBlock, KeepBlock, CountStale, history, FitInv, TypeOK
<1>3. /\ r.todo = old.todo /\ r.file = old.file /\ r.blocks = old.blocks /\ r.b = b + 1
      /\ r.text = old.text /\ r.opts = old.opts /\ r.dropped = old.dropped /\ r.calm = old.calm
      /\ r.pc = "block"
      /\ IF Embedded(c) THEN r.keep = old.keep \cup {c.path} ELSE r.keep = old.keep
  BY <1>1 DEF SkipBlock, KeepBlock, CountStale, Skipped, Current, Embedded, RunType, FitInv, TypeOK
<1>4. Further(old, r)
  <2>1. Near(old.blocks, old.blocks)
    BY DEF Near
  <2> HIDE DEF r, old
  <2> QED
    BY <1>1, <1>3, <2>1 DEF Further, old
<1>5. Embedded(c) /\ old.opts.write => Fresh(c)
  BY DEF SkipBlock, KeepBlock, CountStale, Skipped, Current, Embedded, Unchanged
<1>6. old.calm /\ old.opts.write => \/ r.file \in Range(r.todo)
                                    \/ r.file \in r.dropped
                                    \/ ShownSoFar(run[p])'
  BY <1>1, <1>2, <1>4, <1>5, ShownStays, FreshIsShown, ShownOneMore
<1>7. RunInv(run[p])'
  BY <1>1, <1>2, <1>4, <1>6, ShownStays, RunsFurther
<1> QED
  BY <1>2, <1>7, RunsGoOn

LEMMA RepairReads ==
  ASSUME FitInv, RepairInv, NEW p \in Procs, OpenFile(p)
  PROVE  RepairInv'
<1>1. \A q \in Procs \ {p} : run'[q] = run[q]
  BY Zenon, RunsKeepTheirFlags DEF Step
<1>2. docs' = docs /\ incs' = incs /\ svgs' = svgs /\ synced' = synced /\ dropped' = dropped
      /\ swept' = swept
  BY Zenon DEF OpenFile, Opened, history
<1> QED
  BY <1>1, <1>2, RepairOpens, QuietStep

\* A block that is rendered is taken over: the run has come further.
LEMMA HandledIsFurther ==
  ASSUME FitInv, RepairInv, NEW p \in Procs, MustRender(p), NEW pc \in {"block", "drop"}, Handled(p, pc),
         pc = "drop" => Current(p).renamed # NoPath
  PROVE  /\ Further(run[p], run'[p]) /\ Busy(p) /\ InHand(run[p]) /\ run[p].opts.write
         /\ run[p].b \in DOMAIN run[p].blocks /\ Embedded(run[p].blocks[run[p].b])
         /\ run'[p].dropped = run[p].dropped
         /\ \A q \in Procs \ {p} : run'[q] = run[q]
<1> DEFINE old == run[p]
           j == run[p].b
           c == run[p].blocks[j]
           o == IF c.outcome = "OK" THEN "Rerender" ELSE c.outcome
           res == [c EXCEPT !.outcome = o]
           blocks == [old.blocks EXCEPT ![j] = res]
           b == IF pc = "block" THEN j + 1 ELSE j
           keep == old.keep \cup {c.path}
           r == [old EXCEPT !.pc = pc, !.b = b, !.keep = keep, !.blocks = blocks]
<1>1. /\ old \in RunType /\ RunIsFit(old) /\ old.pc = "block" /\ old.opts.write
      /\ j \in DOMAIN old.blocks /\ Current(p) = c /\ c \in Result
  BY CurrentIsAResult DEF Current
<1>2. Embedded(c) /\ Busy(p) /\ InHand(old)
  BY <1>1 DEF MustRender, Skipped, Embedded, Busy, InHand
<1>3. run' = [run EXCEPT ![p] = r]
  BY <1>1, ZenonT(60) DEF Handled, Current
<1>4. run \in [Procs -> {Idle} \cup RunType]
  BY DEF FitInv, TypeOK
<1> HIDE DEF r
<1>5. run'[p] = r /\ \A q \in Procs \ {p} : run'[q] = run[q]
  BY <1>3, <1>4
<1>6. Near(blocks, old.blocks)
  <2>1. res = c \/ (c.outcome = "OK" /\ res = [c EXCEPT !.outcome = "Rerender"])
    BY <1>1 DEF Result
  <2>2. old.blocks \in Seq(Result)
    BY <1>1 DEF RunType
  <2> HIDE DEF res
  <2>3. DOMAIN blocks = DOMAIN old.blocks
        /\ \A k \in DOMAIN old.blocks : blocks[k] = IF k = j THEN res ELSE old.blocks[k]
    BY <2>2
  <2> HIDE DEF blocks
  <2> QED
    BY <2>1, <2>3 DEF Near
<1> HIDE DEF blocks, b, keep
<1>7. /\ r.todo = old.todo /\ r.file = old.file /\ r.text = old.text /\ r.opts = old.opts
      /\ r.calm = old.calm /\ r.dropped = old.dropped /\ r.blocks = blocks /\ r.b = b /\ r.keep = keep
      /\ r.pc = pc
  BY <1>1 DEF r, RunType
<1>8. Further(old, r)
  <2>1. pc = "drop" => c.renamed # NoPath
    BY <1>1
  <2>2. j = old.b /\ c = old.blocks[j]
    OBVIOUS
  <2> HIDE DEF old, c, j
  <2> QED
    BY <1>1, <1>2, <1>6, <1>7, <2>1, <2>2 DEF Further, b, keep
<1> QED
  BY <1>1, <1>2, <1>5, <1>7, <1>8

\* The SVG on disk is the rendered one.
LEMMA RepairLeaves ==
  ASSUME FitInv, RepairInv, NEW p \in Procs, LeaveSvg(p)
  PROVE  RepairInv'
<1> DEFINE j == run[p].b
<1>1. MustRender(p) /\ SameOnDisk(p) /\ Handled(p, "block")
  BY DEF LeaveSvg, Renders
<1>2. /\ Further(run[p], run'[p]) /\ Busy(p) /\ InHand(run[p])
      /\ \A q \in Procs \ {p} : run'[q] = run[q]
  BY <1>1, HandledIsFurther
<1>3. docs' = docs /\ incs' = incs /\ svgs' = svgs /\ synced' = synced /\ dropped' = dropped
      /\ swept' = swept
  BY DEF LeaveSvg, history
<1>4. SvgAt(run[p].blocks[j].path) = Rendered(run[p].blocks[j])
  BY <1>1 DEF SameOnDisk, Current
<1>5. run[p].calm /\ run[p].opts.write => \/ run'[p].file \in Range(run'[p].todo)
                                          \/ run'[p].file \in run'[p].dropped
                                          \/ ShownSoFar(run[p])'
  <2> DEFINE r == run'[p]
  <2>1. SUFFICES ASSUME run[p].calm, run[p].opts.write
                 PROVE  r.file \in Range(r.todo) \/ r.file \in r.dropped \/ ShownSoFar(r)
    BY <1>3, ShownStays DEF ShownSoFar
  <2>2. \A path : SvgAt(path)' = SvgAt(path)
    BY <1>3, ShownStays
  <2> QED
    BY <1>2, <1>3, <1>4, <2>1, <2>2, ShownOneMore, ShownStays DEF ShownSoFar
<1>6. RunInv(run[p])'
  BY <1>2, <1>3, <1>5, ShownStays, RunsFurther
<1> QED
  BY <1>2, <1>3, <1>6, RunsGoOn

\* The blocks in hand have ids of their own when those of the analysis have.
LEMMA NearIsDistinct ==
  ASSUME NEW found \in Seq(Result), Distinct(found), NEW rs, Near(rs, found)
  PROVE  Distinct(rs)
<1>1. Near(found, found)
  BY DEF Near
<1>2. /\ DOMAIN rs = DOMAIN found
      /\ \A j \in DOMAIN found : (Embedded(rs[j]) <=> Embedded(found[j])) /\ rs[j].id = found[j].id
  BY <1>1, NearAgain
<1> QED
  BY <1>2 DEF Distinct

\* What a busy run has in hand of a file that is as it was read.
LEMMA HandIsOfTheFile ==
  ASSUME FitInv, RepairInv, RoomForKeys, NEW p \in Procs, Busy(p), InHand(run[p]),
         run[p].calm \/ run[p].file \in synced
  PROVE  LET r == run[p]
         IN  /\ r.file \in Files \ Ignored /\ r.text = docs[r.file]
             /\ Near(r.blocks, Analyze(r.file, docs[r.file], incs)) /\ Distinct(r.blocks)
             /\ r.file \in synced => Fixed(r.file)
<1> DEFINE r == run[p]
           f == run[p].file
<1>1. r \in RunType /\ RunInv(r) /\ f \in Files \ Ignored /\ TreeType
  BY RunHas DEF RunIsFit, InHand
<1>2. r.text = docs[f] /\ Near(r.blocks, Analyze(f, docs[f], incs))
  BY <1>1 DEF RunInv, HandIsCurrent
<1>3. docs[f] \in Seq(Block) /\ incs \in Includes
  BY <1>1 DEF TreeType
<1>4. Analyze(f, docs[f], incs) \in Seq(Result)
  BY <1>1, <1>3, AnalyzeReturns
<1>5. Distinct(r.blocks)
  BY <1>1, <1>2, <1>4, NearIsDistinct DEF RoomForKeys
<1>6. f \in synced => Fixed(f)
  BY DEF RepairInv, TreeInv, SyncedAreFixed
<1> QED
  BY <1>1, <1>2, <1>5, <1>6

\* In a synced file a block keeps its SVG path, which is that of the file.
LEMMA SyncedHand ==
  ASSUME FitInv, RepairInv, RoomForKeys, NEW p \in Procs, Busy(p), InHand(run[p]), run[p].file \in synced
  PROVE  LET r == run[p]
         IN  /\ \A j \in DOMAIN r.blocks : Embedded(r.blocks[j]) =>
                  /\ r.blocks[j].renamed = NoPath /\ r.blocks[j].path \in LivePaths(r.file)
                  /\ Shown(r.file) => SvgAt(r.blocks[j].path) = Rendered(r.blocks[j])
             /\ \A path \in LivePaths(r.file) :
                  \E j \in DOMAIN r.blocks : Embedded(r.blocks[j]) /\ path = r.blocks[j].path
             /\ ApplyMarkers(r.text, r.blocks) = r.text
<1> DEFINE r == run[p]
           f == run[p].file
<1>1. /\ f \in Files \ Ignored /\ r.text = docs[f] /\ Fixed(f)
      /\ Near(r.blocks, Analyze(f, docs[f], incs))
  BY HandIsOfTheFile
<1>2. TreeType /\ PlainDoc(docs[f])
  BY <1>1, RunHas
<1> QED
  BY <1>1, <1>2, FixedTells

\* An SVG file is written.
LEMMA SvgIsWritten ==
  ASSUME NEW path, NEW svg, svgs' = WithSvg(path, svg)
  PROVE  /\ DOMAIN svgs' = DOMAIN svgs \cup {path}
         /\ \A q \in DOMAIN svgs' : svgs'[q] = IF q = path THEN svg ELSE svgs[q]
         /\ \A q : SvgAt(q)' = IF q = path THEN svg ELSE SvgAt(q)
BY DEF WithSvg, SvgAt

\* The SVG files of other files stay.
LEMMA OtherSvgsStay ==
  ASSUME NEW f, NEW id, docs' = docs, incs' = incs, \A q : q # <<f, id>> => SvgAt(q)' = SvgAt(q)
  PROVE  \A g : g # f => (Shown(g)' <=> Shown(g))
<1>1. ASSUME NEW g, g # f PROVE \A path \in LivePaths(g) : SvgAt(path)' = SvgAt(path)
  <2>1. \A path \in LivePaths(g) : path # <<f, id>>
    BY <1>1 DEF LivePaths
  <2> QED
    BY <2>1
<1> QED
  BY <1>1, FileStays

\* An SVG file that is written, whole or cut short, is none of a synced file that is shown.
LEMMA TreeTakesSvg ==
  ASSUME FitInv, RepairInv, RoomForKeys, NEW p \in Procs, MustRender(p), ~SameOnDisk(p),
         NEW svg, PlainSvg(Current(p).path, svg), svgs' = WithSvg(Current(p).path, svg),
         docs' = docs, incs' = incs, synced' = synced, dropped' = dropped, swept' = swept
  PROVE  TreeInv'
<1> DEFINE old == run[p]
           f == run[p].file
           c == run[p].blocks[run[p].b]
<1>1. /\ Busy(p) /\ InHand(old) /\ RunInv(old) /\ f \in Files \ Ignored
      /\ old.b \in DOMAIN old.blocks /\ Embedded(c) /\ Current(p) = c
  BY RunHas, CurrentIsAResult DEF MustRender, AtBlock, Busy, InHand, RunIsFit, Current, Skipped, Embedded
<1>2. c.path = <<f, c.id>>
  BY <1>1 DEF RunInv, HandIsPlain
<1>3. ~(c.renamed = NoPath /\ SvgAt(c.path) = Rendered(c))
  BY <1>1 DEF SameOnDisk
<1> HIDE DEF c
<1>4. /\ DOMAIN svgs' = DOMAIN svgs \cup {c.path}
      /\ \A q \in DOMAIN svgs' : svgs'[q] = IF q = c.path THEN svg ELSE svgs[q]
      /\ \A q : SvgAt(q)' = IF q = c.path THEN svg ELSE SvgAt(q)
  BY <1>1, SvgIsWritten
<1>5. \A g : g # f => (Shown(g)' <=> Shown(g))
  BY <1>2, <1>4, OtherSvgsStay
<1>6. f \notin synced \ dropped
  <2>1. SUFFICES ASSUME f \in synced \ dropped PROVE FALSE
    OBVIOUS
  <2>2. Shown(f)
    BY <2>1 DEF RepairInv, TreeInv, SyncedAreShown
  <2> QED
    BY <1>1, <1>3, <2>1, <2>2, SyncedHand DEF c
<1>7. ASSUME swept, NEW path \in DOMAIN svgs' \ (DOMAIN svgs \cup Overrides) PROVE Named(path)
  <2>1. path = c.path
    BY <1>4, <1>7
  <2>2. f \in synced
    BY <1>1, <1>7 DEF RepairInv, TreeInv, SweptIsClean
  <2> QED
    BY <1>1, <2>1, <2>2, SyncedHand, HandIsOfTheFile DEF Named, c
<1>8. TreeIsPlain'
  <2>1. \A q \in DOMAIN svgs : PlainSvg(q, svgs[q])
    BY DEF RepairInv, TreeInv, TreeIsPlain
  <2>2. \A g \in Files : PlainDoc(docs[g])
    BY DEF RepairInv, TreeInv, TreeIsPlain
  <2>3. \A q \in DOMAIN svgs' : PlainSvg(q, svgs'[q])
    BY <1>1, <1>4, <2>1
  <2> QED
    BY <2>2, <2>3 DEF TreeIsPlain
<1> QED
  <2>1. \A g \in synced \ dropped : Shown(g)'
    BY <1>5, <1>6 DEF RepairInv, TreeInv, SyncedAreShown
  <2> QED
    BY <1>7, <1>8, <2>1, TreeStays DEF RepairInv

\* The SVG of a block is written.
LEMMA RepairWrites ==
  ASSUME FitInv, CalmIsAlone, RepairInv, RoomForKeys, NEW p \in Procs, WriteSvg(p)
  PROVE  RepairInv'
<1> DEFINE old == run[p]
           f == run[p].file
           b == run[p].b
           c == run[p].blocks[b]
           r == run'[p]
<1>1. /\ MustRender(p) /\ ~SameOnDisk(p) /\ svgs' = WithSvg(c.path, Rendered(c))
      /\ docs' = docs /\ incs' = incs /\ synced' = synced /\ dropped' = dropped /\ swept' = swept
  BY DEF WriteSvg, Renders, Current, history
<1>2. /\ Further(old, r) /\ Busy(p) /\ InHand(old) /\ old.opts.write
      /\ b \in DOMAIN old.blocks /\ Embedded(c) /\ r.dropped = old.dropped
      /\ \A q \in Procs \ {p} : run'[q] = run[q]
  <2>1. PICK pc \in {"block", "drop"} : Handled(p, pc) /\ (pc = "drop" => Current(p).renamed # NoPath)
    BY DEF WriteSvg
  <2> QED
    BY <1>1, <2>1, HandledIsFurther
<1>3. /\ old \in RunType /\ RunIsFit(old) /\ RunInv(old) /\ f \in Files \ Ignored
      /\ c \in Result /\ c.hash \in Srcs
  BY <1>1, <1>2, RunHas, CurrentIsAResult DEF RunIsFit, InHand, Current
<1>4. c.mode = "plain" /\ c.path = <<f, c.id>> /\ c.file = f
  BY <1>2, <1>3 DEF RunInv, HandIsPlain
<1> HIDE DEF c
<1>6. /\ DOMAIN svgs' = DOMAIN svgs \cup {c.path}
      /\ \A q \in DOMAIN svgs' : svgs'[q] = IF q = c.path THEN Rendered(c) ELSE svgs[q]
      /\ \A q : SvgAt(q)' = IF q = c.path THEN Rendered(c) ELSE SvgAt(q)
  BY <1>1, SvgIsWritten
<1>7. \A g : g # f => (Shown(g)' <=> Shown(g))
  BY <1>1, <1>4, <1>6, OtherSvgsStay
<1>11. TreeInv'
  <2>1. PlainSvg(c.path, Rendered(c)) /\ Current(p) = c
    BY <1>4 DEF Rendered, PlainSvg, Current, c
  <2> QED
    BY <1>1, <2>1, TreeTakesSvg
<1>12. ASSUME old.calm, NEW rr, Further(old, rr)
       PROVE  \/ rr.file \in Range(rr.todo)
              \/ rr.file \in rr.dropped
              \/ ShownSoFar(rr)'
  <2>1. \/ old.file \in Range(old.todo)
        \/ old.file \in old.dropped
        \/ ShownSoFar(old)
    BY <1>2, <1>12, ShownBefore
  <2>2. CASE ShownSoFar(old)
    <3>1. old.blocks \in Seq(Result) /\ b \in Nat /\ Near(old.blocks, old.blocks)
      BY <1>3 DEF RunType, Near
    <3>2. /\ DOMAIN rr.blocks = DOMAIN old.blocks
          /\ \A j \in DOMAIN old.blocks :
               /\ Embedded(rr.blocks[j]) <=> Embedded(old.blocks[j])
               /\ rr.blocks[j].path = old.blocks[j].path
               /\ rr.blocks[j].mode = old.blocks[j].mode /\ rr.blocks[j].hash = old.blocks[j].hash
               /\ rr.blocks[j].file = old.blocks[j].file /\ rr.blocks[j].id = old.blocks[j].id
      BY <1>12, <3>1, NearAgain DEF Further
    <3>3. Distinct(old.blocks)
      BY <1>2, <1>12, HandIsOfTheFile
    <3>4. ASSUME NEW j \in DOMAIN rr.blocks, j < rr.b, Embedded(rr.blocks[j])
          PROVE  SvgAt(rr.blocks[j].path)' = Rendered(rr.blocks[j])
      <4> DEFINE x == old.blocks[j]
                 y == rr.blocks[j]
      <4>1. j \in DOMAIN old.blocks /\ j \in Nat /\ Embedded(x) /\ y.path = x.path
            /\ Rendered(y) = Rendered(x)
        <5>1. j \in DOMAIN old.blocks /\ j \in Nat
          BY <3>1, <3>2, <3>4
        <5> QED
          BY <3>2, <3>4, <5>1, Zenon DEF Rendered
      <4>2. j < b \/ j = b
        BY <1>12, <3>1, <3>4, <4>1 DEF Further
      <4>3. \A q : q = x.path => SvgAt(q)' = Rendered(x)
        <5>1. CASE j = b
          <6>1. x = c
            BY <5>1 DEF c
          <6> HIDE DEF x
          <6> QED
            BY <1>6, <6>1
        <5>2. CASE j # b
          <6>1. x.path = <<f, x.id>> /\ x.id # c.id
            BY <1>2, <1>3, <3>3, <4>1, <5>2 DEF RunInv, HandIsPlain, Distinct, c
          <6>2. x.path # c.path
            BY <1>4, <6>1
          <6>3. SvgAt(x.path) = Rendered(x)
            BY <2>2, <4>1, <4>2, <5>2 DEF ShownSoFar
          <6> HIDE DEF x
          <6> QED
            BY <1>6, <6>2, <6>3
        <5> QED
          BY <5>1, <5>2
      <4> HIDE DEF x
      <4> QED
        BY <4>1, <4>3 DEF y
    <3> QED
      BY <3>4 DEF ShownSoFar
  <2> QED
    BY <1>12, <2>1, <2>2 DEF Further
<1>13. RunInv(run[p])'
  <2>1. \A rr : Further(old, rr) /\ (old.calm /\ old.opts.write =>
           /\ \A g \in Files \ {f} : Shown(g) => Shown(g)'
           /\ \/ rr.file \in Range(rr.todo)
              \/ rr.file \in rr.dropped
              \/ ShownSoFar(rr)') => RunInv(rr)'
    BY <1>1, <1>2, RunsFurther
  <2> QED
    BY <1>2, <1>7, <1>12, <2>1
<1>14. \A q \in Procs \ {p} : Busy(q)' => RunInv(run[q])'
  BY <1>1, <1>2, OthersStay
<1> QED
  BY <1>11, <1>13, <1>14 DEF RepairInv

\* An SVG file is removed.
LEMMA SvgIsRemoved ==
  ASSUME NEW path, svgs' = WithoutSvg(path)
  PROVE  /\ DOMAIN svgs' = DOMAIN svgs \ {path}
         /\ \A q \in DOMAIN svgs' : svgs'[q] = svgs[q]
         /\ \A q : SvgAt(q)' = IF q = path THEN Missing ELSE SvgAt(q)
BY DEF WithoutSvg, SvgAt

\* The SVGs that are left stay plain.
LEMMA TreeStaysPlain ==
  ASSUME TreeIsPlain, docs' = docs, DOMAIN svgs' \subseteq DOMAIN svgs,
         \A q \in DOMAIN svgs' : svgs'[q] = svgs[q]
  PROVE  TreeIsPlain'
BY DEF TreeIsPlain

\* The old SVG of a re-keyed block is removed: the file was not synced.
LEMMA RepairDrops ==
  ASSUME FitInv, CalmIsAlone, RepairInv, RoomForKeys, NEW p \in Procs, DropRenamed(p)
  PROVE  RepairInv'
<1> DEFINE old == run[p]
           f == run[p].file
           b == run[p].b
           c == run[p].blocks[b]
           r == run'[p]
<1>1. /\ svgs' = WithoutSvg(c.renamed) /\ old.pc = "drop"
      /\ docs' = docs /\ incs' = incs /\ synced' = synced /\ dropped' = dropped /\ swept' = swept
  BY DEF DropRenamed, Current, history
<1>2. /\ Busy(p) /\ InHand(old) /\ old \in RunType /\ RunInv(old) /\ f \in Files \ Ignored
  BY <1>1, RunHas DEF RunIsFit, InHand, Busy
<1>3. /\ b \in DOMAIN old.blocks /\ Embedded(c) /\ c.renamed # NoPath /\ c.path \in old.keep
      /\ \E id \in BlockIds : c.renamed = <<f, id>>
  BY <1>1, <1>2 DEF RunInv, HandIsPlain
<1>4. PICK id \in BlockIds : c.renamed = <<f, id>>
  BY <1>3
<1>5. f \notin synced
  BY <1>2, <1>3, SyncedHand
<1>6. /\ r.todo = old.todo /\ r.file = f /\ r.blocks = old.blocks /\ r.b = b + 1
      /\ r.text = old.text /\ r.opts = old.opts /\ r.dropped = old.dropped \cup {f}
      /\ r.calm = old.calm /\ r.pc = "block" /\ r.keep = old.keep
      /\ \A q \in Procs \ {p} : run'[q] = run[q]
  BY <1>2 DEF DropRenamed, RunType, FitInv, TypeOK
<1>7. Further(old, r)
  <2>1. Near(old.blocks, old.blocks) /\ c = old.blocks[old.b] /\ b = old.b /\ f = old.file
    BY DEF Near
  <2> HIDE DEF r, old, c, b, f
  <2> QED
    BY <1>3, <1>6, <2>1 DEF Further
<1> HIDE DEF c
<1>8. /\ DOMAIN svgs' \subseteq DOMAIN svgs /\ \A q \in DOMAIN svgs' : svgs'[q] = svgs[q]
      /\ \A q : q # <<f, id>> => SvgAt(q)' = SvgAt(q)
  BY <1>1, <1>4, SvgIsRemoved
<1>9. \A g : g # f => (Shown(g)' <=> Shown(g))
  BY <1>1, <1>8, OtherSvgsStay
<1>10. TreeInv'
  <2>1. \A g \in synced \ dropped : Shown(g)'
    BY <1>5, <1>9 DEF RepairInv, TreeInv, SyncedAreShown
  <2>2. TreeIsPlain'
    BY <1>1, <1>8, TreeStaysPlain DEF RepairInv, TreeInv
  <2> QED
    BY <1>1, <1>8, <2>1, <2>2, TreeStays DEF RepairInv
<1>11. RunInv(run[p])'
  <2>1. r.file \in r.dropped
    BY <1>6
  <2>2. \A rr : Further(old, rr) /\ rr.file \in rr.dropped => RunInv(rr)'
    BY <1>1, <1>2, <1>9, RunsFurther
  <2> QED
    BY <1>7, <2>1, <2>2
<1>12. \A q \in Procs \ {p} : Busy(q)' => RunInv(run[q])'
  BY <1>1, <1>2, <1>6, OthersStay
<1> QED
  BY <1>10, <1>11, <1>12 DEF RepairInv

\* The markers of a file are written.
LEMMA RepairMarks ==
  ASSUME FitInv, CalmIsAlone, RepairInv, RoomForKeys, NEW p \in Procs, WriteMd(p)
  PROVE  RepairInv'
<1> DEFINE old == run[p]
           text == ApplyMarkers(run[p].text, run[p].blocks)
           r == run'[p]
<1>16. /\ Busy(p) /\ InHand(old) /\ old \in RunType /\ RunInv(old) /\ old.file \in Files \ Ignored
       /\ old.blocks \in Seq(Result)
  BY RunHas DEF WriteMd, RunIsFit, InHand, Busy, RunType
<1>17. PICK f \in Files \ Ignored, rs \in Seq(Result) : f = old.file /\ rs = old.blocks
  BY <1>16
<1>1. /\ old.pc = "block" /\ old.b > Len(rs)
      /\ docs' = IF old.opts.write /\ text # old.text THEN [docs EXCEPT ![f] = text] ELSE docs
      /\ incs' = incs /\ svgs' = svgs /\ synced' = synced /\ dropped' = dropped /\ swept' = swept
  BY <1>17 DEF WriteMd, history
<1>2. /\ Busy(p) /\ InHand(old) /\ old \in RunType /\ RunInv(old) /\ f \in Files \ Ignored
      /\ TreeType /\ \A g \in Files : PlainDoc(docs[g])
  BY <1>16, <1>17, RunHas
<1>3. TreeType' /\ FitInv'
  BY WriteStep DEF FitInv, TypeOK, TreeType, Includes
<1>4. /\ r.todo = old.todo /\ r.file = f /\ r.opts = old.opts /\ r.dropped = old.dropped
      /\ r.calm = old.calm /\ r.pc = "open" /\ r.keep = old.keep
      /\ \A q \in Procs \ {p} : run'[q] = run[q]
  BY <1>2, <1>17 DEF WriteMd, RunType, FitInv, TypeOK
<1>5. /\ \A g \in Files \ {f} : docs'[g] = docs[g]
      /\ docs'[f] \in {docs[f], text}
  BY <1>1, <1>2 DEF TreeType
<1>6. PlainDoc(docs'[f])
  <2>1. PlainDoc(text)
    BY <1>2, MarkersArePlain DEF RunInv, HandIsPlain
  <2> QED
    BY <1>2, <1>5, <2>1
<1>7. TreeIsPlain'
  <2>1. \A g \in Files : PlainDoc(docs'[g])
    BY <1>2, <1>5, <1>6
  <2> QED
    BY <1>1, <2>1 DEF TreeIsPlain, RepairInv, TreeInv
<1>8. f \in synced => docs'[f] = docs[f]
  <2>1. SUFFICES ASSUME f \in synced PROVE docs'[f] = docs[f]
    OBVIOUS
  <2>2. text = old.text
    BY <1>2, <1>17, <2>1, SyncedHand
  <2> QED
    BY <1>1, <2>2
<1>9. \A g \in synced : docs'[g] = docs[g]
  BY <1>2, <1>5, <1>8, RunHas
<1>10. \A path : SvgAt(path)' = SvgAt(path)
  BY <1>1 DEF SvgAt
<1>11. TreeInv'
  <2>1. \A g \in synced \ dropped : Shown(g)'
    BY <1>1, <1>9, <1>10, FileStays DEF RepairInv, TreeInv, SyncedAreShown
  <2> QED
    BY <1>1, <1>7, <1>9, <2>1, TreeStays DEF RepairInv
<1>12. \A q \in Procs \ {p} : Busy(q)' => RunInv(run[q])'
  BY <1>1, <1>2, <1>4, <1>9, OthersStay
<1>13. \A j \in DOMAIN rs : j < old.b
  BY <1>1, <1>2, <1>17 DEF RunType
<1>14. \A j \in DOMAIN rs : Embedded(rs[j]) => rs[j].path \in old.keep
  BY <1>2, <1>13, <1>17 DEF RunInv, HandIsPlain
<1>15. ASSUME old.calm, old.opts.write
       PROVE  /\ Fixed(f)' /\ LivePaths(f)' = {rs[j].path : j \in {k \in DOMAIN rs : Embedded(rs[k])}}
              /\ f \in Range(old.todo) \/ f \in old.dropped \/ Shown(f)'
              /\ Fixed(f) => docs'[f] = docs[f]
  <2>1. old.text = docs[f] /\ Near(rs, Analyze(f, docs[f], incs)) /\ Distinct(rs)
    BY <1>2, <1>15, <1>17, HandIsOfTheFile
  <2>2. docs'[f] = ApplyMarkers(docs[f], rs)
    BY <1>1, <1>2, <1>15, <1>17, <2>1 DEF TreeType
  <2>4. /\ Fixed(f)' /\ LivePaths(f)' = {rs[j].path : j \in {k \in DOMAIN rs : Embedded(rs[k])}}
        /\ (\A j \in DOMAIN rs : Embedded(rs[j]) => SvgAt(rs[j].path) = Rendered(rs[j])) => Shown(f)'
    BY <1>1, <1>2, <1>3, <1>10, <2>1, <2>2, WritingFixes
  <2>5. f \in Range(old.todo) \/ f \in old.dropped \/ ShownSoFar(old)
    BY <1>2, <1>15, <1>17, ShownBefore
  <2>6. ShownSoFar(old) => Shown(f)'
    BY <1>13, <1>17, <2>4 DEF ShownSoFar
  <2>7. Fixed(f) => docs'[f] = docs[f]
    BY <1>2, <2>1, <2>2, FixedTells
  <2> QED
    BY <2>4, <2>5, <2>6, <2>7
<1>18. ASSUME NEW rr, rr.pc = "open", rr.todo = old.todo, rr.opts = old.opts, rr.dropped = old.dropped,
              rr.calm = old.calm, rr.keep = old.keep, rr.file = f
       PROVE  RunInv(rr)'
  <2>1. HandIsPlain(rr)' /\ HandIsCurrent(rr)'
    BY <1>18 DEF HandIsPlain, HandIsCurrent, InHand
  <2>2. \A g \in Files \ {f} : /\ LivePaths(g)' = LivePaths(g) /\ (Fixed(g)' <=> Fixed(g))
                              /\ (Shown(g)' <=> Shown(g))
    BY <1>1, <1>5, <1>10, FileStays
  <2>3. docs'[f] = docs[f] => LivePaths(f)' = LivePaths(f) /\ (Fixed(f)' <=> Fixed(f))
    BY <1>1, FileStays
  <2>4. PruningIsSafe(rr)'
    <3>1. SUFFICES ASSUME rr.opts.write, rr.opts.whole, NEW g \in Files \ Ignored, rr.calm \/ g \in synced
                   PROVE  Secure(rr, g)'
      BY <1>1 DEF PruningIsSafe
    <3>2. g \in Range(rr.todo) \/ LivePaths(g)' \subseteq rr.keep
      <4>1. CASE g = f
        <5>1. CASE rr.calm
          BY <1>14, <1>15, <1>18, <3>1, <4>1, <5>1
        <5>2. CASE f \in synced
          <6>1. \A path \in LivePaths(f) : \E j \in DOMAIN rs : Embedded(rs[j]) /\ path = rs[j].path
            BY <1>2, <1>17, <5>2, SyncedHand
          <6> QED
            BY <1>8, <1>14, <1>18, <2>3, <4>1, <5>2, <6>1
        <5> QED
          BY <3>1, <4>1, <5>1, <5>2
      <4>2. CASE g # f
        <5>1. Secure(old, g)
          BY <1>2, <1>18, <3>1 DEF RunInv, PruningIsSafe
        <5> QED
          BY <1>17, <1>18, <2>2, <4>2, <5>1 DEF Secure
      <4> QED
        BY <4>1, <4>2
    <3> QED
      BY <1>18, <3>2 DEF Secure
  <2>5. Repairs(rr)'
    <3>1. SUFFICES ASSUME rr.calm, rr.opts.write
                   PROVE  /\ \A g \in Files \ Ignored : rr.opts.whole \/ g = rr.file => Repaired(rr, g)'
                          /\ rr.opts.whole => \A path \in rr.keep : Expected(rr, path)'
      BY <1>18 DEF Repairs
    <3>2. /\ Fixed(f)' /\ LivePaths(f)' = {rs[j].path : j \in {k \in DOMAIN rs : Embedded(rs[k])}}
          /\ f \in Range(old.todo) \/ f \in old.dropped \/ Shown(f)'
          /\ Fixed(f) => docs'[f] = docs[f]
      BY <1>15, <1>18, <3>1
    <3>3. Repaired(rr, f)'
      BY <1>18, <3>2 DEF Repaired
    <3>4. ASSUME NEW g \in Files \ Ignored, rr.opts.whole, g # f PROVE Repaired(rr, g)'
      <4>1. Repaired(old, g)
        BY <1>2, <1>18, <3>1, <3>4 DEF RunInv, Repairs
      <4> QED
        BY <1>17, <1>18, <2>2, <3>4, <4>1 DEF Repaired
    <3>5. ASSUME rr.opts.whole, NEW path \in rr.keep PROVE Expected(rr, path)'
      <4>1. Expected(old, path)
        BY <1>2, <1>18, <3>1, <3>5 DEF RunInv, Repairs
      <4>2. Named(path) => Named(path)'
        <5>1. SUFFICES ASSUME NEW g \in Files \ Ignored, Fixed(g), path \in LivePaths(g) PROVE Named(path)'
          BY DEF Named
        <5>2. Fixed(g)' /\ path \in LivePaths(g)'
          BY <2>2, <2>3, <3>2, <5>1
        <5> QED
          BY <5>2 DEF Named
      <4>3. (\E j \in DOMAIN rs : Embedded(rs[j]) /\ path = rs[j].path) => Named(path)'
        BY <3>2 DEF Named
      <4> QED
        BY <1>17, <4>1, <4>2, <4>3 DEF Expected
    <3> QED
      BY <1>18, <3>3, <3>4, <3>5
  <2> QED
    BY <2>1, <2>4, <2>5 DEF RunInv
<1>19. RunInv(run[p])'
  BY <1>4, <1>18
<1> QED
  BY <1>11, <1>12, <1>19 DEF RepairInv

\* The SVGs of the SVG directory that the run does not keep are listed: none is of a repaired file.
LEMMA RepairLists ==
  ASSUME FitInv, RepairInv, NEW p \in Procs, ListOrphans(p)
  PROVE  RepairInv'
<1> DEFINE old == run[p]
           orphans == (DOMAIN svgs \ Overrides) \ run[p].keep
           r == run'[p]
<1>1. /\ old.pc = "open" /\ old.todo = <<>> /\ Busy(p)
      /\ docs' = docs /\ incs' = incs /\ svgs' = svgs /\ synced' = synced /\ dropped' = dropped
      /\ swept' = swept
  BY DEF ListOrphans, Busy, history
<1>2. old \in RunType /\ RunInv(old)
  BY <1>1, RunHas
<1> HIDE DEF orphans
<1>3. /\ r.todo = <<>> /\ r.file = old.file /\ r.opts = old.opts /\ r.dropped = old.dropped
      /\ r.calm = old.calm /\ r.pc = "prune" /\ r.keep = old.keep /\ r.orphans = orphans
      /\ \A q \in Procs \ {p} : run'[q] = run[q]
  BY <1>1, <1>2 DEF ListOrphans, RunType, FitInv, TypeOK, orphans
<1>4. Range(<<>>) = {} /\ ~InHand(old) /\ ~InHand(r)
  BY <1>1, <1>3 DEF Range, InHand
<1>5. HandIsPlain(r) /\ HandIsCurrent(r)
  BY <1>4 DEF HandIsPlain, HandIsCurrent
<1>6. PruningIsSafe(r)
  <2>1. ASSUME NEW g \in Files \ Ignored, Secure(old, g) PROVE Secure(r, g)
    <3>1. LivePaths(g) \subseteq old.keep
      BY <1>1, <1>4, <2>1 DEF Secure
    <3> QED
      BY <1>3, <3>1 DEF Secure, orphans
  <2> QED
    BY <1>2, <1>3, <2>1 DEF RunInv, PruningIsSafe
<1>7. Repairs(r)
  <2>1. \A g : Repaired(old, g) => Repaired(r, g)
    BY <1>1, <1>3, <1>4 DEF Repaired
  <2>2. \A path : Expected(old, path) => Expected(r, path)
    BY <1>4 DEF Expected
  <2>3. DOMAIN svgs \ Overrides \subseteq r.keep \cup r.orphans
    BY <1>3 DEF orphans
  <2> QED
    BY <1>2, <1>3, <2>1, <2>2, <2>3 DEF RunInv, Repairs
<1> QED
  BY <1>1, <1>3, <1>5, <1>6, <1>7, QuietStep DEF RunInv

\* An orphan is removed: it belongs to no synced file, and to none that an undisturbed run repaired.
LEMMA RepairPrunes ==
  ASSUME FitInv, CalmIsAlone, RepairInv, NEW p \in Procs, PruneOne(p)
  PROVE  RepairInv'
<1> DEFINE old == run[p]
<1>1. /\ old.pc = "prune" /\ Busy(p)
      /\ docs' = docs /\ incs' = incs /\ synced' = synced /\ dropped' = dropped /\ swept' = swept
  BY DEF PruneOne, Busy, history
<1>2. old \in RunType /\ RunIsFit(old) /\ RunInv(old) /\ synced \subseteq Files \ Ignored
  BY <1>1, RunHas
<1>3. PICK path \in old.orphans :
        IF path \in DOMAIN svgs
        THEN /\ svgs' = WithoutSvg(path)
             /\ run' = [run EXCEPT ![p].orphans = @ \ {path}]
        ELSE /\ run' = [run EXCEPT ![p] = Idle]
             /\ UNCHANGED svgs
  BY DEF PruneOne
<1>4. CASE path \notin DOMAIN svgs
  <2>1. ~Busy(p)' /\ svgs' = svgs /\ \A q \in Procs \ {p} : run'[q] = run[q]
    BY <1>3, <1>4 DEF Busy, Idle, FitInv, TypeOK
  <2> QED
    BY <1>1, <2>1, QuietStep
<1>5. CASE path \in DOMAIN svgs
  <2> DEFINE r == run'[p]
             orphans == old.orphans \ {path}
  <2>1. /\ r.todo = old.todo /\ r.file = old.file /\ r.opts = old.opts /\ r.dropped = old.dropped
        /\ r.calm = old.calm /\ r.pc = "prune" /\ r.keep = old.keep /\ r.orphans = orphans
        /\ \A q \in Procs \ {p} : run'[q] = run[q]
    BY <1>1, <1>2, <1>3, <1>5 DEF RunType, FitInv, TypeOK
  <2>2. /\ DOMAIN svgs' = DOMAIN svgs \ {path} /\ \A q \in DOMAIN svgs' : svgs'[q] = svgs[q]
        /\ \A q : q # path => SvgAt(q)' = SvgAt(q)
    BY <1>3, <1>5, SvgIsRemoved
  <2>3. old.opts.write /\ old.opts.whole
    BY <1>1, <1>2 DEF RunIsFit
  <2>4. ASSUME NEW g \in Files \ Ignored, old.calm \/ g \in synced
        PROVE  path \notin LivePaths(g) /\ (Shown(g)' <=> Shown(g))
    <3>1. Secure(old, g)
      BY <1>2, <2>3, <2>4 DEF RunInv, PruningIsSafe
    <3>2. path \notin LivePaths(g)
      BY <1>1, <3>1 DEF Secure
    <3>3. \A q \in LivePaths(g) : SvgAt(q)' = SvgAt(q)
      BY <2>2, <3>2
    <3> QED
      BY <1>1, <3>2, <3>3, FileStays
  <2>5. TreeInv'
    <3>1. \A g \in synced \ dropped : Shown(g)'
      BY <1>2, <2>4 DEF RepairInv, TreeInv, SyncedAreShown
    <3>2. TreeIsPlain'
      BY <1>1, <2>2, TreeStaysPlain DEF RepairInv, TreeInv
    <3> QED
      BY <1>1, <2>2, <3>1, <3>2, TreeStays DEF RepairInv
  <2>6. \A g : LivePaths(g)' = LivePaths(g) /\ (Fixed(g)' <=> Fixed(g))
    BY <1>1, FileStays
  <2>7. ASSUME NEW rr, rr.todo = old.todo, rr.file = old.file, rr.opts = old.opts,
               rr.dropped = old.dropped, rr.calm = old.calm, rr.pc = "prune", rr.keep = old.keep,
               rr.orphans = orphans
        PROVE  RunInv(rr)'
    <3>1. (HandIsPlain(rr) /\ HandIsCurrent(rr))'
      BY <2>7 DEF HandIsPlain, HandIsCurrent, InHand
    <3>2. PruningIsSafe(rr)'
      <4>1. ASSUME NEW g \in Files \ Ignored, Secure(old, g) PROVE Secure(rr, g)'
        BY <1>1, <2>6, <2>7, <4>1 DEF Secure, InHand
      <4> QED
        BY <1>1, <1>2, <2>7, <4>1 DEF RunInv, PruningIsSafe
    <3>3. Repairs(rr)'
      <4>1. ASSUME rr.calm, NEW g \in Files \ Ignored, Repaired(old, g) PROVE Repaired(rr, g)'
        <5>1. Shown(g)' <=> Shown(g)
          BY <2>4, <2>7, <4>1
        <5> QED
          BY <1>1, <2>6, <2>7, <4>1, <5>1 DEF Repaired, InHand
      <4>2. \A q : Expected(old, q) => Expected(rr, q)'
        BY <1>1, <2>6 DEF Expected, Named, InHand
      <4>3. DOMAIN svgs \ Overrides \subseteq old.keep \cup old.orphans =>
              DOMAIN svgs' \ Overrides \subseteq rr.keep \cup rr.orphans
        BY <2>2, <2>7
      <4> QED
        BY <1>1, <1>2, <2>7, <4>1, <4>2, <4>3 DEF RunInv, Repairs
    <3> QED
      BY <3>1, <3>2, <3>3 DEF RunInv
  <2>8. RunInv(run[p])'
    BY <2>1, <2>7
  <2>9. \A q \in Procs \ {p} : Busy(q)' => RunInv(run[q])'
    BY <1>1, <2>1, OthersStay
  <2> QED
    BY <2>5, <2>8, <2>9 DEF RepairInv
<1> QED
  BY <1>4, <1>5

\* A run that ends in an error has changed nothing in this step.
LEMMA RepairAborts ==
  ASSUME FitInv, RepairInv, NEW p \in Procs, AbortRender(p)
  PROVE  RepairInv'
<1>1. /\ docs' = docs /\ incs' = incs /\ svgs' = svgs /\ synced' = synced /\ dropped' = dropped
      /\ swept' = swept /\ run' = [run EXCEPT ![p] = Idle]
  BY DEF AbortRender, history
<1>2. ~Busy(p)' /\ \A q \in Procs \ {p} : run'[q] = run[q]
  BY <1>1 DEF Busy, Idle, FitInv, TypeOK
<1> QED
  BY <1>1, <1>2, QuietStep

\* An undisturbed run that ends leaves what it repaired.
LEMMA RepairFinishes ==
  ASSUME FitInv, CalmIsAlone, RepairInv, NEW p \in Procs, Finish(p)
  PROVE  RepairInv'
<1> DEFINE old == run[p]
<1>1. /\ \/ old.pc = "open" /\ old.todo = <<>> /\ ~Prunes(p)
         \/ old.pc = "prune" /\ old.orphans = {}
      /\ docs' = docs /\ incs' = incs /\ svgs' = svgs /\ run' = [run EXCEPT ![p] = Idle] /\ Busy(p)
  BY DEF Finish, Busy
<1>2. ~Busy(p)' /\ \A q \in Procs \ {p} : run'[q] = run[q]
  BY <1>1 DEF Busy, Idle, FitInv, TypeOK
<1>3. old \in RunType /\ RunIsFit(old) /\ RunInv(old)
  BY <1>1, RunHas
<1>4. CASE ~(old.calm /\ old.opts.write)
  <2>1. synced' = synced /\ dropped' = dropped
    BY <1>4, Zenon DEF Finish
  <2>2. swept' = swept
    <3>1. ~(old.calm /\ Prunes(p)) /\ swept \in BOOLEAN
      BY <1>4 DEF Prunes, FitInv, TypeOK
    <3>2. swept' = (swept \/ (old.calm /\ Prunes(p)))
      BY Zenon DEF Finish
    <3> QED
      BY <3>1, <3>2
  <2> QED
    BY <1>1, <1>2, <2>1, <2>2, QuietStep
<1>5. CASE old.calm /\ old.opts.write
  <2>1. \A q \in Procs : ~Busy(q)'
    <3>1. \A q \in Procs \ {p} : ~Busy(q)
      BY <1>1, <1>5 DEF CalmIsAlone, AllIdleBut
    <3> QED
      BY <1>2, <3>1 DEF Busy
  <2>2. \A f : LivePaths(f)' = LivePaths(f) /\ (Fixed(f)' <=> Fixed(f)) /\ (Shown(f)' <=> Shown(f))
    BY <1>1, FileStays, ShownStays
  <2>3. \A path : Named(path)' <=> Named(path)
    BY <2>2 DEF Named
  <2>4. ASSUME NEW f \in Files \ Ignored, old.opts.whole \/ f = old.file, old.todo = <<>>
        PROVE  Fixed(f) /\ (f \in old.dropped \/ Shown(f))
    <3>1. Repaired(old, f)
      BY <1>3, <1>5, <2>4 DEF RunInv, Repairs
    <3>2. Range(<<>>) = {} /\ ~InHand(old)
      BY <1>1 DEF Range, InHand
    <3> QED
      BY <2>4, <3>1, <3>2 DEF Repaired
  <2>5. TreeIsPlain'
    BY <1>1 DEF RepairInv, TreeInv, TreeIsPlain
  <2>6. CASE ~old.opts.whole
    <3>1. old.todo = <<>> /\ old.file \in Files \ Ignored
      <4>1. old.todo = <<>>
        BY <1>1, <1>3, <2>6 DEF RunIsFit
      <4>2. old.file # NoPath
        BY <1>3, <2>6, <4>1 DEF RunIsFit
      <4> QED
        BY <1>3, <2>6, <4>1, <4>2 DEF RunIsFit, RunType
    <3>2. synced' = synced \cup {old.file} /\ dropped' = (dropped \ {old.file}) \cup old.dropped
      BY <1>5, <2>6, Zenon DEF Finish
    <3>3. swept' = swept
      <4>1. ~(old.calm /\ Prunes(p)) /\ swept \in BOOLEAN
        BY <2>6 DEF Prunes, FitInv, TypeOK
      <4>2. swept' = (swept \/ (old.calm /\ Prunes(p)))
        BY Zenon DEF Finish
      <4> QED
        BY <4>1, <4>2
    <3>4. Fixed(old.file) /\ (old.file \in old.dropped \/ Shown(old.file))
      BY <2>4, <3>1
    <3>5. SyncedAreFixed'
      BY <2>2, <3>2, <3>4 DEF SyncedAreFixed, RepairInv, TreeInv
    <3>6. SyncedAreShown'
      BY <2>2, <3>2, <3>4 DEF SyncedAreShown, RepairInv, TreeInv
    <3>7. SweptIsClean'
      BY <1>1, <2>3, <3>1, <3>2, <3>3 DEF SweptIsClean, RepairInv, TreeInv
    <3> QED
      BY <2>1, <2>5, <3>5, <3>6, <3>7 DEF RepairInv, TreeInv
  <2>7. CASE old.opts.whole
    <3>1. old.pc = "prune" /\ old.orphans = {}
      BY <1>1, <1>5, <2>7 DEF Prunes
    <3>2. old.todo = <<>> /\ DOMAIN svgs \ Overrides \subseteq old.keep
      BY <1>3, <1>5, <2>7, <3>1 DEF RunInv, Repairs
    <3>3. synced' = Files \ Ignored /\ dropped' = old.dropped
      BY <1>5, <2>7, Zenon DEF Finish
    <3>4. ASSUME NEW path \in DOMAIN svgs \ Overrides PROVE Named(path)
      <4>1. Expected(old, path)
        BY <1>3, <1>5, <2>7, <3>2 DEF RunInv, Repairs
      <4> QED
        BY <3>1, <4>1 DEF Expected, InHand
    <3>5. SyncedAreFixed' /\ SyncedAreShown'
      BY <2>2, <2>4, <2>7, <3>2, <3>3 DEF SyncedAreFixed, SyncedAreShown
    <3>6. SweptIsClean'
      BY <1>1, <2>3, <3>3, <3>4 DEF SweptIsClean
    <3> QED
      BY <2>1, <2>5, <3>5, <3>6 DEF RepairInv, TreeInv
  <2> QED
    BY <2>6, <2>7
<1> QED
  BY <1>4, <1>5

\* A process that is killed leaves at most an SVG cut short, which no run takes for a whole one.
LEMMA RepairCrashes ==
  ASSUME PlainTree, FitInv, CalmIsAlone, RepairInv, RoomForKeys, NEW p \in Procs, Crash(p)
  PROVE  RepairInv'
<1>1. /\ docs' = docs /\ incs' = incs /\ synced' = synced /\ dropped' = dropped
      /\ swept' = swept /\ run' = [run EXCEPT ![p] = Idle] /\ Busy(p)
  BY DEF Crash, history
<1>2. ~Busy(p)' /\ \A q \in Procs \ {p} : run'[q] = run[q]
  BY <1>1 DEF Busy, Idle, FitInv, TypeOK
<1>3. CASE svgs' = svgs
  BY <1>1, <1>2, <1>3, QuietStep
<1>4. CASE svgs' # svgs
  <2>1. PICK cut \in Cuts :
          /\ Renders(p) /\ ~SameOnDisk(p)
          /\ svgs' = WithSvg(Current(p).path, CutShort(Current(p), cut))
    BY <1>4 DEF Crash
  <2>2. cut = "before" /\ MustRender(p)
    BY <2>1 DEF PlainTree, Renders
  <2>3. Current(p).mode = "plain" /\ Current(p).path = <<Current(p).file, Current(p).id>>
    <3>1. run[p].b \in DOMAIN run[p].blocks /\ InHand(run[p]) /\ Embedded(Current(p)) /\ RunInv(run[p])
      BY <1>1, <2>2, RunHas, CurrentIsAResult DEF InHand, MustRender, Skipped, Embedded
    <3> QED
      BY <3>1 DEF RunInv, HandIsPlain, Current
  <2> DEFINE svg == CutShort(Current(p), "before")
  <2>4. svgs' = WithSvg(Current(p).path, svg) /\ PlainSvg(Current(p).path, svg)
    BY <2>1, <2>2, <2>3 DEF PlainSvg, CutShort, Rendered
  <2> HIDE DEF svg
  <2>5. TreeInv'
    BY <1>1, <2>1, <2>2, <2>4, TreeTakesSvg
  <2>6. \A q \in Procs \ {p} : Busy(q)' => RunInv(run[q])'
    BY <1>1, <1>2, OthersStay
  <2> QED
    BY <1>2, <2>5, <2>6 DEF RepairInv
<1> QED
  BY <1>3, <1>4

(* ---------------------------------------------------------------------- *)
(* Starts and saves.                                                       *)

\* A run that is disturbed has the same in hand, and repairs nothing any more.
LEMMA DisturbedIsWeaker ==
  ASSUME FitInv, NEW q \in Procs, Busy(q)
  PROVE  LET d == Disturbed(run)[q]
         IN  /\ ~d.calm
             /\ RunInv(run[q]) => RunInv(d)
             /\ HandIsPlain(run[q]) => HandIsPlain(d)
<1> DEFINE old == run[q]
           d == [run[q] EXCEPT !.calm = FALSE]
<1>1. old \in RunType
  BY BusyRuns
<1>2. Disturbed(run)[q] = d
  BY DEF Disturbed, Busy
<1>3. /\ d.pc = old.pc /\ d.todo = old.todo /\ d.opts = old.opts /\ d.file = old.file
      /\ d.text = old.text /\ d.blocks = old.blocks /\ d.b = old.b /\ d.keep = old.keep
      /\ d.orphans = old.orphans /\ ~d.calm
  BY <1>1 DEF RunType
<1> HIDE DEF d
<1>4. HandIsPlain(old) => HandIsPlain(d)
  BY <1>3 DEF HandIsPlain, InHand
<1>5. HandIsCurrent(old) => HandIsCurrent(d)
  BY <1>3 DEF HandIsCurrent, InHand
<1>6. PruningIsSafe(old) => PruningIsSafe(d)
  <2>1. \A g : Secure(old, g) => Secure(d, g)
    BY <1>3 DEF Secure, InHand
  <2> QED
    BY <1>3, <2>1 DEF PruningIsSafe
<1>7. Repairs(d)
  BY <1>3 DEF Repairs
<1> QED
  BY <1>2, <1>3, <1>4, <1>5, <1>6, <1>7 DEF RunInv

\* A run that starts has everything before it.
LEMMA RepairStarts ==
  ASSUME FitInv, RepairInv, NEW p \in Procs, NEW todo, NEW opts, Started(p, todo, opts),
         opts.whole => Range(todo) = Files \ Ignored
  PROVE  RepairInv'
<1> DEFINE calm == AllIdleBut(p)
           r == [pc |-> "open", todo |-> todo, opts |-> opts, file |-> NoPath, text |-> <<>>,
                 blocks |-> <<>>, b |-> 1, keep |-> {}, orphans |-> {}, stale |-> FALSE,
                 dropped |-> {}, calm |-> calm]
<1>1. /\ run' = [Disturbed(run) EXCEPT ![p] = r]
      /\ docs' = docs /\ incs' = incs /\ svgs' = svgs /\ synced' = synced /\ dropped' = dropped
      /\ swept' = swept
  BY DEF Started
<1>2. r.pc = "open" /\ r.todo = todo /\ r.opts = opts /\ r.file = NoPath /\ r.keep = {}
  OBVIOUS
<1> HIDE DEF r
<1>3. run'[p] = r /\ \A q \in Procs \ {p} : run'[q] = Disturbed(run)[q]
  BY <1>1 DEF Disturbed
<1>4. RunInv(r)
  <2>1. HandIsPlain(r) /\ HandIsCurrent(r)
    BY <1>2 DEF HandIsPlain, HandIsCurrent, InHand
  <2>2. PruningIsSafe(r)
    BY <1>2 DEF PruningIsSafe, Secure
  <2>3. NoPath \notin Files
    BY EmbedAssumption
  <2>4. Repairs(r)
    BY <1>2, <2>3 DEF Repairs, Repaired
  <2> QED
    BY <2>1, <2>2, <2>4 DEF RunInv
<1>5. ASSUME NEW q \in Procs, Busy(q)' PROVE RunInv(run[q])'
  <2>1. RunInv(run'[q])
    <3>1. CASE q = p
      BY <1>3, <1>4, <3>1
    <3>2. CASE q # p
      <4>1. Busy(q) /\ run'[q] = Disturbed(run)[q]
        BY <1>3, <1>5, <3>2, DisturbedRuns DEF Busy
      <4> QED
        BY <4>1, DisturbedIsWeaker DEF RepairInv
    <3> QED
      BY <3>1, <3>2
  <2> QED
    BY <1>1, <2>1, NothingStirs
<1> QED
  BY <1>1, <1>5, NothingStirs DEF RepairInv

\* A save in a plain tree leaves a plain document.
LEMMA EditedDocsArePlain ==
  ASSUME PlainTree, NEW doc \in Seq(Block), PlainDoc(doc), NEW kind \in EditKinds \ {"include", "svg"},
         NEW d \in EditedDocs(kind, doc)
  PROVE  PlainDoc(d)
<1> DEFINE S == {b \in Block : PlainBlock(b)}
<1>1. doc \in Seq(S) /\ \A j \in DOMAIN doc : doc[j] \in S
  <2>1. \A j \in DOMAIN doc : doc[j] \in S
    BY DEF PlainDoc
  <2> HIDE DEF S
  <2> QED
    BY <2>1
<1>2. \A b \in S : /\ \A x \in Srcs : [b EXCEPT !.src = x] \in S
                   /\ \A x \in Flags \ {"solved"} : [b EXCEPT !.flag = x] \in S
                   /\ \A x \in Shapes : [b EXCEPT !.shape = x] \in S
                   /\ \A x \in Marker : x.path = NoPath => [b EXCEPT !.marker = x] \in S
  BY DEF Block, PlainBlock
<1>3. \A x \in Srcs \cup Names : NewBlock(x) \in S
  BY DEF NewBlock, Block, Flags, Shapes, PlainBlock
<1>4. \A n \in AuthorIds : [id |-> n, hash |-> NoHash, path |-> NoPath] \in Marker
  BY DEF Marker, PathAttrs, BlockIds
<1>5. d \in Seq(S) => PlainDoc(d)
  BY DEF PlainDoc
<1> HIDE DEF S
<1>6. ASSUME NEW j \in DOMAIN doc, NEW b \in S PROVE [doc EXCEPT ![j] = b] \in Seq(S)
  BY <1>1
<1>7. CASE kind = "content"
  <2>1. PICK j \in DOMAIN doc, x \in Srcs : d = [doc EXCEPT ![j].src = x]
    BY <1>7, EmbedAssumption DEF EditedDocs
  <2> QED
    BY <1>1, <1>2, <1>5, <1>6, <2>1
<1>8. CASE kind = "flag"
  <2>1. PICK j \in DOMAIN doc, x \in {"plain", "embedfalse", "bad"} : d = [doc EXCEPT ![j].flag = x]
    BY <1>8 DEF EditedDocs
  <2>2. x \in Flags \ {"solved"}
    BY DEF Flags
  <2> QED
    BY <1>1, <1>2, <1>5, <1>6, <2>1, <2>2
<1>9. CASE kind = "fence"
  <2>1. PICK j \in DOMAIN doc, x \in Shapes : d = [doc EXCEPT ![j].shape = x]
    BY <1>9, EmbedAssumption DEF EditedDocs, Shapes
  <2> QED
    BY <1>1, <1>2, <1>5, <1>6, <2>1
<1>10. CASE kind = "insert"
  <2>1. PICK j \in 1 .. Len(doc) + 1, x \in Srcs \cup Names : d = InsertAt(doc, j, NewBlock(x))
    BY <1>10, EmbedAssumption DEF EditedDocs
  <2> QED
    BY <1>1, <1>3, <1>5, <2>1, InsertKeeps
<1>11. CASE kind = "delete"
  <2>1. PICK j \in DOMAIN doc : d = RemoveAt(doc, j)
    BY <1>11, EmbedAssumption DEF EditedDocs
  <2> QED
    BY <1>1, <1>5, <2>1, RemoveKeeps
<1>12. CASE kind = "copy"
  <2>1. PICK j \in DOMAIN doc : d = InsertAt(doc, j + 1, doc[j])
    BY <1>12, EmbedAssumption DEF EditedDocs
  <2>2. j + 1 \in 1 .. Len(doc) + 1
    OBVIOUS
  <2> QED
    BY <1>1, <1>5, <2>1, <2>2, InsertKeeps
<1>13. CASE kind = "author"
  <2>1. PICK j \in DOMAIN doc, n \in AuthorIds :
          d = [doc EXCEPT ![j].marker = [id |-> n, hash |-> NoHash, path |-> NoPath]]
    BY <1>13, EmbedAssumption DEF EditedDocs
  <2> QED
    BY <1>1, <1>2, <1>4, <1>5, <1>6, <2>1
<1>14. kind \in {"content", "flag", "fence", "insert", "delete", "copy", "author"}
  BY EmbedAssumption DEF PlainTree
<1> QED
  BY <1>7, <1>8, <1>9, <1>10, <1>11, <1>12, <1>13, <1>14

\* A save leaves nothing to rely on, and a plain tree.
LEMMA RepairSaves ==
  ASSUME PlainTree, FitInv, RepairInv,
         (\E f \in Files : SaveDoc(f)) \/ (\E n \in Names : SaveInclude(n)) \/ LoseSvg
  PROVE  RepairInv'
<1>1. run' = Disturbed(run) /\ synced' = {} /\ dropped' = {} /\ swept' = FALSE
  BY DEF SaveDoc, SaveInclude, LoseSvg, Saved
<1>2. \A f \in Files : PlainDoc(docs'[f])
  <2>1. CASE docs' = docs
    BY <2>1 DEF RepairInv, TreeInv, TreeIsPlain
  <2>2. CASE docs' # docs
    <3>1. PICK f \in Files : SaveDoc(f)
      BY <2>2 DEF SaveInclude, LoseSvg
    <3>2. PICK kind \in EditKinds \ {"include", "svg"} : \E doc \in EditedDocs(kind, docs[f]) :
            docs' = [docs EXCEPT ![f] = doc]
      BY <3>1 DEF SaveDoc
    <3>3. PICK doc \in EditedDocs(kind, docs[f]) : docs' = [docs EXCEPT ![f] = doc]
      BY <3>2
    <3>4. TreeType /\ \A g \in Files : PlainDoc(docs[g])
      BY RunHas
    <3>5. PlainDoc(doc)
      BY <3>4, EditedDocsArePlain DEF TreeType
    <3> QED
      BY <3>3, <3>4, <3>5 DEF TreeType
  <2> QED
    BY <2>1, <2>2
<1>3. \A path \in DOMAIN svgs' : PlainSvg(path, svgs'[path])
  <2>1. \A path \in DOMAIN svgs : PlainSvg(path, svgs[path])
    BY DEF RepairInv, TreeInv, TreeIsPlain
  <2>2. CASE svgs' = svgs
    BY <2>1, <2>2
  <2>3. CASE svgs' # svgs
    <3>1. PICK path \in DOMAIN svgs :
            \/ svgs' = WithoutSvg(path)
            \/ \E s \in (Srcs \ BadSrcs) \ {svgs[path].hash} :
                  svgs' = [svgs EXCEPT ![path].hash = s, ![path].whole = TRUE]
      BY <2>3 DEF SaveDoc, SaveInclude, LoseSvg
    <3>2. CASE svgs' = WithoutSvg(path)
      BY <2>1, <3>2 DEF WithoutSvg
    <3>3. ASSUME NEW s \in Srcs, svgs' = [svgs EXCEPT ![path].hash = s, ![path].whole = TRUE]
          PROVE  \A q \in DOMAIN svgs' : PlainSvg(q, svgs'[q])
      <4>1. svgs[path] \in Svg
        BY DEF FitInv, TypeOK
      <4>2. PlainSvg(path, [svgs[path] EXCEPT !.hash = s, !.whole = TRUE])
        BY <2>1, <4>1 DEF PlainSvg, Svg
      <4>3. DOMAIN svgs' = DOMAIN svgs /\ \A q \in DOMAIN svgs :
              svgs'[q] = IF q = path THEN [svgs[path] EXCEPT !.hash = s, !.whole = TRUE] ELSE svgs[q]
        BY <3>3
      <4> QED
        BY <2>1, <4>2, <4>3
    <3> QED
      BY <3>1, <3>2, <3>3
  <2> QED
    BY <2>2, <2>3
<1>4. TreeInv'
  BY <1>1, <1>2, <1>3 DEF TreeInv, TreeIsPlain, SyncedAreFixed, SyncedAreShown, SweptIsClean
<1>5. ASSUME NEW q \in Procs, Busy(q)' PROVE RunInv(run[q])'
  <2>1. Busy(q)
    BY <1>1, <1>5, DisturbedRuns DEF Busy
  <2>2. HandIsPlain(run'[q]) /\ ~run'[q].calm
    BY <1>1, <2>1, DisturbedIsWeaker DEF RepairInv, RunInv
  <2>3. \A r : HandIsPlain(r) /\ ~r.calm => RunInv(r)'
    BY <1>1 DEF RunInv, HandIsPlain, HandIsCurrent, PruningIsSafe, Repairs
  <2> QED
    BY <2>2, <2>3
<1> QED
  BY <1>4, <1>5 DEF RepairInv

LEMMA RepairInit == PlainTree /\ Init => RepairInv
<1> SUFFICES ASSUME PlainTree, Init PROVE RepairInv
  OBVIOUS
<1>1. docs \in InitDocs /\ DOMAIN svgs = {} /\ synced = {} /\ dropped = {} /\ swept = FALSE
  BY DEF Init
<1>2. TreeInv
  BY <1>1 DEF PlainTree, TreeInv, TreeIsPlain, SyncedAreFixed, SyncedAreShown, SweptIsClean
<1>3. \A p \in Procs : ~Busy(p)
  BY DEF Init, Busy, Idle
<1> QED
  BY <1>2, <1>3 DEF RepairInv

LEMMA RepairStep ==
  ASSUME PlainTree, FitInv, CalmIsAlone, RoomForKeys, RepairInv, [Next]_vars
  PROVE  RepairInv'
<1>1. ASSUME NEW p \in Procs, Step(p) \/ Crash(p) PROVE RepairInv'
  BY <1>1, RepairReads, RepairLooks, RepairLeaves, RepairWrites, RepairDrops, RepairAborts, RepairMarks,
     RepairLists, RepairPrunes, RepairFinishes, RepairCrashes, Zenon DEF Step
<1>2. ASSUME NEW p \in Clis, NEW opts \in CliModes, StartCli(p, opts) PROVE RepairInv'
  <2>1. p \in Procs /\ \E todo : Started(p, todo, opts) /\ (opts.whole => todo = Kept)
    BY <1>2 DEF StartCli, Procs
  <2> QED
    BY <2>1, RepairStarts, KeptAssumption
<1>3. ASSUME NEW p \in Rpcs, NEW f \in Files, NEW opts \in RpcModes, StartRpc(p, f, opts) PROVE RepairInv'
  <2>1. p \in Procs /\ ~opts.whole /\ Started(p, <<f>>, opts)
    BY <1>3, EmbedAssumption DEF StartRpc, Procs
  <2> QED
    BY <2>1, RepairStarts
<1>4. CASE UNCHANGED vars
  <2>1. docs' = docs /\ incs' = incs /\ svgs' = svgs /\ synced' = synced /\ dropped' = dropped
        /\ swept' = swept /\ run' = run
    BY <1>4 DEF vars, history
  <2>2. \A p \in Procs : Busy(p)' => RunInv(run'[p])
    BY <2>1 DEF RepairInv, Busy
  <2> QED
    BY <2>1, <2>2, NothingStirs DEF RepairInv
<1> QED
  BY <1>1, <1>2, <1>3, <1>4, RepairSaves, Zenon DEF Next

LEMMA RepairInvHolds == ASSUME PlainTree PROVE Spec /\ []RoomForKeys => []RepairInv
<1>1. Init => RepairInv
  BY RepairInit
<1>2. CheckInv => FitInv /\ CalmIsAlone
  BY DEF CheckInv, FitInv
<1>3. FitInv /\ CalmIsAlone /\ RoomForKeys /\ RepairInv /\ [Next]_vars => RepairInv'
  BY RepairStep
<1> QED
  BY <1>1, <1>2, <1>3, CheckInvHolds, PTL DEF Spec

\* An undisturbed run of md-embed or ipm.embed that ends without an error leaves every file it
\* processed in sync, after a run over the whole tree no SVG is left that no block names, and
\* nothing but a save takes that away, whatever crashed or concurrent runs there were
\* (main.go:150-387, process.go:84-302).
THEOREM TreesAreRepaired == ASSUME PlainTree PROVE Spec /\ []RoomForKeys => []RunsRepair
<1>1. FitInv /\ RepairInv => RunsRepair
  BY RepairInvSays
<1>2. CheckInv => FitInv
  BY DEF CheckInv, FitInv
<1> QED
  BY <1>1, <1>2, CheckInvHolds, RepairInvHolds, PTL

(* ---------------------------------------------------------------------- *)
(* A settled tree.                                                         *)

LEMMA SettledStep ==
  ASSUME FitInv, RoomForKeys, RepairInv, Next, Settled, dropped = {}
  PROVE  UNCHANGED <<docs, svgs>>
<1>1. swept /\ synced = Files \ Ignored /\ saves' = saves
  BY DEF Settled
<1>2. ASSUME NEW p \in Procs, MustRender(p) PROVE SameOnDisk(p)
  <2>1. /\ Busy(p) /\ InHand(run[p]) /\ run[p].file \in synced
        /\ run[p].b \in DOMAIN run[p].blocks /\ Embedded(Current(p))
    BY <1>1, <1>2, RunHas, CurrentIsAResult
       DEF MustRender, AtBlock, Busy, InHand, RunIsFit, Skipped, Embedded
  <2>2. Shown(run[p].file)
    BY <2>1 DEF RepairInv, TreeInv, SyncedAreShown
  <2> QED
    BY <2>1, <2>2, SyncedHand DEF SameOnDisk, Current
<1>3. ASSUME NEW p \in Procs, Step(p) \/ Crash(p) PROVE docs' = docs /\ svgs' = svgs
  <2>1. CASE OpenFile(p) \/ SkipBlock(p) \/ KeepBlock(p) \/ CountStale(p) \/ LeaveSvg(p) \/ AbortRender(p)
             \/ ListOrphans(p) \/ Finish(p)
    BY <2>1, Zenon DEF OpenFile, Opened, SkipBlock, KeepBlock, CountStale, LeaveSvg, AbortRender, ListOrphans,
                Finish
  <2>2. CASE WriteSvg(p)
    BY <1>2, <2>2 DEF WriteSvg, Renders
  <2>3. CASE DropRenamed(p)
    <3>1. Busy(p) /\ InHand(run[p]) /\ run[p].pc = "drop"
      BY <2>3 DEF DropRenamed, Busy, InHand
    <3>2. /\ run[p].file \in synced /\ run[p].b \in DOMAIN run[p].blocks
          /\ Embedded(run[p].blocks[run[p].b]) /\ run[p].blocks[run[p].b].renamed # NoPath
      BY <1>1, <3>1, RunHas DEF RunIsFit, RunInv, HandIsPlain
    <3> QED
      BY <3>1, <3>2, SyncedHand
  <2>4. CASE WriteMd(p)
    <3>1. Busy(p) /\ InHand(run[p])
      BY <2>4 DEF WriteMd, Busy, InHand
    <3>2. run[p].file \in synced
      BY <1>1, <2>4, <3>1, RunHas DEF WriteMd, RunIsFit
    <3>3. ApplyMarkers(run[p].text, run[p].blocks) = run[p].text
      BY <3>1, <3>2, SyncedHand
    <3> QED
      BY <2>4, <3>3 DEF WriteMd
  <2>5. CASE PruneOne(p)
    <3>1. Busy(p) /\ run[p].pc = "prune"
      BY <2>5 DEF PruneOne, Busy
    <3>2. run[p] \in RunType /\ RunIsFit(run[p]) /\ RunInv(run[p])
      BY <3>1, RunHas
    <3>3. run[p].opts.write /\ run[p].opts.whole
      BY <3>1, <3>2 DEF RunIsFit
    <3>4. ASSUME NEW path \in run[p].orphans, path \in DOMAIN svgs PROVE FALSE
      <4>1. path \in DOMAIN svgs \ Overrides
        BY <3>2, <3>4, TreeAssumption DEF RunType
      <4>2. PICK f \in Files \ Ignored : path \in LivePaths(f)
        BY <1>1, <4>1 DEF RepairInv, TreeInv, SweptIsClean, Named
      <4>3. Secure(run[p], f)
        BY <1>1, <3>2, <3>3 DEF RunInv, PruningIsSafe
      <4> QED
        BY <3>1, <3>4, <4>2, <4>3 DEF Secure
    <3> QED
      BY <2>5, <3>4 DEF PruneOne
  <2>6. CASE Crash(p)
    BY <1>2, <2>6 DEF Crash, Renders
  <2> QED
    BY <1>3, <2>1, <2>2, <2>3, <2>4, <2>5, <2>6, Zenon DEF Step
<1>4. ~Saved
  BY <1>1 DEF Saved, FitInv, TypeOK
<1> QED
  BY <1>3, <1>4, Zenon DEF Next, StartCli, StartRpc, Started, SaveDoc, SaveInclude, LoseSvg

\* Once the whole tree is synced and swept, no run of md-embed or ipm.embed, forced or not, changes
\* an SVG file or a document (main.go:171-269, render.go:63-102), until something is saved: running
\* it again is safe, and a file is not written just because the tool ran.
THEOREM RunsAreIdempotent == ASSUME PlainTree PROVE Spec /\ []RoomForKeys => Idempotent
<1>1. FitInv /\ RoomForKeys /\ RepairInv /\ [Next]_vars =>
        [(Settled /\ dropped = {}) =>
            /\ UNCHANGED docs
            /\ DOMAIN svgs' = DOMAIN svgs
            /\ \A path \in DOMAIN svgs : svgs'[path] = svgs[path] \/ Restamped(path)]_vars
  BY SettledStep
<1>2. CheckInv => FitInv
  BY DEF CheckInv, FitInv
<1> QED
  BY <1>1, <1>2, CheckInvHolds, RepairInvHolds, PTL DEF Spec, Idempotent

(* ---------------------------------------------------------------------- *)
(* What --check says of a plain tree.                                      *)

\* A file that a check finds current is in sync.
LEMMA CurrentIsInSync ==
  ASSUME FitInv, RepairInv, RoomForKeys, NEW f \in Files \ Ignored,
         \A j \in LiveBlocks(f) : IsCurrent(f, j)
  PROVE  InSync(f)
<1> DEFINE found == Analyze(f, docs[f], incs)
<1>1. TreeType /\ PlainDoc(docs[f])
  BY RunHas
<1>2. /\ docs[f] \in Seq(Block) /\ incs \in Includes
      /\ \A j \in LiveBlocks(f) : /\ j \in DOMAIN Scanned(docs[f]) /\ Live(docs[f][j], incs)
                                  /\ j \in DOMAIN docs[f] /\ docs[f][j] \in Block
  BY <1>1, LiveBlocksAreBlocks DEF TreeType
<1>3. Near(found, found) /\ Distinct(found) /\ DOMAIN found = DOMAIN Scanned(docs[f])
  <2>1. DOMAIN found = 1 .. Len(Scanned(docs[f])) /\ Scanned(docs[f]) \in Seq(Block)
    BY <1>2, AnalyzeReturns, ScannedIsThePrefix
  <2> QED
    BY <2>1 DEF Near, RoomForKeys
<1>4. ASSUME NEW j \in LiveBlocks(f)
      PROVE  /\ HasMarker(docs[f][j]) /\ docs[f][j].marker.hash = Content(docs[f][j], incs)
             /\ j \in DOMAIN found /\ Embedded(found[j]) /\ found[j].id = docs[f][j].marker.id
             /\ SvgAt(SvgOf(f, j)) # Missing /\ SvgAt(SvgOf(f, j)).hash = Content(docs[f][j], incs)
  BY <1>1, <1>2, <1>3, NearTells DEF IsCurrent
<1> HIDE DEF found
<1>5. ASSUME NEW j \in LiveBlocks(f), NEW k \in LiveBlocks(f) \ {j}
      PROVE  docs[f][k].marker.id # docs[f][j].marker.id
  BY <1>3, <1>4 DEF Distinct
<1>6. ASSUME NEW j \in LiveBlocks(f)
      PROVE  Shows(SvgAt(SvgOf(f, j)), Content(docs[f][j], incs), docs[f][j].flag)
  <2> DEFINE b == docs[f][j]
             path == SvgOf(f, j)
             content == Content(docs[f][j], incs)
  <2>1. b.flag = "plain" /\ content \in Srcs /\ NoHash \notin Srcs
    BY <1>1, <1>2, LiveBlocksAreWhole, EmbedAssumption DEF PlainDoc
  <2>2. SvgAt(path) # Missing /\ SvgAt(path).hash = content
    BY <1>4
  <2> HIDE DEF path, content, b
  <2>3. path \in DOMAIN svgs /\ SvgAt(path) = svgs[path]
    BY <2>2 DEF SvgAt
  <2>4. svgs[path] \in Svg /\ PlainSvg(path, svgs[path])
    BY <2>3 DEF FitInv, TypeOK, RepairInv, TreeInv, TreeIsPlain
  <2>5. svgs[path].mode = "plain" /\ svgs[path].whole = TRUE /\ svgs[path].hash = content
    BY <2>1, <2>2, <2>3, <2>4 DEF PlainSvg, Svg
  <2> QED
    BY <2>1, <2>2, <2>3, <2>5 DEF Shows, b, path, content
<1> QED
  BY <1>4, <1>5, <1>6 DEF InSync

\* An undisturbed md-embed --check of the tree (main.go:196-207) passes on a tree that is in sync,
\* and fails on one that is not or that has a block with a missing source or bad metadata.
THEOREM ChecksAreHonest == ASSUME PlainTree PROVE Spec /\ []RoomForKeys => []CheckIsHonest
<1>1. CheckInv => FitInv /\ PassIsCurrent /\ FailIsHonest
  BY DEF CheckInv, FitInv
<1>2. FitInv /\ RepairInv /\ RoomForKeys /\ PassIsCurrent /\ FailIsHonest => CheckIsHonest
  BY CurrentIsInSync DEF CheckIsHonest, PassIsCurrent
<1> QED
  BY <1>1, <1>2, CheckInvHolds, RepairInvHolds, PTL
=============================================================================
