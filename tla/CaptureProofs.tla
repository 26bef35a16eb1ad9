--------------------------- MODULE CaptureProofs ---------------------------
(***************************************************************************)
(* Theorems about ipm-rpc-tee, for any documents, texts and cadences, any  *)
(* number of messages and sessions, and any interleaving of its pumps.     *)
(***************************************************************************)
EXTENDS CaptureCorpus, FiniteSetTheorems, TLAPS

USE TeeAssumption

(* ---------------------------------------------------------------------- *)
(* Counting along a sequence.                                              *)

LEMMA CountNext ==
  ASSUME NEW n \in Nat, NEW S \in SUBSET (1 .. n)
  PROVE  /\ Cardinality(S) \in Nat
         /\ Cardinality(S \cup {n + 1}) = Cardinality(S) + 1
<1>1. IsFiniteSet(S)
  <2>1. IsFiniteSet(1 .. n)
    BY FS_Interval
  <2> QED
    BY <2>1, FS_Subset
<1>2. n + 1 \notin S
  OBVIOUS
<1> QED
  BY <1>1, <1>2, FS_AddElement, FS_CardinalityType

LEMMA RecordedOfAppend ==
  ASSUME NEW Msgs, NEW msgs \in Seq(Msgs), NEW m \in Msgs
  PROVE  /\ \A k \in 0 .. Len(msgs) : RecordedOf(Append(msgs, m), k) = RecordedOf(msgs, k)
         /\ RecordedOf(Append(msgs, m), Len(msgs) + 1) =
              RecordedOf(msgs, Len(msgs)) \cup (IF Recorded(m) THEN {Len(msgs) + 1} ELSE {})
         /\ \A k \in 0 .. Len(msgs) : RecordedOf(msgs, k) \in SUBSET (1 .. k)
<1> DEFINE more == Append(msgs, m)
<1>1. /\ Len(msgs) \in Nat /\ Len(more) = Len(msgs) + 1
      /\ \A k \in 1 .. Len(msgs) : more[k] = msgs[k]
      /\ more[Len(msgs) + 1] = m
  OBVIOUS
<1> HIDE DEF more
<1>2. \A k \in 0 .. Len(msgs) : RecordedOf(more, k) = RecordedOf(msgs, k)
  BY <1>1 DEF RecordedOf
<1>3. ASSUME NEW k PROVE k \in RecordedOf(more, Len(msgs) + 1)
                           <=> k \in RecordedOf(msgs, Len(msgs)) \/ (k = Len(msgs) + 1 /\ Recorded(m))
  BY <1>1 DEF RecordedOf
<1>4. RecordedOf(more, Len(msgs) + 1) =
        RecordedOf(msgs, Len(msgs)) \cup (IF Recorded(m) THEN {Len(msgs) + 1} ELSE {})
  BY <1>3
<1> QED
  BY <1>2, <1>4 DEF more, RecordedOf

LEMMA WrittenByAppend ==
  ASSUME NEW Lines0, NEW lines \in Seq(Lines0), NEW l \in Lines0, NEW p
  PROVE  /\ \A i \in 0 .. Len(lines) : WrittenBy(p, Append(lines, l), i) = WrittenBy(p, lines, i)
         /\ WrittenBy(p, Append(lines, l), Len(lines) + 1) =
              WrittenBy(p, lines, Len(lines))
                \cup (IF l # Torn /\ l.cadence \in CadencesOf(p) THEN {Len(lines) + 1} ELSE {})
         /\ \A i \in 0 .. Len(lines) : WrittenBy(p, lines, i) \in SUBSET (1 .. i)
<1> DEFINE more == Append(lines, l)
<1>1. /\ Len(lines) \in Nat /\ Len(more) = Len(lines) + 1
      /\ \A i \in 1 .. Len(lines) : more[i] = lines[i]
      /\ more[Len(lines) + 1] = l
  OBVIOUS
<1> HIDE DEF more
<1>2. \A i \in 0 .. Len(lines) : WrittenBy(p, more, i) = WrittenBy(p, lines, i)
  BY <1>1 DEF WrittenBy
<1>3. ASSUME NEW i PROVE i \in WrittenBy(p, more, Len(lines) + 1)
        <=> i \in WrittenBy(p, lines, Len(lines)) \/ (i = Len(lines) + 1 /\ l # Torn /\ l.cadence \in CadencesOf(p))
  BY <1>1 DEF WrittenBy
<1>4. WrittenBy(p, more, Len(lines) + 1) =
        WrittenBy(p, lines, Len(lines)) \cup (IF l # Torn /\ l.cadence \in CadencesOf(p) THEN {Len(lines) + 1} ELSE {})
  BY <1>3
<1> QED
  BY <1>2, <1>4 DEF more, WrittenBy

(* ---------------------------------------------------------------------- *)
(* A message, its line, and the line with its number.                      *)

LEMMA MessageKinds ==
  /\ \A m \in ClientMsg : m.cadence \in EditorCadences \cup {"other"}
  /\ \A m \in ServerMsg : m.cadence \in {"diagnostics", "other"}
<1>1. \A m \in EditMsg : m.cadence \in Edits
  BY DEF EditMsg
<1>2. \A m \in ClientMsg : m.cadence \in Cadences \cup Edits
  BY <1>1 DEF ClientMsg
<1> QED
  BY <1>2 DEF ServerMsg, EditorCadences

\* What is recorded of a message is a record without a number.
LEMMA LinesHaveNoNumber ==
  ASSUME NEW m \in ClientMsg \cup ServerMsg, Recorded(m)
  PROVE  /\ LineOf(m) = [f \in DOMAIN LineOf(m) |-> LineOf(m)[f]]
         /\ "seq" \notin DOMAIN LineOf(m)
         /\ "cadence" \in DOMAIN LineOf(m)
         /\ LineOf(m).cadence = m.cadence
<1>1. CASE m \in EditMsg
  <2>1. PICK c \in Edits, u \in Uris, t \in UNION {Texts[v] : v \in Uris} : m = [cadence |-> c, uri |-> u, text |-> t]
    BY <1>1 DEF EditMsg
  <2>2. LineOf(m) = m /\ m.cadence = c
    BY <2>1 DEF LineOf, Edits
  <2> QED
    BY <2>1, <2>2
<1>2. CASE m \in [cadence : Cadences \ Edits, uri : Uris]
  <2>1. m = [cadence |-> m.cadence, uri |-> m.uri]
    BY <1>2
  <2> QED
    BY <2>1 DEF LineOf
<1>3. CASE m \in [cadence : {"diagnostics"}, uri : Uris, of : 1 .. MaxSends]
  <2>1. m = [cadence |-> "diagnostics", uri |-> m.uri, of |-> m.of]
    BY <1>3
  <2> QED
    BY <2>1 DEF LineOf
<1>4. CASE m \in {[cadence |-> "other"]}
  BY <1>4 DEF Recorded
<1> QED
  BY <1>1, <1>2, <1>3, <1>4 DEF ClientMsg, ServerMsg

LEMMA NumberedLines ==
  ASSUME NEW m \in ClientMsg \cup ServerMsg, Recorded(m), NEW n
  PROVE  /\ Numbered(n, m).seq = n /\ Numbered(n, m).cadence = m.cadence
         /\ Bare(Numbered(n, m)) = LineOf(m)
<1> DEFINE line == LineOf(m)
           whole == Numbered(n, m)
<1>1. /\ line = [f \in DOMAIN line |-> line[f]] /\ "seq" \notin DOMAIN line
      /\ "cadence" \in DOMAIN line /\ line.cadence = m.cadence
  BY LinesHaveNoNumber
<1>2. whole = [f \in {"seq"} \cup DOMAIN line |-> IF f = "seq" THEN n ELSE line[f]]
  BY DEF Numbered
<1> HIDE DEF line, whole
<1>3. whole.seq = n /\ whole.cadence = m.cadence
  BY <1>1, <1>2
<1>4. DOMAIN whole \ {"seq"} = DOMAIN line
  BY <1>1, <1>2
<1>5. Bare(whole) = [f \in DOMAIN line |-> line[f]]
  BY <1>1, <1>2, <1>4 DEF Bare
<1> QED
  BY <1>1, <1>3, <1>5 DEF line, whole

(* ---------------------------------------------------------------------- *)
(* Types.                                                                  *)

LEMMA PumpCases ==
  ASSUME NEW msgs, NEW s \in PumpStates(msgs)
  PROVE  /\ s.pc \in {"recv", "done", "observe", "write", "encode"}
         /\ s.pc = "recv" <=> s = Recv
         /\ s.pc = "done" <=> s = Done
         /\ s.pc \in {"observe", "write", "encode"} =>
              /\ s.msg \in msgs
              /\ \A pc \in {"observe", "write", "encode"} :
                   [s EXCEPT !.pc = pc] = [pc |-> pc, msg |-> s.msg]
  BY DEF PumpStates, Recv, Done

LEMMA PumpTypes ==
  ASSUME NEW msgs, NEW m \in msgs
  PROVE  /\ Recv \in PumpStates(msgs) /\ Done \in PumpStates(msgs)
         /\ \A pc \in {"observe", "write", "encode"} : [pc |-> pc, msg |-> m] \in PumpStates(msgs)
  BY DEF PumpStates

\* The server's answer is a message of its own.
LEMMA AnswerType ==
  ASSUME toServer \in Seq(ClientMsg), NEW n \in 1 .. Len(toServer), Len(toServer) <= MaxSends
  PROVE  Answer(n) \in ServerMsg
<1> DEFINE m == toServer[n]
<1>1. m \in ClientMsg
  OBVIOUS
<1>2. m \in ClientMsg => m.uri \in Uris
  <2>1. \A e \in EditMsg : e.uri \in Uris
    BY DEF EditMsg
  <2> QED
    BY <2>1 DEF ClientMsg
<1>3. n \in 1 .. MaxSends
  OBVIOUS
<1> HIDE DEF m
<1>4. [cadence |-> "diagnostics", uri |-> m.uri, of |-> n] \in ServerMsg
  BY <1>1, <1>2, <1>3 DEF ServerMsg
<1>5. [cadence |-> "other"] \in ServerMsg
  BY DEF ServerMsg
<1> QED
  BY <1>4, <1>5 DEF Answer, m

\* A message in the hands of a pump, and what it is about to write.
LEMMA LineTypes ==
  ASSUME TypeOK, WireInv, RecorderInv, NEW p \in Pumps, pump[p].pc = "encode", enc = "open"
  PROVE  /\ pump[p].msg \in MessagesOf(p) /\ pump[p].msg \in ClientMsg \cup ServerMsg
         /\ Recorded(pump[p].msg)
         /\ seq = Len(file) + 1 /\ seq \in 1 .. 2 * MaxSends
         /\ Numbered(seq, pump[p].msg) \in CaptureLines
         /\ Numbered(seq, pump[p].msg) # Torn
<1>1. pump[p].msg \in MessagesOf(p)
  BY PumpCases DEF TypeOK
<1>2. pump[p].msg \in ClientMsg \cup ServerMsg
  BY <1>1 DEF MessagesOf
<1>3. Recorded(pump[p].msg)
  BY DEF RecorderInv, InHand, AtRecorder
<1>4. seq = Len(file) + 1
  BY DEF RecorderInv, NumbersInv
<1>5. Len(file) \in Nat
  BY DEF TypeOK
<1>6. Len(toServer) \in Nat /\ Len(toEditor) \in Nat /\ Len(toServer) <= MaxSends /\ Len(toEditor) <= MaxSends
  BY DEF TypeOK, WireInv, IsPartOf
<1>7. Unnumbered("client") \in Nat /\ Unnumbered("server") \in Nat
  BY DEF Unnumbered
<1>8. seq \in 1 .. 2 * MaxSends
  BY <1>4, <1>5, <1>6, <1>7 DEF RecorderInv, NumbersInv
<1>9. Numbered(seq, pump[p].msg) \in CaptureLines
  BY <1>2, <1>3, <1>8 DEF CaptureLines
<1> QED
  BY <1>1, <1>2, <1>3, <1>4, <1>8, <1>9, TornAssumption

\* What a step does to one pump.
LEMMA PumpSet ==
  ASSUME TypeOK, NEW p \in Pumps, NEW s \in PumpStates(MessagesOf(p)), pump' = [pump EXCEPT ![p] = s]
  PROVE  /\ DOMAIN pump' = Pumps /\ pump'[p] = s
         /\ \A q \in Pumps \ {p} : pump'[q] = pump[q]
         /\ \A q \in Pumps : pump'[q] \in PumpStates(MessagesOf(q))
  BY DEF TypeOK

LEMMA PumpGoesOn ==
  ASSUME TypeOK, NEW p \in Pumps, pump[p].pc \in {"observe", "write", "encode"},
         NEW pc \in {"observe", "write", "encode"}, pump' = [pump EXCEPT ![p].pc = pc]
  PROVE  /\ DOMAIN pump' = Pumps /\ pump'[p] = [pc |-> pc, msg |-> pump[p].msg]
         /\ \A q \in Pumps \ {p} : pump'[q] = pump[q]
         /\ \A q \in Pumps : pump'[q] \in PumpStates(MessagesOf(q))
<1>1. pump[p] \in PumpStates(MessagesOf(p))
  BY DEF TypeOK
<1>2. pump[p].msg \in MessagesOf(p) /\ [pump[p] EXCEPT !.pc = pc] = [pc |-> pc, msg |-> pump[p].msg]
  BY <1>1, PumpCases
<1>3. [pc |-> pc, msg |-> pump[p].msg] \in PumpStates(MessagesOf(p))
  BY <1>2, PumpTypes
<1>4. pump' = [pump EXCEPT ![p] = [pc |-> pc, msg |-> pump[p].msg]]
  BY <1>2 DEF TypeOK
<1> QED
  BY <1>3, <1>4, PumpSet

LEMMA PumpReleased ==
  ASSUME TypeOK, NEW p \in Pumps, Unlock(p)
  PROVE  /\ DOMAIN pump' = Pumps /\ pump'[p] = Recv
         /\ \A q \in Pumps \ {p} : pump'[q] = pump[q]
         /\ \A q \in Pumps : pump'[q] \in PumpStates(MessagesOf(q))
<1>1. Recv \in PumpStates(MessagesOf(p))
  BY DEF PumpStates
<1> QED
  BY <1>1, PumpSet DEF Unlock

LEMMA InitType == CorpusInit => TypeOK /\ WireInv /\ RecorderInv /\ CaptureIsAMerge
<1> SUFFICES ASSUME CorpusInit PROVE TypeOK /\ WireInv /\ RecorderInv /\ CaptureIsAMerge
  OBVIOUS
<1> USE DEF CorpusInit, Init
<1>1. \A p \in Pumps : pump[p] = Recv /\ pump[p].pc = "recv" /\ pump[p] # Done
  BY DEF Recv, Done
<1>2. TypeOK
  <2>1. \A p \in Pumps : pump[p] \in PumpStates(MessagesOf(p))
    BY <1>1 DEF PumpStates
  <2>2. /\ <<>> \in Seq(ClientMsg) /\ <<>> \in Seq(ServerMsg) /\ <<>> \in Seq(CaptureLines)
        /\ Len(<<>>) = 0 /\ DOMAIN pump = Pumps
    OBVIOUS
  <2>3. /\ left \in 0 .. MaxSends /\ left + Len(sent) <= MaxSends
        /\ served \in 0 .. Len(toServer) /\ seq \in Nat /\ sessions \in Nat \ {0}
    BY <2>2
  <2>4. /\ srv \in {"up", "done", "dead"} /\ open \in BOOLEAN /\ inClosed \in BOOLEAN /\ off \in BOOLEAN
        /\ all \in BOOLEAN /\ enc \in {"nil", "open", "broken"} /\ holder \in Pumps \cup {Free}
    BY DEF Free
  <2>5. /\ sent \in Seq(ClientMsg) /\ toServer \in Seq(ClientMsg)
        /\ said \in Seq(ServerMsg) /\ toEditor \in Seq(ServerMsg) /\ file \in Seq(CaptureLines)
        /\ takes \in Seq([msgs : Seq(ClientMsg), whole : BOOLEAN])
    BY <2>2
  <2> QED
    BY <2>1, <2>2, <2>3, <2>4, <2>5 DEF TypeOK
<1>3. WireInv
  BY <1>1 DEF WireInv, IsPartOf, Pumps
<1>4. RecorderInv
  <2>1. \A p \in Pumps : ~AtRecorder(p) /\ Unwritten(p) = 0 /\ Unnumbered(p) = 0
    BY <1>1 DEF AtRecorder, Unwritten, Unnumbered
  <2>2. \A p \in Pumps : Forwarded(p) = <<>>
    BY DEF Forwarded
  <2>4. Cardinality({}) = 0
    BY FS_EmptySet
  <2>5. ASSUME NEW p \in Pumps PROVE Balanced(p)
    <3>1. Forwarded(p) = <<>> /\ file = <<>> /\ Len(<<>>) = 0 /\ Unwritten(p) = 0
      BY <2>1, <2>2
    <3>2. RecordedOf(Forwarded(p), Len(Forwarded(p))) = {}
      BY <3>1 DEF RecordedOf
    <3>3. WrittenBy(p, file, Len(file)) = {}
      BY <3>1 DEF WrittenBy
    <3>4. Cardinality(RecordedOf(Forwarded(p), Len(Forwarded(p)))) = 0
      BY <3>2, <2>4, Zenon
    <3>5. Cardinality(WrittenBy(p, file, Len(file))) = 0
      BY <3>3, <2>4, Zenon
    <3> QED
      BY <3>1, <3>4, <3>5 DEF Balanced
  <2>6. \A p \in Pumps : holder = p <=> pump[p].pc \in {"write", "encode"}
    BY <1>1 DEF Pumps, Free
  <2>7. seq + Unnumbered("client") + Unnumbered("server") <= Len(toServer) + Len(toEditor)
    BY <2>1 DEF Pumps
  <2> QED
    BY <1>1, <2>1, <2>5, <2>6, <2>7 DEF RecorderInv, OneHolder, InHand, NumbersInv, BalanceInv
<1>5. CaptureIsAMerge
  BY DEF CaptureIsAMerge
<1> QED
  BY <1>2, <1>3, <1>4, <1>5

LEMMA TypeStep == TypeOK /\ WireInv /\ RecorderInv /\ [CorpusNext]_allVars => TypeOK'
<1> SUFFICES ASSUME TypeOK, WireInv, RecorderInv, [CorpusNext]_allVars PROVE TypeOK'
  OBVIOUS
<1> USE DEF TeeStep, curator, recorder
<1>1. CASE TeeStep(Send)
  BY <1>1 DEF Send, TypeOK, recorder
<1>2. CASE TeeStep(Close)
  BY <1>2 DEF Close, TypeOK, recorder
<1>3. CASE TeeStep(Serve)
  <2>1. Answer(served') \in ServerMsg
    <3>1. served' \in 1 .. Len(toServer)
      BY <1>3 DEF Serve, TypeOK
    <3>2. toServer \in Seq(ClientMsg) /\ Len(toServer) <= MaxSends
      BY DEF TypeOK, WireInv, IsPartOf
    <3> QED
      BY <3>1, <3>2, AnswerType
  <2> QED
    BY <1>3, <2>1 DEF Serve, TypeOK
<1>4. CASE TeeStep(ServerEnds) \/ TeeStep(ServerDies)
  BY <1>4 DEF ServerEnds, ServerDies, TypeOK
<1>5. CASE TeeStep(PumpUp)
  <2>1. Next1 \in ClientMsg
    BY <1>5 DEF PumpUp, Next1, TypeOK
  <2>2. Observe(Next1) \in PumpStates(MessagesOf("client"))
    BY <2>1, PumpTypes DEF Observe, MessagesOf
  <2> QED
    BY <1>5, <2>1, <2>2, PumpSet DEF PumpUp, TypeOK, Pumps
<1>6. CASE TeeStep(PumpDown)
  <2> DEFINE m == said[Len(toEditor) + 1]
  <2>1. m \in ServerMsg
    BY <1>6 DEF PumpDown, TypeOK
  <2>2. Observe(m) \in PumpStates(MessagesOf("server"))
    BY <2>1, PumpTypes DEF Observe, MessagesOf
  <2>3. pump' = [pump EXCEPT !["server"] = Observe(m)] /\ toEditor' = Append(toEditor, m)
    BY <1>6 DEF PumpDown
  <2> HIDE DEF m
  <2>4. DOMAIN pump' = Pumps /\ \A q \in Pumps : pump'[q] \in PumpStates(MessagesOf(q))
    BY <2>2, <2>3, PumpSet DEF Pumps
  <2> QED
    BY <1>6, <2>1, <2>3, <2>4 DEF PumpDown, TypeOK
<1>7. CASE TeeStep(EndUp) \/ TeeStep(EndDown)
  <2>1. \A p \in Pumps : Done \in PumpStates(MessagesOf(p))
    BY DEF PumpStates
  <2> QED
    BY <1>7, <2>1, PumpSet DEF EndUp, EndDown, wire, TypeOK, Pumps
<1>8. ASSUME NEW p \in Pumps, TeeStep(PassOver(p)) PROVE TypeOK'
  <2>1. Recv \in PumpStates(MessagesOf(p))
    BY DEF PumpStates
  <2> QED
    BY <1>8, <2>1, PumpSet DEF PassOver, wire, TypeOK
<1>9. ASSUME NEW p \in Pumps, TeeStep(Lock(p)) PROVE TypeOK'
  <2>1. DOMAIN pump' = Pumps /\ \A q \in Pumps : pump'[q] \in PumpStates(MessagesOf(q))
    BY <1>9, PumpGoesOn DEF Lock, AtObserve
  <2> QED
    BY <1>9, <2>1 DEF Lock, wire, TypeOK
<1>10. ASSUME NEW p \in Pumps, TeeStep(GiveUp(p)) PROVE TypeOK'
  <2>1. DOMAIN pump' = Pumps /\ \A q \in Pumps : pump'[q] \in PumpStates(MessagesOf(q))
    BY <1>10, PumpReleased DEF GiveUp
  <2> QED
    BY <1>10, <2>1 DEF GiveUp, Unlock, wire, TypeOK
<1>11. ASSUME NEW p \in Pumps, TeeStep(Number(p)) PROVE TypeOK'
  <2>1. DOMAIN pump' = Pumps /\ \A q \in Pumps : pump'[q] \in PumpStates(MessagesOf(q))
    BY <1>11, PumpGoesOn DEF Number
  <2>2. enc' \in {"nil", "open", "broken"} /\ seq' \in Nat
    BY <1>11 DEF Number, TypeOK
  <2>3. UNCHANGED <<wire, holder, off, file, sessions, curator>>
    BY <1>11 DEF Number
  <2> QED
    BY <2>1, <2>2, <2>3 DEF wire, TypeOK
<1>12. ASSUME NEW p \in Pumps, TeeStep(Encode(p)) PROVE TypeOK'
  <2>1. DOMAIN pump' = Pumps /\ \A q \in Pumps : pump'[q] \in PumpStates(MessagesOf(q))
    BY <1>12, PumpReleased DEF Encode
  <2>2. Numbered(seq, pump[p].msg) \in CaptureLines
    BY <1>12, LineTypes DEF Encode
  <2> QED
    BY <1>12, <2>1, <2>2 DEF Encode, Unlock, wire, TypeOK
<1>13. ASSUME NEW p \in Pumps, TeeStep(EncodeFails(p)) PROVE TypeOK'
  <2>1. DOMAIN pump' = Pumps /\ \A q \in Pumps : pump'[q] \in PumpStates(MessagesOf(q))
    BY <1>13, PumpReleased DEF EncodeFails
  <2>2. Torn \in CaptureLines
    BY DEF CaptureLines
  <2>3. file' \in Seq(CaptureLines)
    <3>1. file' = file \/ file' = Append(file, Torn)
      BY <1>13 DEF EncodeFails
    <3>2. file \in Seq(CaptureLines)
      BY DEF TypeOK
    <3>3. Append(file, Torn) \in Seq(CaptureLines)
      BY <2>2, <3>2
    <3> QED
      BY <3>1, <3>2, <3>3
  <2>4. off' = TRUE /\ enc' = "broken" /\ holder' = Free /\ seq' = seq
    BY <1>13 DEF EncodeFails, Unlock
  <2>5. UNCHANGED <<wire, sessions, curator>>
    BY <1>13 DEF EncodeFails
  <2> QED
    BY <2>1, <2>3, <2>4, <2>5 DEF wire, TypeOK
<1>14. CASE KeepTake
  <2>1. [msgs |-> toServer, whole |-> enc = "open"] \in [msgs : Seq(ClientMsg), whole : BOOLEAN]
    BY DEF TypeOK
  <2>2. takes' \in Seq([msgs : Seq(ClientMsg), whole : BOOLEAN])
    BY <1>14, <2>1 DEF KeepTake, TypeOK
  <2> QED
    BY <1>14, <2>2 DEF KeepTake, vars, wire, TypeOK
<1>15. CASE Restart
  <2>1. \A p \in Pumps : pump'[p] \in PumpStates(MessagesOf(p))
    BY <1>15 DEF Restart, PumpStates
  <2>2. /\ <<>> \in Seq(ClientMsg) /\ <<>> \in Seq(ServerMsg) /\ <<>> \in Seq(CaptureLines)
        /\ Len(<<>>) = 0 /\ DOMAIN pump' = Pumps
    BY <1>15 DEF Restart
  <2>3. /\ left' \in 0 .. MaxSends /\ left' + Len(sent') <= MaxSends
        /\ served' \in 0 .. Len(toServer') /\ seq' \in Nat /\ sessions' \in Nat \ {0}
    BY <1>15, <2>2 DEF Restart, TypeOK
  <2>4. /\ srv' \in {"up", "done", "dead"} /\ open' \in BOOLEAN /\ inClosed' \in BOOLEAN /\ off' \in BOOLEAN
        /\ all' \in BOOLEAN /\ enc' \in {"nil", "open", "broken"} /\ holder' \in Pumps \cup {Free}
    BY <1>15 DEF Restart, TypeOK
  <2>5. /\ sent' \in Seq(ClientMsg) /\ toServer' \in Seq(ClientMsg)
        /\ said' \in Seq(ServerMsg) /\ toEditor' \in Seq(ServerMsg) /\ file' \in Seq(CaptureLines)
        /\ takes' \in Seq([msgs : Seq(ClientMsg), whole : BOOLEAN])
    BY <1>15, <2>2 DEF Restart, TypeOK
  <2> QED
    BY <2>1, <2>2, <2>3, <2>4, <2>5 DEF TypeOK
<1>16. CASE Curate \/ UNCHANGED allVars
  BY <1>16 DEF Curate, StartCurate, CurateOne, CurateStops, allVars, vars, wire, TypeOK
<1> QED
  BY <1>1, <1>2, <1>3, <1>4, <1>5, <1>6, <1>7, <1>8, <1>9, <1>10, <1>11, <1>12, <1>13, <1>14, <1>15, <1>16
     DEF CorpusNext, Tee, Record1, Record

(* ---------------------------------------------------------------------- *)
(* The two pipes.                                                          *)

\* One that is all of the other.
LEMMA WholePart ==
  ASSUME NEW Msgs, NEW s \in Seq(Msgs), NEW t \in Seq(Msgs), IsPartOf(s, t), Len(s) = Len(t)
  PROVE  s = t
<1>1. s = [i \in 1 .. Len(s) |-> s[i]] /\ t = [i \in 1 .. Len(t) |-> t[i]]
  OBVIOUS
<1> QED
  BY <1>1 DEF IsPartOf

LEMMA WireStep == TypeOK /\ WireInv /\ RecorderInv /\ [CorpusNext]_allVars => WireInv'
<1> SUFFICES ASSUME TypeOK, WireInv, RecorderInv, [CorpusNext]_allVars PROVE WireInv'
  OBVIOUS
<1> USE DEF TeeStep, curator
<1>0. \A p \in Pumps : pump[p] = Done => pump[p].pc = "done"
  BY DEF Done
<1>1. CASE TeeStep(Send)
  <2>1. Len(takes) # sessions /\ open
    BY <1>1 DEF Send, WireInv
  <2>2. /\ Len(sent') = Len(sent) + 1 /\ \A i \in 1 .. Len(sent) : sent'[i] = sent[i]
    BY <1>1 DEF Send, TypeOK
  <2>3. IsPartOf(toServer, sent)'
    <3>1. Len(toServer) \in Nat /\ Len(sent) \in Nat
      BY DEF TypeOK
    <3> QED
      BY <1>1, <2>2, <3>1 DEF Send, WireInv, IsPartOf
  <2> QED
    BY <1>1, <2>1, <2>3 DEF Send, WireInv, IsPartOf
<1>2. CASE TeeStep(Close)
  BY <1>2 DEF Close, WireInv, IsPartOf
<1>3. CASE TeeStep(Serve)
  <2>1. Len(takes) # sessions
    BY <1>3 DEF Serve, WireInv, Ended
  <2>2. \E m : said' = Append(said, m)
    BY <1>3 DEF Serve
  <2>3. Len(said') = Len(said) + 1 /\ \A i \in 1 .. Len(said) : said'[i] = said[i]
    <3>1. said \in Seq(ServerMsg)
      BY DEF TypeOK
    <3> QED
      BY <2>2, <3>1
  <2>4. IsPartOf(toEditor, said)'
    <3>1. Len(toEditor) \in Nat /\ Len(said) \in Nat
      BY DEF TypeOK
    <3> QED
      BY <1>3, <2>3, <3>1 DEF Serve, WireInv, IsPartOf
  <2> QED
    BY <1>3, <2>1, <2>3, <2>4 DEF Serve, WireInv, IsPartOf
<1>4. CASE TeeStep(ServerEnds) \/ TeeStep(ServerDies)
  BY <1>4 DEF ServerEnds, ServerDies, WireInv, IsPartOf, Ended
<1>5. CASE TeeStep(PumpUp)
  <2>1. Len(takes) # sessions
    BY <1>5, <1>0 DEF PumpUp, ToServer, WireInv, Ended, Pumps
  <2>2. pump' = [pump EXCEPT !["client"] = Observe(Next1)] /\ pump["client"].pc = "recv"
    BY <1>5 DEF PumpUp, ToServer
  <2>3. pump'["client"] # Done /\ pump["client"] # Done
    BY <2>2 DEF Observe, Done, TypeOK, Pumps
  <2>4. IsPartOf(toServer, sent)'
    <3>1. Next1 \in ClientMsg /\ toServer' = Append(toServer, Next1) /\ Next1 = sent[Len(toServer) + 1]
          /\ Len(toServer) < Len(sent) /\ sent' = sent
      BY <1>5 DEF PumpUp, Next1, TypeOK
    <3>2. Len(toServer') = Len(toServer) + 1 /\ toServer'[Len(toServer) + 1] = Next1
          /\ \A i \in 1 .. Len(toServer) : toServer'[i] = toServer[i]
      BY <3>1 DEF TypeOK
    <3>3. Len(toServer) \in Nat /\ Len(sent) \in Nat
      BY DEF TypeOK
    <3> QED
      BY <3>1, <3>2, <3>3 DEF WireInv, IsPartOf
  <2> QED
    BY <1>5, <2>1, <2>3, <2>4 DEF PumpUp, WireInv, IsPartOf
<1>6. CASE TeeStep(PumpDown)
  <2> DEFINE m == said[Len(toEditor) + 1]
  <2>1. Len(takes) # sessions
    BY <1>6, <1>0 DEF PumpDown, WireInv, Ended, Pumps
  <2>2. pump'["client"] = pump["client"]
    BY <1>6 DEF PumpDown, TypeOK, Pumps
  <2>3. IsPartOf(toEditor, said)'
    <3>1. m \in ServerMsg /\ toEditor' = Append(toEditor, m) /\ Len(toEditor) < Len(said) /\ said' = said
      BY <1>6 DEF PumpDown, TypeOK
    <3>2. Len(toEditor') = Len(toEditor) + 1 /\ toEditor'[Len(toEditor) + 1] = m
          /\ \A i \in 1 .. Len(toEditor) : toEditor'[i] = toEditor[i]
      BY <3>1 DEF TypeOK
    <3>3. Len(toEditor) \in Nat /\ Len(said) \in Nat
      BY DEF TypeOK
    <3> QED
      BY <3>1, <3>2, <3>3 DEF WireInv, IsPartOf
  <2> QED
    BY <1>6, <2>1, <2>2, <2>3 DEF PumpDown, WireInv, IsPartOf
<1>7. CASE TeeStep(EndUp)
  <2>1. Len(takes) # sessions
    BY <1>7, <1>0 DEF EndUp, ToServer, WireInv, Ended, Pumps
  <2>2. pump'["client"] = Done
    BY <1>7 DEF EndUp, TypeOK, Pumps
  <2>3. srv # "up" \/ (~open /\ toServer = sent)
    <3>1. CASE ~open /\ Len(toServer) = Len(sent)
      <4>1. toServer = sent
        BY <3>1, WholePart DEF WireInv, TypeOK
      <4> QED
        BY <3>1, <4>1
    <3> QED
      BY <1>7, <3>1 DEF EndUp
  <2> QED
    BY <1>7, <2>1, <2>2, <2>3 DEF EndUp, WireInv, IsPartOf
<1>8. CASE TeeStep(EndDown)
  <2>1. Len(takes) # sessions
    BY <1>8, <1>0 DEF EndDown, WireInv, Ended, Pumps
  <2>2. pump'["client"] = pump["client"]
    BY <1>8 DEF EndDown, TypeOK, Pumps
  <2> QED
    BY <1>8, <2>1, <2>2 DEF EndDown, wire, WireInv, IsPartOf
<1>9. ASSUME NEW p \in Pumps, TeeStep(Record1(p)) PROVE WireInv'
  <2>1. /\ pump[p] # Done /\ UNCHANGED <<wire, sessions, takes>>
        /\ pump[p].pc \in {"observe", "write", "encode"}
    BY <1>9, <1>0 DEF Record1, Record, PassOver, Lock, GiveUp, Number, Encode, EncodeFails, AtObserve
  <2>2. Len(takes) # sessions
    BY <2>1 DEF WireInv, Ended
  <2>3. pump'[p].pc # "done" /\ \A q \in Pumps \ {p} : pump'[q] = pump[q]
    <3>1. CASE PassOver(p) \/ Unlock(p)
      BY <3>1 DEF PassOver, Unlock, TypeOK, Recv
    <3>2. CASE Lock(p) \/ Number(p)
      BY <2>1, <3>2, PumpGoesOn DEF Lock, Number
    <3> QED
      BY <1>9, <3>1, <3>2 DEF Record1, Record, GiveUp, Encode, EncodeFails
  <2>4. pump'["client"] = Done <=> pump["client"] = Done
    <3>1. CASE p = "client"
      BY <2>1, <2>3, <3>1 DEF Done
    <3> QED
      BY <2>3, <3>1 DEF Pumps
  <2> QED
    BY <2>1, <2>2, <2>4 DEF wire, WireInv, IsPartOf
<1>10. CASE KeepTake
  <2>1. Len(takes') = Len(takes) + 1 /\ Len(takes) # sessions
    <3>1. Len(takes) \in Nat /\ DOMAIN takes = 1 .. Len(takes) /\ sessions \in Nat \ {0}
      BY DEF TypeOK
    <3>2. sessions \notin DOMAIN takes
      BY <1>10 DEF KeepTake
    <3>3. Len(takes) # sessions
      <4>1. sessions \in 1 .. sessions
        BY <3>1
      <4> QED
        BY <3>1, <3>2, <4>1, Zenon
    <3>4. [msgs |-> toServer, whole |-> enc = "open"] \in [msgs : Seq(ClientMsg), whole : BOOLEAN]
      BY DEF TypeOK
    <3>5. takes' = Append(takes, [msgs |-> toServer, whole |-> enc = "open"])
      BY <1>10 DEF KeepTake
    <3> QED
      BY <3>3, <3>4, <3>5 DEF TypeOK
  <2>2. Ended'
    BY <1>10 DEF KeepTake, Ended, vars, wire
  <2> QED
    BY <1>10, <2>1, <2>2 DEF KeepTake, vars, wire, WireInv, IsPartOf, TypeOK
<1>11. CASE Restart
  <2>1. pump'["client"] # Done
    BY <1>11 DEF Restart, Recv, Done, Pumps
  <2>2. Len(takes) = sessions /\ takes' = takes /\ sessions' = sessions + 1
    BY <1>11 DEF Restart, WireInv, TypeOK
  <2>3. IsPartOf(<<>>, <<>>) /\ Len(<<>>) = 0
    BY DEF IsPartOf
  <2> QED
    BY <1>11, <2>1, <2>2, <2>3 DEF Restart, WireInv, TypeOK
<1>12. CASE Curate \/ UNCHANGED allVars
  BY <1>12 DEF Curate, StartCurate, CurateOne, CurateStops, allVars, vars, wire, WireInv, IsPartOf, Ended
<1> QED
  BY <1>1, <1>2, <1>3, <1>4, <1>5, <1>6, <1>7, <1>8, <1>9, <1>10, <1>11, <1>12 DEF CorpusNext, Tee

(* ---------------------------------------------------------------------- *)
(* The recorder.                                                           *)

\* Steps that leave the recorder alone, and take no message from it or to it.
LEMMA RecorderIdle ==
  ASSUME RecorderInv, UNCHANGED <<toServer, toEditor, recorder>>,
         \A p \in Pumps : \/ pump'[p] = pump[p]
                          \/ pump[p].pc \in {"recv", "done"} /\ pump'[p].pc \in {"recv", "done"}
  PROVE  RecorderInv'
<1>1. \A p : Forwarded(p)' = Forwarded(p)
  BY DEF Forwarded
<1>2. \A p \in Pumps : /\ AtRecorder(p)' <=> AtRecorder(p)
                       /\ AtRecorder(p) => pump'[p] = pump[p]
                       /\ Unnumbered(p)' = Unnumbered(p)
                       /\ Unwritten(p)' = Unwritten(p)
                       /\ \A pc \in {"write", "encode"} : pump'[p].pc = pc <=> pump[p].pc = pc
  BY DEF AtRecorder, Unnumbered, Unwritten
<1>3. OneHolder'
  BY <1>2 DEF RecorderInv, OneHolder, recorder
<1>4. InHand'
  BY <1>1, <1>2 DEF RecorderInv, InHand
<1>5. NumbersInv'
  BY <1>2 DEF RecorderInv, NumbersInv, recorder, Pumps
<1>6. BalanceInv'
  <2>1. \A p \in Pumps : Balanced(p) => Balanced(p)'
    BY <1>1, <1>2 DEF Balanced, recorder
  <2> QED
    BY <2>1 DEF RecorderInv, BalanceInv, Recording, recorder
<1> QED
  BY <1>3, <1>4, <1>5, <1>6 DEF RecorderInv

\* What is in the capture stays told when messages are added.
LEMMA MergeKept ==
  ASSUME TypeOK, CaptureIsAMerge, file' = file, \A p \in Pumps : IsPartOf(Forwarded(p), Forwarded(p)'),
         \A p \in Pumps : Len(Forwarded(p)') \in Nat /\ DOMAIN Forwarded(p)' = 1 .. Len(Forwarded(p)')
  PROVE  CaptureIsAMerge'
<1>1. \A p \in Pumps : Len(Forwarded(p)) \in Nat /\ DOMAIN Forwarded(p) = 1 .. Len(Forwarded(p))
  BY DEF TypeOK, Forwarded
<1>2. ASSUME NEW p \in Pumps, NEW i \in DOMAIN file, TellsOf(p, i)
      PROVE  TellsOf(p, i)'
  <2>1. PICK k \in DOMAIN Forwarded(p) : /\ Recorded(Forwarded(p)[k]) /\ Bare(file[i]) = LineOf(Forwarded(p)[k])
                      /\ Cardinality(WrittenBy(p, file, i)) = Cardinality(RecordedOf(Forwarded(p), k))
    BY <1>2 DEF TellsOf
  <2>2. k \in DOMAIN Forwarded(p)' /\ Forwarded(p)'[k] = Forwarded(p)[k]
    BY <1>1 DEF IsPartOf
  <2>3. RecordedOf(Forwarded(p)', k) = RecordedOf(Forwarded(p), k)
    BY <1>1 DEF IsPartOf, RecordedOf
  <2> QED
    BY <2>1, <2>2, <2>3 DEF TellsOf
<1>3. \A p, i : i \in WrittenBy(p, file, i) => i \in WrittenBy(p, file', i)
  OBVIOUS
<1> QED
  BY <1>2, <1>3 DEF CaptureIsAMerge

\* Messages and lines are counted by numbers.
LEMMA Counts ==
  ASSUME TypeOK, NEW p \in Pumps
  PROVE  /\ Len(file) \in Nat /\ DOMAIN file = 1 .. Len(file)
         /\ Forwarded(p) \in Seq(MessagesOf(p)) /\ Len(Forwarded(p)) \in Nat
         /\ DOMAIN Forwarded(p) = 1 .. Len(Forwarded(p))
         /\ \A k \in 0 .. Len(Forwarded(p)) : /\ RecordedOf(Forwarded(p), k) \in SUBSET (1 .. k)
                                              /\ Cardinality(RecordedOf(Forwarded(p), k)) \in Nat
         /\ \A i \in 0 .. Len(file) : /\ WrittenBy(p, file, i) \in SUBSET (1 .. i)
                                      /\ Cardinality(WrittenBy(p, file, i)) \in Nat
<1>1. Forwarded(p) \in Seq(MessagesOf(p)) /\ file \in Seq(CaptureLines)
  BY DEF TypeOK, Forwarded, MessagesOf
<1>2. /\ Len(file) \in Nat /\ DOMAIN file = 1 .. Len(file)
      /\ Len(Forwarded(p)) \in Nat /\ DOMAIN Forwarded(p) = 1 .. Len(Forwarded(p))
  BY <1>1
<1>3. ASSUME NEW k \in 0 .. Len(Forwarded(p))
      PROVE  /\ RecordedOf(Forwarded(p), k) \in SUBSET (1 .. k)
             /\ Cardinality(RecordedOf(Forwarded(p), k)) \in Nat
  <2>1. RecordedOf(Forwarded(p), k) \in SUBSET (1 .. k)
    BY DEF RecordedOf
  <2>2. k \in Nat
    BY <1>2
  <2> QED
    BY <2>1, <2>2, CountNext
<1>4. ASSUME NEW i \in 0 .. Len(file)
      PROVE  /\ WrittenBy(p, file, i) \in SUBSET (1 .. i)
             /\ Cardinality(WrittenBy(p, file, i)) \in Nat
  <2>1. WrittenBy(p, file, i) \in SUBSET (1 .. i)
    BY DEF WrittenBy
  <2>2. i \in Nat
    BY <1>2
  <2> QED
    BY <2>1, <2>2, CountNext
<1> QED
  BY <1>1, <1>2, <1>3, <1>4

\* A pump has forwarded a message and turns to the recorder.
LEMMA TakeStep ==
  ASSUME TypeOK, RecorderInv, CaptureIsAMerge, NEW p \in Pumps, NEW m \in MessagesOf(p),
         pump[p].pc = "recv", pump' = [pump EXCEPT ![p] = Observe(m)],
         Forwarded(p)' = Append(Forwarded(p), m),
         \A q \in Pumps \ {p} : Forwarded(q)' = Forwarded(q), UNCHANGED recorder
  PROVE  RecorderInv' /\ CaptureIsAMerge'
<1>1. /\ pump'[p] = Observe(m) /\ pump'[p].pc = "observe" /\ pump'[p].msg = m
      /\ \A q \in Pumps \ {p} : pump'[q] = pump[q]
  BY DEF TypeOK, Observe
<1>2. Forwarded(p) \in Seq(MessagesOf(p)) /\ Len(Forwarded(p)) \in Nat
  BY Counts
<1>3. /\ Forwarded(p)' # <<>> /\ Len(Forwarded(p)') = Len(Forwarded(p)) + 1
      /\ DOMAIN Forwarded(p)' = 1 .. Len(Forwarded(p)')
      /\ Forwarded(p)'[Len(Forwarded(p)')] = m
      /\ \A k \in 1 .. Len(Forwarded(p)) : Forwarded(p)'[k] = Forwarded(p)[k]
  BY <1>2
<1>4. UNCHANGED <<holder, off, enc, seq, file>>
  BY DEF recorder
<1>5. OneHolder'
  BY <1>1, <1>4 DEF RecorderInv, OneHolder
<1>6. InHand'
  BY <1>1, <1>3 DEF RecorderInv, InHand, AtRecorder
<1>7. NumbersInv'
  <2>1. /\ Unnumbered(p) = 0 /\ Unnumbered(p)' = 1
        /\ \A q \in Pumps \ {p} : Unnumbered(q)' = Unnumbered(q)
    BY <1>1 DEF Unnumbered
  <2>2. \A q \in Pumps : pump'[q].pc = "encode" <=> pump[q].pc = "encode"
    BY <1>1
  <2>3. seq + Unnumbered("client")' + Unnumbered("server")' <= Len(toServer') + Len(toEditor')
    <3>1. \A q \in Pumps : Unnumbered(q) \in Nat
      BY DEF Unnumbered
    <3>2. Len(toServer) \in Nat /\ Len(toEditor) \in Nat /\ seq \in Nat
      BY DEF TypeOK
    <3>3. seq + Unnumbered("client") + Unnumbered("server") <= Len(toServer) + Len(toEditor)
      BY DEF RecorderInv, NumbersInv
    <3>4. CASE p = "client"
      <4>1. Len(toServer') = Len(toServer) + 1 /\ toEditor' = toEditor
        BY <1>3, <3>4 DEF Forwarded, Pumps
      <4>2. Unnumbered("client") = 0 /\ Unnumbered("client")' = 1 /\ Unnumbered("server")' = Unnumbered("server")
        BY <2>1, <3>4 DEF Pumps
      <4> QED
        BY <3>1, <3>2, <3>3, <4>1, <4>2 DEF Pumps
    <3>5. CASE p = "server"
      <4>1. Len(toEditor') = Len(toEditor) + 1 /\ toServer' = toServer
        BY <1>3, <3>5 DEF Forwarded, Pumps
      <4>2. Unnumbered("server") = 0 /\ Unnumbered("server")' = 1 /\ Unnumbered("client")' = Unnumbered("client")
        BY <2>1, <3>5 DEF Pumps
      <4> QED
        BY <3>1, <3>2, <3>3, <4>1, <4>2 DEF Pumps
    <3> QED
      BY <3>4, <3>5 DEF Pumps
  <2> QED
    BY <1>4, <2>2, <2>3 DEF RecorderInv, NumbersInv
<1>8. BalanceInv'
  <2>1. \A q \in Pumps \ {p} : Balanced(q) => Balanced(q)'
    BY <1>1, <1>4 DEF Balanced, Unwritten, AtRecorder
  <2>2. Balanced(p) => Balanced(p)'
    <3> DEFINE n == Len(Forwarded(p))
               R == RecordedOf(Forwarded(p), n)
    <3>1. RecordedOf(Forwarded(p)', n + 1) = R \cup (IF Recorded(m) THEN {n + 1} ELSE {})
      BY <1>2, RecordedOfAppend
    <3>2. n \in Nat /\ R \in SUBSET (1 .. n)
      BY Counts
    <3>3. Cardinality(R \cup {n + 1}) = Cardinality(R) + 1 /\ Cardinality(R) \in Nat
      BY <3>2, CountNext
    <3>4. Cardinality(RecordedOf(Forwarded(p)', n + 1)) = Cardinality(R) + IF Recorded(m) THEN 1 ELSE 0
      <4>1. CASE Recorded(m)
        BY <3>1, <3>3, <4>1
      <4>2. CASE ~Recorded(m)
        <5>1. RecordedOf(Forwarded(p)', n + 1) = R
          BY <3>1, <4>2
        <5> QED
          BY <3>3, <4>2, <5>1
      <4> QED
        BY <4>1, <4>2
    <3>5. Unwritten(p) = 0 /\ Unwritten(p)' = IF Recorded(m) THEN 1 ELSE 0
      BY <1>1 DEF Unwritten, AtRecorder
    <3>6. Len(Forwarded(p)') = n + 1
      BY <1>3
    <3>7. Cardinality(WrittenBy(p, file, Len(file))) \in Nat
      BY Counts
    <3> HIDE DEF n, R
    <3>8. Balanced(p) => Cardinality(R) = Cardinality(WrittenBy(p, file, Len(file))) + Unwritten(p)
      BY DEF Balanced, n, R
    <3>9. Balanced(p)' <=> Cardinality(RecordedOf(Forwarded(p)', n + 1))
                             = Cardinality(WrittenBy(p, file, Len(file))) + Unwritten(p)'
      BY <1>4, <3>6 DEF Balanced
    <3> QED
      BY <3>3, <3>4, <3>5, <3>7, <3>8, <3>9
  <2> QED
    BY <1>4, <2>1, <2>2 DEF RecorderInv, BalanceInv, Recording
<1>9. CaptureIsAMerge'
  <2>1. \A q \in Pumps : IsPartOf(Forwarded(q), Forwarded(q)')
    <3>1. IsPartOf(Forwarded(p), Forwarded(p)')
      BY <1>2, <1>3 DEF IsPartOf
    <3>2. ASSUME NEW q \in Pumps \ {p} PROVE IsPartOf(Forwarded(q), Forwarded(q)')
      <4>1. Len(Forwarded(q)) \in Nat /\ Forwarded(q)' = Forwarded(q)
        BY Counts
      <4>2. IsPartOf(Forwarded(q), Forwarded(q))
        BY <4>1 DEF IsPartOf
      <4> QED
        BY <4>1, <4>2
    <3> QED
      BY <3>1, <3>2
  <2>2. \A q \in Pumps : Len(Forwarded(q)') \in Nat /\ DOMAIN Forwarded(q)' = 1 .. Len(Forwarded(q)')
    BY <1>2, <1>3, Counts
  <2> QED
    BY <1>4, <2>1, <2>2, MergeKept
<1> QED
  BY <1>5, <1>6, <1>7, <1>8, <1>9 DEF RecorderInv

\* Steps of the recorder that write nothing: what is unwritten stays so, or recording is over.
LEMMA NotWritten ==
  ASSUME TypeOK, RecorderInv, CaptureIsAMerge, NEW p \in Pumps, pump[p].pc \in {"observe", "write", "encode"},
         UNCHANGED <<toServer, toEditor, file>>, \A q \in Pumps \ {p} : pump'[q] = pump[q],
         Recording' => Recording /\ Unwritten(p)' = Unwritten(p)
  PROVE  BalanceInv' /\ CaptureIsAMerge'
<1>1. \A q : Forwarded(q)' = Forwarded(q)
  BY DEF Forwarded
<1>2. ASSUME Recording', NEW q \in Pumps PROVE Balanced(q)'
  <2>1. Unwritten(q)' = Unwritten(q)
    BY <1>2 DEF Unwritten, AtRecorder
  <2>2. Balanced(q)
    BY <1>2 DEF RecorderInv, BalanceInv
  <2> QED
    BY <1>1, <2>1, <2>2 DEF Balanced
<1>3. \A q \in Pumps : IsPartOf(Forwarded(q), Forwarded(q)')
  BY <1>1, Counts DEF IsPartOf
<1>4. \A q \in Pumps : Len(Forwarded(q)') \in Nat /\ DOMAIN Forwarded(q)' = 1 .. Len(Forwarded(q)')
  BY <1>1, Counts
<1>5. CaptureIsAMerge'
  BY <1>3, <1>4, MergeKept
<1> QED
  BY <1>2, <1>5 DEF BalanceInv

LEMMA NumbersKept ==
  ASSUME TypeOK, NumbersInv, UNCHANGED <<toServer, toEditor, enc, seq, file>>,
         \A q \in Pumps : /\ pump'[q].pc \in {"observe", "write"} => pump[q].pc \in {"observe", "write"}
                          /\ pump'[q].pc = "encode" <=> pump[q].pc = "encode"
  PROVE  NumbersInv'
<1>1. seq' + Unnumbered("client")' + Unnumbered("server")' <= Len(toServer') + Len(toEditor')
  <2>1. Len(toServer) \in Nat /\ Len(toEditor) \in Nat /\ seq \in Nat
    BY DEF TypeOK
  <2>2. ASSUME NEW q \in Pumps
        PROVE  Unnumbered(q) \in Nat /\ Unnumbered(q)' \in Nat /\ Unnumbered(q)' <= Unnumbered(q)
    <3>1. CASE pump'[q].pc \in {"observe", "write"}
      <4>1. pump[q].pc \in {"observe", "write"}
        BY <3>1
      <4>2. Unnumbered(q) = 1
        BY <4>1 DEF Unnumbered
      <4>3. Unnumbered(q)' = 1
        BY <3>1 DEF Unnumbered
      <4> QED
        BY <4>2, <4>3
    <3>2. CASE pump'[q].pc \notin {"observe", "write"}
      <4>1. Unnumbered(q) \in {0, 1} /\ Unnumbered(q)' = 0
        BY <3>2 DEF Unnumbered
      <4> QED
        BY <4>1
    <3> QED
      BY <3>1, <3>2
  <2>3. /\ Unnumbered("client") \in Nat /\ Unnumbered("client")' \in Nat
        /\ Unnumbered("server") \in Nat /\ Unnumbered("server")' \in Nat
        /\ Unnumbered("client")' <= Unnumbered("client") /\ Unnumbered("server")' <= Unnumbered("server")
    BY <2>2 DEF Pumps
  <2>4. seq + Unnumbered("client") + Unnumbered("server") <= Len(toServer) + Len(toEditor)
    BY DEF NumbersInv
  <2> QED
    BY <2>1, <2>3, <2>4
<1>2. (\E q \in Pumps : pump'[q].pc = "encode") <=> \E q \in Pumps : pump[q].pc = "encode"
  OBVIOUS
<1> QED
  BY <1>1, <1>2 DEF NumbersInv

LEMMA PassOverStep ==
  ASSUME TypeOK, RecorderInv, CaptureIsAMerge, NEW p \in Pumps, PassOver(p)
  PROVE  RecorderInv' /\ CaptureIsAMerge'
<1>1. /\ pump'[p] = Recv /\ pump'[p].pc = "recv" /\ pump[p].pc = "observe" /\ ~Recorded(pump[p].msg)
      /\ \A q \in Pumps \ {p} : pump'[q] = pump[q]
  BY DEF PassOver, AtObserve, TypeOK, Recv
<1>2. UNCHANGED <<toServer, toEditor, holder, off, enc, seq, file>>
  BY DEF PassOver, wire, recorder
<1>3. \A q : Forwarded(q)' = Forwarded(q)
  BY <1>2 DEF Forwarded
<1>4. OneHolder'
  BY <1>1, <1>2 DEF RecorderInv, OneHolder
<1>5. InHand'
  BY <1>1, <1>3 DEF RecorderInv, InHand, AtRecorder
<1>6. NumbersInv'
  BY <1>1, <1>2, NumbersKept DEF RecorderInv
<1>7. Unwritten(p) = 0 /\ Unwritten(p)' = 0
  BY <1>1 DEF Unwritten, AtRecorder
<1>8. BalanceInv' /\ CaptureIsAMerge'
  BY <1>1, <1>2, <1>7, NotWritten DEF Recording
<1> QED
  BY <1>4, <1>5, <1>6, <1>8 DEF RecorderInv

LEMMA LockStep ==
  ASSUME TypeOK, RecorderInv, CaptureIsAMerge, NEW p \in Pumps, Lock(p)
  PROVE  RecorderInv' /\ CaptureIsAMerge'
<1>1. /\ pump'[p].pc = "write" /\ pump'[p].msg = pump[p].msg
      /\ pump[p].pc = "observe" /\ Recorded(pump[p].msg)
      /\ \A q \in Pumps \ {p} : pump'[q] = pump[q]
  <2>1. pump[p].pc = "observe" /\ Recorded(pump[p].msg) /\ pump' = [pump EXCEPT ![p].pc = "write"]
    BY DEF Lock, AtObserve
  <2>2. pump'[p] = [pc |-> "write", msg |-> pump[p].msg] /\ \A q \in Pumps \ {p} : pump'[q] = pump[q]
    BY <2>1, PumpGoesOn
  <2> QED
    BY <2>1, <2>2
<1>2. UNCHANGED <<toServer, toEditor, off, enc, seq, file>> /\ holder = Free /\ holder' = p
  BY DEF Lock, wire
<1>3. \A q : Forwarded(q)' = Forwarded(q)
  BY <1>2 DEF Forwarded
<1>4. OneHolder'
  BY <1>1, <1>2 DEF RecorderInv, OneHolder, Pumps, Free
<1>5. InHand'
  BY <1>1, <1>3 DEF RecorderInv, InHand, AtRecorder
<1>6. NumbersInv'
  BY <1>1, <1>2, NumbersKept DEF RecorderInv
<1>7. Unwritten(p)' = Unwritten(p)
  BY <1>1 DEF Unwritten, AtRecorder
<1>8. BalanceInv' /\ CaptureIsAMerge'
  BY <1>1, <1>2, <1>7, NotWritten DEF Recording
<1> QED
  BY <1>4, <1>5, <1>6, <1>8 DEF RecorderInv

\* Only the holder of the mutex is at the file.
LEMMA HolderAlone ==
  ASSUME OneHolder, NEW p \in Pumps, pump[p].pc \in {"write", "encode"}
  PROVE  holder = p /\ \A q \in Pumps \ {p} : pump[q].pc \notin {"write", "encode"}
  BY DEF OneHolder

LEMMA GiveUpStep ==
  ASSUME TypeOK, RecorderInv, CaptureIsAMerge, NEW p \in Pumps, GiveUp(p)
  PROVE  RecorderInv' /\ CaptureIsAMerge'
<1>1. /\ pump'[p].pc = "recv" /\ pump[p].pc = "write"
      /\ \A q \in Pumps \ {p} : pump'[q] = pump[q]
  BY PumpReleased DEF GiveUp, Recv
<1>2. UNCHANGED <<toServer, toEditor, enc, seq, file>> /\ holder' = Free /\ off' = TRUE /\ enc = "nil"
  BY DEF GiveUp, Unlock, wire
<1>3. \A q : Forwarded(q)' = Forwarded(q)
  BY <1>2 DEF Forwarded
<1>4. OneHolder'
  BY <1>1, <1>2, HolderAlone DEF RecorderInv, OneHolder, Pumps, Free
<1>5. InHand'
  BY <1>1, <1>3 DEF RecorderInv, InHand, AtRecorder
<1>6. NumbersInv'
  BY <1>1, <1>2, NumbersKept DEF RecorderInv
<1>7. BalanceInv' /\ CaptureIsAMerge'
  BY <1>1, <1>2, NotWritten DEF Recording
<1> QED
  BY <1>4, <1>5, <1>6, <1>7 DEF RecorderInv

LEMMA NumberStep ==
  ASSUME TypeOK, RecorderInv, CaptureIsAMerge, NEW p \in Pumps, Number(p)
  PROVE  RecorderInv' /\ CaptureIsAMerge'
<1>1. /\ pump'[p].pc = "encode" /\ pump'[p].msg = pump[p].msg
      /\ pump[p].pc = "write" /\ \A q \in Pumps \ {p} : pump'[q] = pump[q]
  <2>1. pump[p].pc = "write" /\ pump' = [pump EXCEPT ![p].pc = "encode"]
    BY DEF Number
  <2>2. pump'[p] = [pc |-> "encode", msg |-> pump[p].msg] /\ \A q \in Pumps \ {p} : pump'[q] = pump[q]
    BY <2>1, PumpGoesOn
  <2> QED
    BY <2>1, <2>2
<1>2. /\ UNCHANGED <<toServer, toEditor, holder, off, file>> /\ seq' = seq + 1
      /\ enc = "nil" => ~off
      /\ enc' = IF enc = "nil" THEN "open" ELSE enc
  BY DEF Number, wire
<1>3. \A q : Forwarded(q)' = Forwarded(q)
  BY <1>2 DEF Forwarded
<1>4. OneHolder'
  BY <1>1, <1>2 DEF RecorderInv, OneHolder
<1>5. InHand'
  BY <1>1, <1>3 DEF RecorderInv, InHand, AtRecorder
<1>6. holder = p /\ \A q \in Pumps \ {p} : pump[q].pc \notin {"write", "encode"}
  BY <1>1, HolderAlone DEF RecorderInv
<1>7. NumbersInv'
  <2>1. seq' + Unnumbered("client")' + Unnumbered("server")' <= Len(toServer') + Len(toEditor')
    <3>1. Len(toServer) \in Nat /\ Len(toEditor) \in Nat /\ seq \in Nat
      BY DEF TypeOK
    <3>2. /\ Unnumbered(p) = 1 /\ Unnumbered(p)' = 0
          /\ \A q \in Pumps \ {p} : Unnumbered(q)' = Unnumbered(q) /\ Unnumbered(q) \in Nat
      BY <1>1 DEF Unnumbered
    <3>3. Unnumbered("client") + Unnumbered("server") = Unnumbered("client")' + Unnumbered("server")' + 1
          /\ Unnumbered("client")' + Unnumbered("server")' \in Nat
      BY <3>2 DEF Pumps
    <3>4. Unnumbered("client") \in Nat /\ Unnumbered("server") \in Nat
          /\ Unnumbered("client")' \in Nat /\ Unnumbered("server")' \in Nat
      BY DEF Unnumbered
    <3>5. seq + Unnumbered("client") + Unnumbered("server") <= Len(toServer) + Len(toEditor)
      BY DEF RecorderInv, NumbersInv
    <3> QED
      BY <1>2, <3>1, <3>3, <3>4, <3>5
  <2>2. enc' # "nil"
    BY <1>2
  <2>3. ASSUME enc' = "open"
        PROVE  (\A i \in DOMAIN file : file[i] # Torn) /\ seq' = Len(file) + 1
    <3>1. CASE enc = "nil"
      BY <1>2, <3>1 DEF RecorderInv, NumbersInv
    <3>2. CASE enc = "open"
      <4>1. ~ \E q \in Pumps : pump[q].pc = "encode"
        BY <1>1, <1>6
      <4> QED
        BY <1>2, <3>2, <4>1 DEF RecorderInv, NumbersInv
    <3> QED
      BY <1>2, <2>3, <3>1, <3>2
  <2>4. \E q \in Pumps : pump'[q].pc = "encode"
    BY <1>1
  <2> QED
    BY <1>2, <2>1, <2>2, <2>3, <2>4 DEF NumbersInv
<1>8. Unwritten(p)' = Unwritten(p)
  BY <1>1 DEF Unwritten, AtRecorder
<1>9. Recording' => Recording
  BY <1>2 DEF Recording
<1>10. BalanceInv' /\ CaptureIsAMerge'
  BY <1>1, <1>2, <1>8, <1>9, NotWritten
<1> QED
  BY <1>4, <1>5, <1>7, <1>10 DEF RecorderInv

LEMMA EncodeFailsStep ==
  ASSUME TypeOK, WireInv, RecorderInv, CaptureIsAMerge, NEW p \in Pumps, EncodeFails(p)
  PROVE  RecorderInv' /\ CaptureIsAMerge'
<1>1. /\ pump'[p].pc = "recv" /\ pump[p].pc = "encode"
      /\ \A q \in Pumps \ {p} : pump'[q] = pump[q]
  BY PumpReleased DEF EncodeFails, Recv
<1>2. /\ UNCHANGED <<toServer, toEditor, seq>> /\ holder' = Free /\ off' = TRUE /\ enc' = "broken"
      /\ file' = file \/ (enc = "open" /\ file' = Append(file, Torn))
  BY DEF EncodeFails, Unlock, wire
<1>3. \A q : Forwarded(q)' = Forwarded(q)
  BY <1>2 DEF Forwarded
<1>4. OneHolder'
  BY <1>1, <1>2, HolderAlone DEF RecorderInv, OneHolder, Pumps, Free
<1>5. InHand'
  BY <1>1, <1>3 DEF RecorderInv, InHand, AtRecorder
<1>6. NumbersInv'
  <2>1. /\ Unnumbered(p) = 0 /\ Unnumbered(p)' = 0
        /\ \A q \in Pumps \ {p} : Unnumbered(q)' = Unnumbered(q)
    BY <1>1 DEF Unnumbered
  <2>2. Unnumbered("client")' = Unnumbered("client") /\ Unnumbered("server")' = Unnumbered("server")
    BY <2>1 DEF Pumps
  <2> QED
    BY <1>2, <2>2 DEF RecorderInv, NumbersInv
<1>7. BalanceInv'
  BY <1>2 DEF BalanceInv, Recording
<1>8. CaptureIsAMerge'
  <2>1. CASE file' = file
    <3>1. \A q \in Pumps : IsPartOf(Forwarded(q), Forwarded(q)')
      BY <1>3, Counts DEF IsPartOf
    <3>2. \A q \in Pumps : Len(Forwarded(q)') \in Nat /\ DOMAIN Forwarded(q)' = 1 .. Len(Forwarded(q)')
      BY <1>3, Counts
    <3> QED
      BY <2>1, <3>1, <3>2, MergeKept
  <2>2. CASE enc = "open" /\ file' = Append(file, Torn)
    <3>1. Torn \in CaptureLines /\ file \in Seq(CaptureLines) /\ p \in Pumps
      BY DEF CaptureLines, TypeOK
    <3>2. /\ DOMAIN file = 1 .. Len(file) /\ DOMAIN file' = 1 .. Len(file) + 1 /\ Len(file') = Len(file) + 1
          /\ Len(file) \in Nat /\ file'[Len(file) + 1] = Torn
          /\ \A i \in 1 .. Len(file) : file'[i] = file[i]
      BY <2>2, <3>1
    <3>3. \A q, i : i \in 0 .. Len(file) => WrittenBy(q, file', i) = WrittenBy(q, file, i)
      BY <2>2, <3>1, WrittenByAppend
    <3>4. \A i \in DOMAIN file : file[i] # Torn
      BY <2>2 DEF RecorderInv, NumbersInv
    <3>5. ASSUME NEW i \in 1 .. Len(file)
          PROVE  /\ file'[i] # Torn /\ file'[i].seq = i
                 /\ \E q \in Pumps : i \in WrittenBy(q, file', i) /\ TellsOf(q, i)'
      <4>1. file[i] # Torn /\ file'[i] = file[i]
        BY <3>2, <3>4
      <4>2. file[i].seq = i /\ \E q \in Pumps : i \in WrittenBy(q, file, i) /\ TellsOf(q, i)
        BY <3>2, <4>1 DEF CaptureIsAMerge
      <4>3. PICK q \in Pumps : i \in WrittenBy(q, file, i) /\ TellsOf(q, i)
        BY <4>2
      <4>4. WrittenBy(q, file', i) = WrittenBy(q, file, i)
        BY <3>2, <3>3
      <4>5. TellsOf(q, i)'
        BY <1>3, <4>1, <4>3, <4>4 DEF TellsOf
      <4> QED
        BY <4>1, <4>2, <4>3, <4>4, <4>5
    <3> QED
      BY <3>2, <3>5 DEF CaptureIsAMerge
  <2> QED
    BY <1>2, <2>1, <2>2
<1> QED
  BY <1>4, <1>5, <1>6, <1>7, <1>8 DEF RecorderInv

LEMMA EncodeStep ==
  ASSUME TypeOK, WireInv, RecorderInv, CaptureIsAMerge, NEW p \in Pumps, Encode(p)
  PROVE  RecorderInv' /\ CaptureIsAMerge'
<1> DEFINE m == pump[p].msg
           l == Numbered(seq, m)
           n == Len(file)
           k == Len(Forwarded(p))
<1>1. /\ pump'[p].pc = "recv" /\ pump[p].pc = "encode"
      /\ \A q \in Pumps \ {p} : pump'[q] = pump[q]
  BY PumpReleased DEF Encode, Recv
<1>2. /\ UNCHANGED <<toServer, toEditor, off, enc, seq>> /\ holder' = Free /\ enc = "open"
      /\ file' = Append(file, l)
  BY DEF Encode, Unlock, wire
<1>3. \A q : Forwarded(q)' = Forwarded(q)
  BY <1>2 DEF Forwarded
<1>4. /\ m \in MessagesOf(p) /\ m \in ClientMsg \cup ServerMsg /\ Recorded(m)
      /\ seq = n + 1 /\ l \in CaptureLines /\ l # Torn
  BY <1>1, <1>2, LineTypes
<1>5. l.seq = n + 1 /\ l.cadence = m.cadence /\ Bare(l) = LineOf(m)
  BY <1>4, NumberedLines
<1>6. m.cadence \in CadencesOf(p) /\ \A q \in Pumps \ {p} : m.cadence \notin CadencesOf(q)
  <2>1. m.cadence # "other"
    BY <1>4 DEF Recorded
  <2>2. CASE p = "client"
    <3>1. m.cadence \in EditorCadences
      BY <1>4, <2>1, <2>2, MessageKinds DEF MessagesOf
    <3> QED
      BY <2>2, <3>1 DEF CadencesOf, Pumps, EditorCadences, Edits
  <2>3. CASE p = "server"
    <3>1. m.cadence = "diagnostics"
      BY <1>4, <2>1, <2>3, MessageKinds DEF MessagesOf
    <3> QED
      BY <2>3, <3>1 DEF CadencesOf, Pumps, EditorCadences, Edits
  <2> QED
    BY <2>2, <2>3 DEF Pumps
<1>7. k # 0 /\ m = Forwarded(p)[k]
  <2>1. Forwarded(p) # <<>> /\ m = Forwarded(p)[Len(Forwarded(p))]
    BY <1>1 DEF RecorderInv, InHand, AtRecorder
  <2>2. Forwarded(p) \in Seq(MessagesOf(p))
    BY Counts
  <2> QED
    BY <2>1, <2>2
<1>8. file \in Seq(CaptureLines) /\ n \in Nat /\ k \in Nat
      /\ DOMAIN file = 1 .. n /\ DOMAIN Forwarded(p) = 1 .. k
  BY Counts DEF TypeOK
<1> HIDE DEF m, l
<1>9. /\ DOMAIN file' = 1 .. n + 1 /\ Len(file') = n + 1
      /\ file'[n + 1] = l /\ \A i \in 1 .. n : file'[i] = file[i]
  BY <1>2, <1>4, <1>8
<1>10. ASSUME NEW q, NEW i \in 0 .. n PROVE WrittenBy(q, file', i) = WrittenBy(q, file, i)
  <2>1. l \in CaptureLines /\ file \in Seq(CaptureLines) /\ file' = Append(file, l)
    BY <1>2, <1>4, <1>8
  <2>2. \A j \in 0 .. Len(file) : WrittenBy(q, Append(file, l), j) = WrittenBy(q, file, j)
    BY <2>1, WrittenByAppend
  <2> QED
    BY <2>1, <2>2
<1>11. WrittenBy(p, file', n + 1) = WrittenBy(p, file, n) \cup {n + 1}
  <2>1. WrittenBy(p, file', n + 1)
          = WrittenBy(p, file, n) \cup (IF l # Torn /\ l.cadence \in CadencesOf(p) THEN {n + 1} ELSE {})
    BY <1>2, <1>4, <1>8, WrittenByAppend
  <2> QED
    BY <1>4, <1>5, <1>6, <2>1
<1>12. ASSUME NEW q \in Pumps \ {p} PROVE WrittenBy(q, file', n + 1) = WrittenBy(q, file, n)
  <2>1. WrittenBy(q, file', n + 1)
          = WrittenBy(q, file, n) \cup (IF l # Torn /\ l.cadence \in CadencesOf(q) THEN {n + 1} ELSE {})
    BY <1>2, <1>4, <1>8, WrittenByAppend
  <2> QED
    BY <1>5, <1>6, <2>1
<1>13. /\ Cardinality(WrittenBy(p, file', n + 1)) = Cardinality(WrittenBy(p, file, n)) + 1
       /\ Cardinality(WrittenBy(p, file, n)) \in Nat
  <2>1. WrittenBy(p, file, n) \in SUBSET (1 .. n)
    BY <1>8, Counts
  <2> QED
    BY <1>8, <1>11, <2>1, CountNext
\* The message is the one that had still to be written.
<1>14. Cardinality(WrittenBy(p, file', n + 1)) = Cardinality(RecordedOf(Forwarded(p), k))
  <2>1. Unwritten(p) = 1
    BY <1>1, <1>4 DEF Unwritten, AtRecorder, m
  <2>2. Balanced(p)
    BY <1>2 DEF RecorderInv, BalanceInv, Recording
  <2> QED
    BY <1>13, <2>1, <2>2 DEF Balanced
<1>15. OneHolder'
  BY <1>1, <1>2, HolderAlone DEF RecorderInv, OneHolder, Pumps, Free
<1>16. InHand'
  BY <1>1, <1>3 DEF RecorderInv, InHand, AtRecorder
<1>17. NumbersInv'
  <2>1. /\ Unnumbered(p) = 0 /\ Unnumbered(p)' = 0
        /\ \A q \in Pumps \ {p} : Unnumbered(q)' = Unnumbered(q)
    BY <1>1 DEF Unnumbered
  <2>2. Unnumbered("client")' = Unnumbered("client") /\ Unnumbered("server")' = Unnumbered("server")
    BY <2>1 DEF Pumps
  <2>3. seq' + Unnumbered("client")' + Unnumbered("server")' <= Len(toServer') + Len(toEditor')
    BY <1>2, <2>2 DEF RecorderInv, NumbersInv
  <2>4. ~ \E q \in Pumps : pump'[q].pc = "encode"
    BY <1>1, HolderAlone DEF RecorderInv
  <2>5. \A i \in DOMAIN file' : file'[i] # Torn
    BY <1>2, <1>4, <1>8, <1>9 DEF RecorderInv, NumbersInv
  <2>6. seq' = Len(file')
    BY <1>2, <1>4, <1>9
  <2>7. enc' # "nil"
    BY <1>2
  <2> HIDE DEF n, k
  <2> QED
    BY <2>3, <2>4, <2>5, <2>6, <2>7 DEF NumbersInv
<1>18. BalanceInv'
  <2>1. Balanced(p)'
    <3>1. Unwritten(p)' = 0
      BY <1>1 DEF Unwritten, AtRecorder
    <3>2. Cardinality(RecordedOf(Forwarded(p), k)) \in Nat
      BY <1>13, <1>14
    <3> QED
      BY <1>3, <1>9, <1>14, <3>1, <3>2 DEF Balanced
  <2>2. ASSUME NEW q \in Pumps \ {p} PROVE Balanced(q)'
    <3>1. Balanced(q)
      BY <1>2 DEF RecorderInv, BalanceInv, Recording
    <3>2. Unwritten(q)' = Unwritten(q)
      BY <1>1 DEF Unwritten, AtRecorder
    <3> QED
      BY <1>3, <1>9, <1>12, <3>1, <3>2 DEF Balanced
  <2> QED
    BY <2>1, <2>2 DEF BalanceInv
<1>19. CaptureIsAMerge'
  <2>1. ASSUME NEW i \in 1 .. n
        PROVE  /\ file'[i] # Torn /\ file'[i].seq = i
               /\ \E q \in Pumps : i \in WrittenBy(q, file', i) /\ TellsOf(q, i)'
    <3>1. file[i] # Torn /\ file'[i] = file[i]
      BY <1>2, <1>8, <1>9 DEF RecorderInv, NumbersInv
    <3>2. file[i].seq = i /\ \E q \in Pumps : i \in WrittenBy(q, file, i) /\ TellsOf(q, i)
      BY <1>8, <3>1 DEF CaptureIsAMerge
    <3>3. PICK q \in Pumps : i \in WrittenBy(q, file, i) /\ TellsOf(q, i)
      BY <3>2
    <3>4. WrittenBy(q, file', i) = WrittenBy(q, file, i)
      BY <1>8, <1>10
    <3>5. TellsOf(q, i)'
      BY <1>3, <3>1, <3>3, <3>4 DEF TellsOf
    <3> QED
      BY <3>1, <3>2, <3>3, <3>4, <3>5
  <2>2. file'[n + 1] # Torn /\ file'[n + 1].seq = n + 1
    BY <1>4, <1>5, <1>9
  <2>3. n + 1 \in WrittenBy(p, file', n + 1)
    BY <1>11
  <2>4. PICK last \in Nat : last = n + 1
    BY <1>8
  <2>5. TellsOf(p, last)'
    <3> HIDE DEF n, k
    <3>1. k \in DOMAIN Forwarded(p)
      BY <1>7, <1>8
    <3>2. Recorded(Forwarded(p)[k]) /\ Bare(file'[last]) = LineOf(Forwarded(p)[k])
      BY <1>4, <1>5, <1>7, <1>9, <2>4
    <3>3. Cardinality(WrittenBy(p, file', last)) = Cardinality(RecordedOf(Forwarded(p), k))
      BY <1>14, <2>4
    <3> QED
      BY <1>3, <3>1, <3>2, <3>3 DEF TellsOf
  <2> QED
    <3>1. ASSUME NEW i \in DOMAIN file'
          PROVE  /\ file'[i] # Torn /\ file'[i].seq = i
                 /\ \E q \in Pumps : i \in WrittenBy(q, file', i) /\ TellsOf(q, i)'
      <4>1. i \in 1 .. n \/ i = n + 1
        BY <1>8, <1>9, <3>1
      <4>2. CASE i = n + 1
        <5>1. i = last
          BY <2>4, <4>2
        <5> QED
          BY <2>2, <2>3, <2>4, <2>5, <5>1
      <4> QED
        BY <2>1, <4>1, <4>2
    <3> QED
      BY <3>1 DEF CaptureIsAMerge
<1> QED
  BY <1>15, <1>16, <1>17, <1>18, <1>19 DEF RecorderInv

\* A new session starts with a recorder of its own.
LEMMA RestartStep ==
  ASSUME TypeOK, WireInv, RecorderInv, Restart
  PROVE  RecorderInv' /\ CaptureIsAMerge'
<1>1. /\ toServer' = <<>> /\ toEditor' = <<>> /\ file' = <<>> /\ seq' = 0 /\ enc' = "nil" /\ holder' = holder
      /\ \A p \in Pumps : pump'[p] = Recv /\ pump'[p].pc = "recv"
  BY DEF Restart, Recv
<1>2. \A p \in Pumps : Forwarded(p)' = <<>>
  BY <1>1 DEF Forwarded
\* The session before has ended, and with it its pumps.
<1>3. OneHolder'
  <2>1. Len(takes) = sessions
    BY DEF Restart, WireInv, TypeOK
  <2>2. \A p \in Pumps : pump[p] = Done /\ pump[p].pc = "done"
    BY <2>1 DEF WireInv, Ended, Done
  <2> QED
    BY <1>1, <2>2 DEF RecorderInv, OneHolder
<1>4. \A p \in Pumps : AtRecorder(p)' = FALSE /\ Unnumbered(p)' = 0 /\ Unwritten(p)' = 0
  BY <1>1 DEF AtRecorder, Unnumbered, Unwritten
<1>5. InHand'
  BY <1>4 DEF InHand
<1>6. NumbersInv'
  <2>1. Unnumbered("client")' = 0 /\ Unnumbered("server")' = 0
    BY <1>4 DEF Pumps
  <2> QED
    BY <1>1, <2>1 DEF NumbersInv
<1>7. BalanceInv'
  <2>1. ASSUME NEW p \in Pumps PROVE Balanced(p)'
    <3>1. RecordedOf(Forwarded(p)', Len(Forwarded(p)')) = {}
      BY <1>2 DEF RecordedOf
    <3>2. WrittenBy(p, file', Len(file')) = {}
      BY <1>1 DEF WrittenBy
    <3>3. Cardinality({}) = 0
      BY FS_EmptySet
    <3>4. Cardinality(RecordedOf(Forwarded(p)', Len(Forwarded(p)'))) = 0
      BY <3>1, <3>3, Zenon
    <3>5. Cardinality(WrittenBy(p, file', Len(file'))) = 0
      BY <3>2, <3>3, Zenon
    <3> QED
      BY <1>4, <3>4, <3>5 DEF Balanced
  <2> QED
    BY <2>1 DEF BalanceInv
<1>8. CaptureIsAMerge'
  BY <1>1 DEF CaptureIsAMerge
<1> QED
  BY <1>3, <1>5, <1>6, <1>7, <1>8 DEF RecorderInv

LEMMA RecorderStep ==
  TypeOK /\ WireInv /\ RecorderInv /\ CaptureIsAMerge /\ [CorpusNext]_allVars => RecorderInv' /\ CaptureIsAMerge'
<1> SUFFICES ASSUME TypeOK, WireInv, RecorderInv, CaptureIsAMerge, [CorpusNext]_allVars
             PROVE  RecorderInv' /\ CaptureIsAMerge'
  OBVIOUS
<1> USE DEF TeeStep
<1>0. \A q \in Pumps : /\ IsPartOf(Forwarded(q), Forwarded(q)) /\ Len(Forwarded(q)) \in Nat
                       /\ DOMAIN Forwarded(q) = 1 .. Len(Forwarded(q))
  BY Counts DEF IsPartOf
\* Steps that the recorder does not see.
<1>1. ASSUME UNCHANGED <<toServer, toEditor, recorder>>,
             \A p \in Pumps : \/ pump'[p] = pump[p]
                              \/ pump[p].pc \in {"recv", "done"} /\ pump'[p].pc \in {"recv", "done"}
      PROVE  RecorderInv' /\ CaptureIsAMerge'
  <2>1. RecorderInv'
    BY <1>1, RecorderIdle
  <2>2. \A q \in Pumps : Forwarded(q)' = Forwarded(q)
    BY <1>1 DEF Forwarded
  <2>3. file' = file
    BY <1>1 DEF recorder
  <2>4. CaptureIsAMerge'
    BY <1>0, <2>2, <2>3, MergeKept
  <2> QED
    BY <2>1, <2>4
<1>2. CASE TeeStep(Send) \/ TeeStep(Close) \/ TeeStep(Serve) \/ TeeStep(ServerEnds) \/ TeeStep(ServerDies)
  <2>1. UNCHANGED <<toServer, toEditor, recorder>> /\ pump' = pump
    BY <1>2 DEF Send, Close, Serve, ServerEnds, ServerDies, recorder
  <2> QED
    BY <1>1, <2>1
<1>3. CASE KeepTake \/ Curate \/ UNCHANGED allVars
  <2>1. UNCHANGED <<toServer, toEditor, recorder>> /\ pump' = pump
    BY <1>3 DEF KeepTake, Curate, StartCurate, CurateOne, CurateStops, allVars, vars, wire
  <2> QED
    BY <1>1, <2>1
<1>4. CASE TeeStep(EndUp) \/ TeeStep(EndDown)
  <2>1. \E p \in Pumps : pump[p].pc = "recv" /\ pump' = [pump EXCEPT ![p] = Done]
    BY <1>4 DEF EndUp, EndDown, ToServer, Pumps
  <2>2. \A p \in Pumps : \/ pump'[p] = pump[p]
                         \/ pump[p].pc \in {"recv", "done"} /\ pump'[p].pc \in {"recv", "done"}
    BY <2>1 DEF Done, TypeOK
  <2>3. UNCHANGED <<toServer, toEditor, recorder>>
    BY <1>4 DEF EndUp, EndDown, wire, recorder
  <2> QED
    BY <1>1, <2>2, <2>3
<1>5. CASE TeeStep(PumpUp)
  <2>1. "client" \in Pumps /\ Next1 \in MessagesOf("client") /\ pump["client"].pc = "recv"
    BY <1>5 DEF PumpUp, ToServer, Next1, MessagesOf, TypeOK, Pumps
  <2>2. pump' = [pump EXCEPT !["client"] = Observe(Next1)] /\ toServer' = Append(toServer, Next1)
        /\ toEditor' = toEditor /\ UNCHANGED recorder
    BY <1>5 DEF PumpUp
  <2>3. Forwarded("client")' = Append(Forwarded("client"), Next1)
        /\ \A q \in Pumps \ {"client"} : Forwarded(q)' = Forwarded(q)
    BY <2>2 DEF Forwarded
  <2> QED
    BY <2>1, <2>2, <2>3, TakeStep
<1>6. CASE TeeStep(PumpDown)
  <2> DEFINE m == said[Len(toEditor) + 1]
  <2>1. "server" \in Pumps /\ m \in MessagesOf("server") /\ pump["server"].pc = "recv"
    BY <1>6 DEF PumpDown, MessagesOf, TypeOK, Pumps
  <2>2. pump' = [pump EXCEPT !["server"] = Observe(m)] /\ toEditor' = Append(toEditor, m)
        /\ toServer' = toServer /\ UNCHANGED recorder
    BY <1>6 DEF PumpDown
  <2> HIDE DEF m
  <2>3. Forwarded("server")' = Append(Forwarded("server"), m)
        /\ \A q \in Pumps \ {"server"} : Forwarded(q)' = Forwarded(q)
    BY <2>2 DEF Forwarded, Pumps
  <2> QED
    BY <2>1, <2>2, <2>3, TakeStep
<1>7. CASE \E p \in Pumps : TeeStep(Record1(p))
  BY <1>7, PassOverStep, LockStep, GiveUpStep, NumberStep, EncodeStep, EncodeFailsStep DEF Record1, Record
<1>8. CASE Restart
  BY <1>8, RestartStep
<1> QED
  BY <1>2, <1>3, <1>4, <1>5, <1>6, <1>7, <1>8 DEF CorpusNext, Tee

(* ---------------------------------------------------------------------- *)
(* The theorems.                                                           *)

\* What goes with the two properties through every step of the tee and of states-curate.
THEOREM TeeInvariant == CorpusSpec => []TeeInv
<1>1. CorpusInit => TeeInv
  BY InitType DEF TeeInv
<1>2. TeeInv /\ [CorpusNext]_allVars => TeeInv'
  BY TypeStep, WireStep, RecorderStep DEF TeeInv
<1> QED
  BY <1>1, <1>2, PTL DEF CorpusSpec

\* The recorder, the pumps and the messages keep their types.
THEOREM TypeCorrect == CorpusSpec => []TypeOK
<1>1. TeeInv => TypeOK
  BY DEF TeeInv
<1> QED
  BY <1>1, TeeInvariant, PTL

\* The lines of a capture are numbered as they stand in it, nothing follows a torn one, and each direction is
\* there in its order and without a gap (recorder.write under r.mu, and an encoder that fails for good).
THEOREM CapturesAreMerges == CorpusSpec => []CaptureIsAMerge
<1>1. TeeInv => CaptureIsAMerge
  BY DEF TeeInv
<1> QED
  BY <1>1, TeeInvariant, PTL

LEMMA WireStart == CorpusInit => Wire!Init
<1> SUFFICES ASSUME CorpusInit PROVE Wire!Init
  OBVIOUS
<1>1. SubSeq(toServer, 1, served) = <<>>
  BY DEF CorpusInit, Init
<1> QED
  BY <1>1 DEF CorpusInit, Init, Wire!Init, Wire!Start

\* The messages that the server has read are those the editor sent first.
LEMMA WhatIsRead ==
  ASSUME TypeOK, WireInv, NEW n \in 0 .. Len(toServer)
  PROVE  /\ Len(SubSeq(toServer, 1, n)) = n
         /\ n < Len(toServer) =>
              /\ n < Len(sent)
              /\ SubSeq(toServer, 1, n + 1) = Append(SubSeq(toServer, 1, n), sent[n + 1])
<1>1. toServer \in Seq(ClientMsg) /\ Len(toServer) \in Nat /\ Len(sent) \in Nat
  BY DEF TypeOK
<1>2. Len(SubSeq(toServer, 1, n)) = n
  BY <1>1
<1>3. ASSUME n < Len(toServer)
      PROVE  /\ n < Len(sent)
             /\ SubSeq(toServer, 1, n + 1) = Append(SubSeq(toServer, 1, n), sent[n + 1])
  <2>1. n + 1 \in 1 .. Len(toServer)
    BY <1>1, <1>3
  <2>2. Len(toServer) <= Len(sent) /\ toServer[n + 1] = sent[n + 1]
    BY <2>1 DEF WireInv, IsPartOf
  <2>3. SubSeq(toServer, 1, n + 1) = Append(SubSeq(toServer, 1, n), toServer[n + 1])
    BY <1>1, <1>3
  <2> QED
    BY <1>1, <1>3, <2>2, <2>3
<1> QED
  BY <1>2, <1>3

LEMMA WireSteps == TeeInv /\ [CorpusNext]_allVars => [Wire!Next]_(Wire!vars)
<1> SUFFICES ASSUME TeeInv, [CorpusNext]_allVars PROVE [Wire!Next]_(Wire!vars)
  OBVIOUS
<1> DEFINE read == SubSeq(toServer, 1, served)
<1>0. TypeOK /\ WireInv /\ served \in 0 .. Len(toServer) /\ served \in Nat
      /\ Len(toServer) \in Nat /\ Len(sent) \in Nat /\ Len(said) \in Nat /\ Len(toEditor) \in Nat
      /\ Len(toServer) <= Len(sent) /\ left \in Nat /\ left + Len(sent) <= MaxSends
  BY DEF TeeInv, TypeOK, WireInv, IsPartOf
<1> USE DEF TeeStep
<1>1. CASE TeeStep(Send)
  <2>1. Len(sent) < MaxSends
    BY <1>0, <1>1 DEF Send
  <2> QED
    BY <1>1, <2>1 DEF Send, Wire!Next, Wire!SendUp
<1>2. CASE TeeStep(Close)
  BY <1>2 DEF Close, Wire!Next, Wire!Close
<1>3. CASE TeeStep(Serve)
  <2>1. Len(read) = served /\ served < Len(sent) /\ SubSeq(toServer, 1, served + 1) = Append(read, sent[served + 1])
    BY <1>0, <1>3, WhatIsRead DEF Serve
  <2>2. SubSeq(toServer', 1, served') = Append(read, sent[Len(read) + 1])
    BY <1>3, <2>1 DEF Serve
  <2>3. Len(said) < MaxSends
    BY <1>0, <1>3 DEF Serve, WireInv
  <2>4. Answer(served') \in ServerMsg
    <3>1. served' \in 1 .. Len(toServer)
      BY <1>0, <1>3 DEF Serve
    <3>2. toServer \in Seq(ClientMsg) /\ Len(toServer) <= MaxSends
      BY <1>0 DEF TypeOK
    <3> QED
      BY <3>1, <3>2, AnswerType
  <2> HIDE DEF read
  <2>5. srv = "up" /\ said' = Append(said, Answer(served')) /\ UNCHANGED <<sent, toEditor, open, srv>>
    BY <1>3 DEF Serve
  <2> QED
    BY <2>1, <2>2, <2>3, <2>4, <2>5 DEF Wire!Next, Wire!TakeUp, read
<1>4. CASE TeeStep(ServerEnds)
  <2>1. ~open /\ toServer = sent
    BY <1>0, <1>4 DEF ServerEnds, WireInv
  <2>2. read = sent
    BY <1>0, <1>4, <2>1 DEF ServerEnds, TypeOK
  <2> QED
    BY <1>4, <2>1, <2>2 DEF ServerEnds, Wire!Next, Wire!SeeEnd
<1>5. CASE TeeStep(ServerDies)
  BY <1>5 DEF ServerDies, Wire!Next, Wire!Die
<1>6. CASE TeeStep(PumpUp)
  <2>1. SubSeq(toServer', 1, served') = read
    <3>1. Next1 \in ClientMsg /\ toServer' = Append(toServer, Next1) /\ served' = served
      BY <1>0, <1>6 DEF PumpUp, Next1, TypeOK
    <3>2. toServer \in Seq(ClientMsg)
      BY <1>0 DEF TypeOK
    <3> QED
      BY <1>0, <3>1, <3>2
  <2> QED
    BY <1>6, <2>1 DEF PumpUp, Wire!vars
<1>7. CASE TeeStep(PumpDown)
  BY <1>7 DEF PumpDown, Wire!Next, Wire!TakeDown
<1>8. CASE TeeStep(EndUp) \/ TeeStep(EndDown)
  BY <1>8 DEF EndUp, EndDown, wire, Wire!vars
<1>9. ASSUME NEW p \in Pumps, TeeStep(Record1(p)) PROVE UNCHANGED Wire!vars
  BY <1>9 DEF Record1, Record, PassOver, Lock, GiveUp, Number, Encode, EncodeFails, wire, Wire!vars
<1>10. CASE KeepTake \/ Curate \/ UNCHANGED allVars
  BY <1>10 DEF KeepTake, Curate, StartCurate, CurateOne, CurateStops, allVars, vars, wire, Wire!vars
<1>11. CASE Restart
  <2>1. SubSeq(toServer', 1, served') = <<>>
    BY <1>11 DEF Restart
  <2>2. srv # "up"
    <3>1. Len(takes) = sessions
      BY <1>0, <1>11 DEF Restart, WireInv, TypeOK
    <3> QED
      BY <1>0, <3>1 DEF WireInv, Ended
  <2> QED
    BY <1>11, <2>1, <2>2 DEF Restart, Wire!Next, Wire!Reconnect
<1> QED
  BY <1>1, <1>2, <1>3, <1>4, <1>5, <1>6, <1>7, <1>8, <1>9, <1>10, <1>11 DEF CorpusNext, Tee

(***************************************************************************)
(* With ipm-rpc-tee in between, an editor and a server see two pipes: what *)
(* one receives is what the other said, in order, and the server sees the  *)
(* end of its input only after all of it, whatever becomes of the capture. *)
(***************************************************************************)
THEOREM WireSafety == CorpusSpec => Wire!Init /\ [][Wire!Next]_(Wire!vars)
<1>1. CorpusInit => Wire!Init
  BY WireStart
<1>2. TeeInv /\ [CorpusNext]_allVars => [Wire!Next]_(Wire!vars)
  BY WireSteps
<1> QED
  BY <1>1, <1>2, TeeInvariant, PTL DEF CorpusSpec
=============================================================================
