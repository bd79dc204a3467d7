------------------------ MODULE MetadataStream_proofs ------------------------
(***************************************************************************)
(* Proofs about MetadataStream, for every value of its constants.          *)
(***************************************************************************)
EXTENDS MetadataStream, SequenceTheorems, TLAPS

----------------------------------------------------------------------------
(* Sequences.                                                              *)

\* A prefix of a sequence is a sequence over the same set, and precedes it.
LEMMA PrefixOf ==
  ASSUME NEW S, NEW q \in Seq(S), NEW p \in Prefixes(q)
  PROVE  p \in Seq(S) /\ Precedes(p, q)
<1>1. PICK k \in 0..Len(q) : p = SubSeq(q, 1, k)
  BY DEF Prefixes
<1>2. \A i \in 1..k : q[i] \in S
  BY <1>1, ElementOfSeq
<1>3. p \in Seq(S) /\ Len(p) = k /\ \A i \in 1..k : p[i] = q[i]
  BY <1>1, <1>2, SubSeqProperties
<1> QED BY <1>1, <1>3 DEF Precedes

\* The hand of the iterator or of the handler is a sequence of records.
LEMMA HandIsSeq == ASSUME NEW S, NEW h \in AtMostOne(S) PROVE h \in Seq(S)
<1>1. CASE h = <<>>
  BY <1>1, EmptySeq
<1>2. ASSUME NEW x \in S, h = <<x>>
      PROVE  h \in Seq(S)
  BY <1>2
<1> QED BY <1>1, <1>2 DEF AtMostOne

\* Precedes is reflexive, and stable when the longer sequence grows.
LEMMA PrecedesGrows ==
  ASSUME NEW S, NEW a \in Seq(S), NEW b \in Seq(S), NEW x \in S
  PROVE  Precedes(a, a) /\ (Precedes(a, b) => Precedes(a, Append(b, x)))
<1>1. Len(Append(b, x)) = Len(b) + 1 /\ \A i \in 1..Len(b) : Append(b, x)[i] = b[i]
  BY AppendProperties
<1>2. Len(a) \in Nat /\ Len(b) \in Nat
  BY LenProperties
<1> QED BY <1>1, <1>2 DEF Precedes

\* What is cut off the end of a sequence that precedes another leaves one that
\* still does.
LEMMA PrecedesCut ==
  ASSUME NEW S, NEW a \in Seq(S), NEW q \in Seq(S), NEW p \in Seq(S),
         NEW b \in Seq(S), Precedes(a \o q, b), Precedes(p, q)
  PROVE  Precedes(a \o p, b)
<1>1. /\ Len(a \o q) = Len(a) + Len(q)
      /\ \A i \in 1 .. Len(a) + Len(q) :
           (a \o q)[i] = IF i <= Len(a) THEN a[i] ELSE q[i - Len(a)]
  BY ConcatProperties
<1>2. /\ Len(a \o p) = Len(a) + Len(p)
      /\ \A i \in 1 .. Len(a) + Len(p) :
           (a \o p)[i] = IF i <= Len(a) THEN a[i] ELSE p[i - Len(a)]
  BY ConcatProperties
<1>3. Len(a) \in Nat /\ Len(p) \in Nat /\ Len(q) \in Nat /\ Len(b) \in Nat
  BY LenProperties
<1>4. Len(p) <= Len(q) /\ \A i \in 1..Len(p) : p[i] = q[i]
  BY DEF Precedes
<1>5. ASSUME NEW i \in 1..Len(a \o p) PROVE (a \o p)[i] = b[i]
  <2>1. i \in 1..Len(a) + Len(q) /\ i \in 1..Len(a) + Len(p)
    BY <1>2, <1>3, <1>4
  <2>2. (a \o q)[i] = b[i]
    BY <2>1, <1>1 DEF Precedes
  <2>3. (a \o p)[i] = (a \o q)[i]
    <3>1. CASE i <= Len(a)
      BY <3>1, <2>1, <1>1, <1>2
    <3>2. CASE ~(i <= Len(a))
      <4>1. i - Len(a) \in 1..Len(p)
        BY <3>2, <2>1, <1>3
      <4> QED BY <3>2, <4>1, <2>1, <1>1, <1>2, <1>4
    <3> QED BY <3>1, <3>2
  <2> QED BY <2>2, <2>3
<1>6. Len(a \o p) <= Len(b)
  BY <1>1, <1>2, <1>3, <1>4 DEF Precedes
<1> QED BY <1>5, <1>6 DEF Precedes

\* The beginning of a sequence that precedes another precedes it as well.
LEMMA PrecedesFront ==
  ASSUME NEW S, NEW a \in Seq(S), NEW q \in Seq(S), NEW b \in Seq(S),
         Precedes(a \o q, b)
  PROVE  Precedes(a, b)
<1>1. <<>> \in Seq(S) /\ Precedes(<<>>, q)
  BY EmptySeq, LenProperties DEF Precedes
<1>2. Precedes(a \o <<>>, b)
  BY <1>1, PrecedesCut
<1> QED BY <1>2, ConcatEmptySeq

\* Taking the head of a queue into an empty hand moves nothing.
LEMMA TakeHead ==
  ASSUME NEW S, NEW a \in Seq(S), NEW q \in Seq(S), q # <<>>
  PROVE  /\ Head(q) \in S /\ Tail(q) \in Seq(S) /\ <<Head(q)>> \in Seq(S)
         /\ (a \o <<Head(q)>>) \o Tail(q) = (a \o <<>>) \o q
<1>1. Head(q) \in S /\ Tail(q) \in Seq(S) /\ <<Head(q)>> \in Seq(S)
  BY HeadTailProperties
<1>2. <<Head(q)>> \o Tail(q) = q
  <2> DEFINE h == <<Head(q)>>
  <2>1. Len(h) = 1 /\ h[1] = q[1]
    OBVIOUS
  <2>2. /\ Len(Tail(q)) = Len(q) - 1
        /\ \A i \in 1 .. Len(Tail(q)) : Tail(q)[i] = q[i + 1]
    BY HeadTailProperties
  <2>3. /\ h \o Tail(q) \in Seq(S)
        /\ Len(h \o Tail(q)) = Len(h) + Len(Tail(q))
        /\ \A i \in 1 .. Len(h) + Len(Tail(q)) :
             (h \o Tail(q))[i] = IF i <= Len(h) THEN h[i] ELSE Tail(q)[i - Len(h)]
    BY <1>1, ConcatProperties
  <2>4. Len(q) \in Nat /\ Len(q) >= 1
    BY EmptySeq, LenProperties
  <2>5. Len(h \o Tail(q)) = Len(q)
    BY <2>1, <2>2, <2>3, <2>4
  <2> HIDE DEF h
  <2>6. ASSUME NEW i \in 1..Len(q) PROVE (h \o Tail(q))[i] = q[i]
    <3>1. CASE i = 1
      BY <3>1, <2>1, <2>2, <2>3, <2>4
    <3>2. CASE i # 1
      <4>1. i - 1 \in 1..Len(Tail(q)) /\ ~(i <= Len(h))
        BY <3>2, <2>1, <2>2, <2>4
      <4> QED BY <4>1, <2>1, <2>2, <2>3, <2>4
    <3> QED BY <3>1, <3>2
  <2> QED BY <2>3, <2>5, <2>6, SeqEqual DEF h
<1>3. (a \o <<Head(q)>>) \o Tail(q) = a \o (<<Head(q)>> \o Tail(q))
  BY <1>1, ConcatAssociative
<1> QED BY <1>1, <1>2, <1>3, ConcatEmptySeq

\* Putting what is in the hand at the end of the queue moves nothing.
LEMMA PutHand ==
  ASSUME NEW S, NEW a \in Seq(S), NEW q \in Seq(S), NEW h \in Seq(S)
  PROVE  (a \o (q \o h)) \o <<>> = (a \o q) \o h
<1>1. q \o h \in Seq(S) /\ a \o (q \o h) \in Seq(S)
  BY ConcatProperties
<1>2. (a \o (q \o h)) \o <<>> = a \o (q \o h)
  BY <1>1, ConcatEmptySeq
<1>3. a \o (q \o h) = (a \o q) \o h
  BY ConcatAssociative, SMTT(30)
<1> QED BY <1>2, <1>3

\* What is appended to the last queue is appended to the pipeline.
LEMMA AppendToPipe ==
  ASSUME NEW S, NEW a \in Seq(S), NEW q \in Seq(S), NEW x \in S
  PROVE  a \o Append(q, x) = Append(a \o q, x)
<1>1. <<x>> \in Seq(S) /\ a \o q \in Seq(S)
  BY ConcatProperties
<1>2. Append(q, x) = q \o <<x>> /\ Append(a \o q, x) = (a \o q) \o <<x>>
  BY <1>1, AppendIsConcat
<1> QED BY <1>1, <1>2, ConcatAssociative

----------------------------------------------------------------------------
(* Type correctness.                                                       *)

\* The initial states are of the right type.
LEMMA TypeInit == Init => TypeOK
BY DEF Init, TypeOK, AtMostOne, ReturnCodes, NoMetric

USE DEF vars, clientVars, channelVars, handlerVars, driverVars, processVars

\* Every step of the client keeps the type.
LEMMA TypeClient ==
  ASSUME TypeOK, NEW s \in Sessions, ClientStep(s) \/ ApplicationCancels(s)
  PROVE  TypeOK'
<1> USE DEF TypeOK
<1>1. CASE Call(s)
  BY <1>1 DEF Call
<1>2. CASE CallFails(s)
  BY <1>2 DEF CallFails
<1>3. CASE IteratorReceives(s)
  <2>1. Head(cliQ[s]) \in Records /\ Tail(cliQ[s]) \in Seq(Records)
    BY <1>3, HeadTailProperties DEF IteratorReceives
  <2> QED BY <1>3, <2>1 DEF IteratorReceives, AtMostOne
<1>4. CASE EmitterAccepts(s)
  <2>1. emitted[s] \o itHand[s] \in Seq(Records)
    BY HandIsSeq, ConcatProperties
  <2> QED BY <1>4, <2>1 DEF EmitterAccepts, AtMostOne
<1>5. CASE EmitterAborts(s)
  BY <1>5 DEF EmitterAborts, AtMostOne, ReturnCodes, ContextErrors
<1>6. CASE IteratorEOF(s)
  BY <1>6 DEF IteratorEOF
<1>7. CASE IteratorFails(s)
  BY <1>7 DEF IteratorFails
<1>8. CASE ApplicationCancels(s)
  BY <1>8, PrefixOf DEF ApplicationCancels, ReturnCodes, ContextErrors
<1> QED
  BY <1>1, <1>2, <1>3, <1>4, <1>5, <1>6, <1>7, <1>8
  DEF ClientStep, getAllocatedBlocks, getChangedBlocks

\* Every step of a handler keeps the type.
LEMMA TypeHandler ==
  ASSUME TypeOK, NEW s \in Sessions,
         HandlerStep(s) \/ ConvertPanics(s) \/ HandlerTimeout(s)
  PROVE  TypeOK'
<1> USE DEF TypeOK, ReturnCodes, ContextErrors
<1>1. ASSUME NEW from, NEW to \in {"validate", "authorize", "ready", "convert",
                                   "call", "recv", "send"},
             NEW code \in ReturnCodes,
             Proceed(s, from, to) \/ Return(s, from, code), UnchangedByChecks
      PROVE  TypeOK'
  <2>1. CASE Proceed(s, from, to)
    BY <1>1, <2>1 DEF Proceed, UnchangedByChecks
  <2>2. CASE Return(s, from, code)
    BY <1>1, <2>2 DEF Return, UnchangedByChecks
  <2> QED BY <1>1, <2>1, <2>2
<1>2. CASE Validate(s)
  BY <1>1, <1>2 DEF Validate
<1>3. CASE AuthenticateAndAuthorize(s)
  BY <1>1, <1>3 DEF AuthenticateAndAuthorize
<1>4. CASE IsCSIDriverReady(s)
  BY <1>1, <1>4 DEF IsCSIDriverReady
<1>5. CASE ConvertRequest(s)
  BY <1>1, <1>5 DEF ConvertRequest
<1>6. CASE CallDriver(s)
  BY <1>6 DEF CallDriver, Proceed
<1>7. CASE CallDriverFails(s)
  BY <1>7 DEF CallDriverFails, Return, UnchangedByChecks
<1>8. CASE ReceiveFromDriver(s)
  <2>1. Head(csiQ[s]) \in Records /\ Tail(csiQ[s]) \in Seq(Records)
    BY <1>8, HeadTailProperties DEF ReceiveFromDriver
  <2> QED BY <1>8, <2>1 DEF ReceiveFromDriver, Proceed, AtMostOne
<1>9. CASE ReceiveEOF(s)
  BY <1>1, <1>9 DEF ReceiveEOF
<1>10. CASE ReceiveError(s)
  <2>1. StatusPassOrWrapError(csiEnd[s]) \in ReturnCodes
    BY <1>10, CodesAssumption
    DEF ReceiveError, StatusPassOrWrapError, DriverCodes
  <2> QED BY <1>1, <1>10, <2>1 DEF ReceiveError
<1>11. CASE SendToClient(s)
  <2>1. cliQ[s] \o hand[s] \in Seq(Records)
    BY HandIsSeq, ConcatProperties
  <2> QED BY <1>11, <2>1 DEF SendToClient, Proceed, AtMostOne
<1>12. CASE SendFails(s)
  BY <1>12 DEF SendFails, Return, AtMostOne
<1>13. CASE Finish(s)
  BY <1>13 DEF Finish, RecordMetricsWithLabels, OperationName
<1>14. CASE ConvertPanics(s)
  BY <1>14 DEF ConvertPanics
<1>15. CASE HandlerTimeout(s)
  BY <1>15 DEF HandlerTimeout
<1> QED
  BY <1>2, <1>3, <1>4, <1>5, <1>6, <1>7, <1>8, <1>9, <1>10, <1>11, <1>12, <1>13,
     <1>14, <1>15
  DEF HandlerStep, streamGetMetadataAllocatedResponse,
      streamGetMetadataDeltaResponse, Relay

\* Every step of the network, the driver and the process keeps the type.
LEMMA TypeRest ==
  ASSUME TypeOK,
         \/ \E s \in Sessions : NetworkStep(s) \/ DriverStep(s)
         \/ SidecarStep
  PROVE  TypeOK'
<1> USE DEF TypeOK, ReturnCodes, ContextErrors
<1>1. ASSUME NEW s \in Sessions, NetworkStep(s) PROVE TypeOK'
  <2>1. CASE ResetArrives(s)
    BY <2>1 DEF ResetArrives
  <2>2. CASE ConnectionBreaks(s)
    BY <2>2, PrefixOf DEF ConnectionBreaks
  <2>3. CASE ContextClosesStream(s)
    BY <2>3, PrefixOf DEF ContextClosesStream
  <2>4. CASE LostConnectionClosesStream(s)
    BY <2>4, PrefixOf DEF LostConnectionClosesStream
  <2>5. CASE DriverStops(s)
    BY <2>5 DEF DriverStops
  <2> QED BY <1>1, <2>1, <2>2, <2>3, <2>4, <2>5 DEF NetworkStep
<1>2. ASSUME NEW s \in Sessions, DriverStep(s) PROVE TypeOK'
  <2>1. CASE DriverSends(s)
    BY <2>1, AppendProperties DEF DriverSends
  <2>2. CASE DriverEnds(s)
    BY <2>2 DEF DriverEnds
  <2> QED BY <1>2, <2>1, <2>2 DEF DriverStep
<1>3. ASSUME SidecarStep PROVE TypeOK'
  BY <1>3 DEF SidecarStep, ProcessStep, CSIDriverIsReady, StartupFails,
     ShuttingDown, GracefulStop, GracefulStopReturns, DriverConnectionLost,
     ExitOnConnectionLoss, Killed
<1> QED BY <1>1, <1>2, <1>3

\* Every step, and stuttering, keeps the type.
LEMMA TypeStep == TypeOK /\ [Next]_vars => TypeOK'
<1> SUFFICES ASSUME TypeOK, [Next]_vars PROVE TypeOK'
  OBVIOUS
<1>1. CASE UNCHANGED vars
  BY <1>1 DEF TypeOK
<1>2. CASE Next
  BY <1>1, <1>2, TypeClient, TypeHandler, TypeRest DEF Next, Quiescent
<1> QED BY <1>1, <1>2

\* The state of the sidecar, its handlers and its clients is always well typed.
THEOREM TypeCorrect == Spec => []TypeOK
<1>1. Init => TypeOK
  BY TypeInit
<1>2. TypeOK /\ [Next]_vars => TypeOK'
  BY TypeStep
<1> QED BY <1>1, <1>2, PTL DEF Spec

----------------------------------------------------------------------------
(* The records in the pipeline.                                            *)

SessionInv(s) == ControlInv(s) /\ DataInv(s)

\* A step that touches neither the iterator, the queues, the handler's hand and
\* place, nor the driver's side of a call.
SameAt(s) ==
  /\ it'[s] = it[s] /\ itHand'[s] = itHand[s]
  /\ recordNum'[s] = recordNum[s] /\ emitted'[s] = emitted[s]
  /\ cliQ'[s] = cliQ[s] /\ cliEnd'[s] = cliEnd[s]
  /\ pc'[s] = pc[s] /\ hand'[s] = hand[s] /\ ret'[s] = ret[s]
  /\ strDone'[s] = strDone[s]
  /\ csiQ'[s] = csiQ[s] /\ csiEnd'[s] = csiEnd[s]
  /\ drv'[s] = drv[s] /\ sent'[s] = sent[s]

\* Such a step leaves the call's invariant as it was.
LEMMA Frame ==
  ASSUME NEW s \in Sessions, SameAt(s), SessionInv(s)
  PROVE  SessionInv(s)'
BY DEF SameAt, SessionInv, ControlInv, DataInv, Delivered, Pipeline

\* The parts of the pipeline are sequences of records.
LEMMA Parts ==
  ASSUME TypeOK, NEW s \in Sessions
  PROVE  /\ emitted[s] \in Seq(Records) /\ itHand[s] \in Seq(Records)
         /\ cliQ[s] \in Seq(Records) /\ hand[s] \in Seq(Records)
         /\ csiQ[s] \in Seq(Records) /\ sent[s] \in Seq(Records)
         /\ emitted[s] \o itHand[s] \in Seq(Records)
         /\ Delivered(s) \in Seq(Records)
         /\ Delivered(s) \o hand[s] \in Seq(Records)
         /\ Pipeline(s) \in Seq(Records)
<1>1. /\ emitted[s] \in Seq(Records) /\ cliQ[s] \in Seq(Records)
      /\ csiQ[s] \in Seq(Records) /\ sent[s] \in Seq(Records)
      /\ itHand[s] \in AtMostOne(Records) /\ hand[s] \in AtMostOne(Records)
  BY DEF TypeOK
<1>2. itHand[s] \in Seq(Records) /\ hand[s] \in Seq(Records)
  BY <1>1, HandIsSeq
<1> QED BY <1>1, <1>2, ConcatProperties DEF Delivered, Pipeline

\* The invariant holds before the first call.
LEMMA StreamInit == Init => StreamInv
<1> SUFFICES ASSUME Init, NEW s \in Sessions PROVE SessionInv(s)
  BY DEF StreamInv, SessionInv
<1>1. Delivered(s) = <<>> /\ Pipeline(s) = <<>> /\ sent[s] = <<>>
  BY ConcatEmptySeq, EmptySeq DEF Init, Delivered, Pipeline
<1>2. Precedes(<<>>, <<>>)
  BY DEF Precedes
<1> QED BY <1>1, <1>2 DEF Init, SessionInv, ControlInv, DataInv

\* The steps of one client on its own call.
LEMMA ClientInv ==
  ASSUME TypeOK, TypeOK', NEW s \in Sessions, SessionInv(s),
         ClientStep(s) \/ ApplicationCancels(s)
  PROVE  SessionInv(s)'
<1> USE Parts DEF SessionInv
<1> DEFINE Rest == hand'[s] = hand[s] /\ ret'[s] = ret[s] /\ pc'[s] = pc[s]
                   /\ strDone'[s] = strDone[s] /\ csiQ'[s] = csiQ[s]
                   /\ csiEnd'[s] = csiEnd[s] /\ drv'[s] = drv[s]
                   /\ sent'[s] = sent[s]
<1>1. CASE Call(s)
  <2>1. Delivered(s)' = Delivered(s) /\ Pipeline(s)' = Pipeline(s)
    BY <1>1 DEF Call, Delivered, Pipeline
  <2> QED BY <1>1, <2>1 DEF Call, ControlInv, DataInv, TypeOK
<1>2. CASE CallFails(s)
  <2>1. Delivered(s)' = Delivered(s) /\ Pipeline(s)' = Pipeline(s)
    BY <1>2 DEF CallFails, Delivered, Pipeline
  <2> QED BY <1>2, <2>1 DEF CallFails, ControlInv, DataInv, TypeOK
<1>3. CASE IteratorReceives(s)
  <2>1. itHand[s] = <<>>
    BY <1>3 DEF IteratorReceives, ControlInv
  <2>2. /\ emitted'[s] = emitted[s] /\ itHand'[s] = <<Head(cliQ[s])>>
        /\ cliQ'[s] = Tail(cliQ[s]) /\ Rest
    BY <1>3 DEF IteratorReceives, TypeOK
  <2>3. Delivered(s)' = Delivered(s)
    <3>1. (emitted[s] \o <<Head(cliQ[s])>>) \o Tail(cliQ[s])
            = (emitted[s] \o <<>>) \o cliQ[s]
      <4>1. /\ cliQ[s] # <<>> /\ cliQ[s] \in Seq(Records)
            /\ emitted[s] \in Seq(Records)
        BY <1>3 DEF IteratorReceives
      <4> QED BY ONLY <4>1, TakeHead
    <3> QED BY <3>1, <2>1, <2>2 DEF Delivered
  <2>4. Pipeline(s)' = Pipeline(s)
    BY <2>2, <2>3 DEF Pipeline
  <2>5. Len(itHand[s]) = 0 /\ Len(itHand'[s]) = 1 /\ Len(emitted[s]) \in Nat
    BY <2>1, <2>2, LenProperties
  <2>6. it'[s] = "emit" /\ recordNum'[s] = recordNum[s] + 1 /\ cliEnd'[s] = cliEnd[s]
    BY <1>3 DEF IteratorReceives, TypeOK
  <2>7. ControlInv(s)'
    <3>1. recordNum'[s] = Len(emitted'[s]) + Len(itHand'[s])
      <4>1. recordNum[s] = Len(emitted[s]) + Len(itHand[s])
        BY <1>3 DEF IteratorReceives, ControlInv
      <4>2. Len(emitted'[s]) = Len(emitted[s])
        BY <2>2
      <4>3. recordNum'[s] = Len(emitted[s]) + 1
        <5>1. Len(emitted[s]) + Len(itHand[s]) = Len(emitted[s])
          BY ONLY <2>5
        <5>2. recordNum[s] = Len(emitted[s])
          BY ONLY <4>1, <5>1
        <5> QED BY ONLY <5>2, <2>6
      <4> QED BY ONLY <4>2, <4>3, <2>5
    <3> QED BY <1>3, <2>2, <2>3, <2>6, <3>1 DEF IteratorReceives, ControlInv
  <2>8. DataInv(s)'
    BY <1>3, <2>2, <2>3, <2>4, <2>6 DEF IteratorReceives, DataInv
  <2> QED BY <2>7, <2>8
<1>4. CASE EmitterAccepts(s)
  <2>1. /\ emitted'[s] = emitted[s] \o itHand[s] /\ itHand'[s] = <<>>
        /\ cliQ'[s] = cliQ[s] /\ Rest
        /\ it'[s] = "recv" /\ recordNum'[s] = recordNum[s] /\ cliEnd'[s] = cliEnd[s]
    BY <1>4 DEF EmitterAccepts, TypeOK
  <2>2. Delivered(s)' = Delivered(s)
    BY <2>1, ConcatEmptySeq DEF Delivered
  <2>3. Pipeline(s)' = Pipeline(s)
    BY <2>1, <2>2 DEF Pipeline
  <2>4. Len(emitted'[s]) = Len(emitted[s]) + Len(itHand[s]) /\ Len(itHand'[s]) = 0
    <3>1. Len(emitted[s] \o itHand[s]) = Len(emitted[s]) + Len(itHand[s])
      BY ConcatProperties
    <3> QED BY <2>1, <3>1
  <2>5. ControlInv(s)'
    <3>1. recordNum'[s] = Len(emitted'[s]) + Len(itHand'[s])
      <4>1. recordNum[s] = Len(emitted[s]) + Len(itHand[s])
        BY <1>4 DEF EmitterAccepts, ControlInv
      <4>2. recordNum[s] \in Nat
        BY DEF TypeOK
      <4> QED BY <4>1, <4>2, <2>1, <2>4
    <3> QED BY <1>4, <2>1, <2>2, <3>1 DEF EmitterAccepts, ControlInv
  <2>6. DataInv(s)'
    BY <1>4, <2>1, <2>2, <2>3 DEF EmitterAccepts, DataInv
  <2> QED BY <2>5, <2>6
<1>5. CASE EmitterAborts(s)
  <2>1. /\ emitted'[s] = emitted[s] /\ itHand'[s] = <<>> /\ cliQ'[s] = <<>>
        /\ Rest /\ it'[s] = "failed"
        /\ cliEnd'[s] = IF cliEnd[s] = "open" THEN "Canceled" ELSE cliEnd[s]
    BY <1>5 DEF EmitterAborts, TypeOK
  <2>2. Delivered(s)' = emitted[s]
    BY <2>1, ConcatEmptySeq DEF Delivered
  <2>3. Precedes(emitted[s], sent[s])
    BY PrecedesFront DEF Delivered, DataInv
  <2>4. ControlInv(s)'
    <3>1. it[s] = "emit"
      BY <1>5 DEF EmitterAborts
    <3> QED BY <2>1, <2>2, <3>1 DEF ControlInv
  <2>5. DataInv(s)'
    BY <1>5, <2>1, <2>2, <2>3 DEF EmitterAborts, DataInv, ControlInv
  <2> QED BY <2>4, <2>5
<1>6. CASE IteratorEOF(s)
  <2>1. Delivered(s)' = Delivered(s) /\ Pipeline(s)' = Pipeline(s)
    BY <1>6 DEF IteratorEOF, Delivered, Pipeline
  <2> QED BY <1>6, <2>1 DEF IteratorEOF, ControlInv, DataInv, TypeOK
<1>7. CASE IteratorFails(s)
  <2>1. Delivered(s)' = Delivered(s) /\ Pipeline(s)' = Pipeline(s)
    BY <1>7 DEF IteratorFails, Delivered, Pipeline
  <2> QED BY <1>7, <2>1 DEF IteratorFails, ControlInv, DataInv, TypeOK
<1>8. CASE ApplicationCancels(s)
  <2>1. /\ emitted'[s] = emitted[s] /\ itHand'[s] = itHand[s]
        /\ Rest /\ it'[s] = it[s] /\ recordNum'[s] = recordNum[s]
        /\ cliQ'[s] \in Prefixes(cliQ[s]) /\ cliEnd'[s] = "Canceled"
    BY <1>8 DEF ApplicationCancels, TypeOK
  <2>2. cliQ'[s] \in Seq(Records) /\ Precedes(cliQ'[s], cliQ[s])
    BY <2>1, PrefixOf
  <2>3. Precedes(Delivered(s)', sent[s])
    BY <2>1, <2>2, PrecedesCut DEF Delivered, DataInv
  <2>4. ControlInv(s)'
    BY <1>8, <2>1 DEF ApplicationCancels, ControlInv
  <2>5. DataInv(s)'
    BY <1>8, <2>1, <2>3 DEF ApplicationCancels, DataInv
  <2> QED BY <2>4, <2>5
<1> QED
  BY <1>1, <1>2, <1>3, <1>4, <1>5, <1>6, <1>7, <1>8
  DEF ClientStep, getAllocatedBlocks, getChangedBlocks

\* The steps of one handler on its own call.
LEMMA HandlerInv ==
  ASSUME TypeOK, TypeOK', NEW s \in Sessions, SessionInv(s), HandlerStep(s)
  PROVE  SessionInv(s)'
<1> USE Parts DEF SessionInv
<1>1. ASSUME NEW from, NEW to, NEW code, code # "OK",
             from \in {"validate", "authorize", "ready", "convert", "call", "recv"},
             to \in {"authorize", "ready", "convert", "call"},
             (Proceed(s, from, to) /\ from # "call" /\ from # "recv") \/ Return(s, from, code),
             UnchangedByChecks
      PROVE  SessionInv(s)'
  <2>1. Delivered(s)' = Delivered(s) /\ Pipeline(s)' = Pipeline(s)
    BY <1>1 DEF UnchangedByChecks, Delivered, Pipeline
  <2>2. DataInv(s)'
    BY <1>1, <2>1 DEF UnchangedByChecks, DataInv
  <2>3. pc[s] = from /\ pc'[s] \in {to, "finish"} /\ (pc'[s] = "finish" => ret'[s] # "OK")
        /\ (pc'[s] = to \/ pc'[s] = "finish")
    BY <1>1 DEF Proceed, Return, TypeOK
  <2>4. (from = "recv" \/ from = "call") => pc'[s] = "finish"
    BY <1>1 DEF Proceed, Return, TypeOK
  <2>5. ControlInv(s)'
    BY <1>1, <2>1, <2>3, <2>4 DEF UnchangedByChecks, ControlInv
  <2> QED BY <2>2, <2>5
<1>2. CASE Validate(s)
  BY <1>1, <1>2 DEF Validate
<1>3. CASE AuthenticateAndAuthorize(s)
  BY <1>1, <1>3 DEF AuthenticateAndAuthorize
<1>4. CASE IsCSIDriverReady(s)
  BY <1>1, <1>4 DEF IsCSIDriverReady
<1>5. CASE ConvertRequest(s)
  BY <1>1, <1>5 DEF ConvertRequest
<1>6. CASE CallDriver(s)
  <2>1. Delivered(s)' = Delivered(s) /\ Pipeline(s)' = Pipeline(s)
    BY <1>6 DEF CallDriver, Delivered, Pipeline
  <2>2. pc'[s] = "recv" /\ csiEnd'[s] = "open" /\ drv'[s] = "streaming"
    BY <1>6 DEF CallDriver, Proceed, TypeOK
  <2>3. pc[s] = "call" /\ csiEnd[s] = "none" /\ drv[s] = "idle"
    BY <1>6 DEF CallDriver, Proceed, ControlInv
  <2>4. cliEnd[s] # "OK" \/ drv[s] = "OK"
    BY DEF DataInv
  <2>5. DataInv(s)'
    BY <1>6, <2>1, <2>2, <2>3, <2>4 DEF CallDriver, DataInv
  <2>6. ControlInv(s)'
    BY <1>6, <2>1, <2>2, <2>3 DEF CallDriver, Proceed, ControlInv
  <2> QED BY <2>5, <2>6
<1>7. CASE CallDriverFails(s)
  <2>1. ctxErr[s] # "OK"
    BY DEF TypeOK, ContextErrors
  <2> QED BY <1>1, <1>7, <2>1 DEF CallDriverFails
<1>8. CASE ReceiveFromDriver(s)
  <2>1. hand[s] = <<>>
    BY <1>8 DEF ReceiveFromDriver, Proceed, ControlInv
  <2>2. /\ hand'[s] = <<Head(csiQ[s])>> /\ csiQ'[s] = Tail(csiQ[s])
        /\ pc[s] = "recv" /\ pc'[s] = "send"
    BY <1>8 DEF ReceiveFromDriver, Proceed, TypeOK
  <2>3. Delivered(s)' = Delivered(s)
    BY <1>8 DEF ReceiveFromDriver, Delivered
  <2>4. Pipeline(s)' = Pipeline(s)
    <3>1. (Delivered(s) \o <<Head(csiQ[s])>>) \o Tail(csiQ[s])
            = (Delivered(s) \o <<>>) \o csiQ[s]
      <4>1. /\ csiQ[s] # <<>> /\ csiQ[s] \in Seq(Records)
            /\ Delivered(s) \in Seq(Records)
        BY <1>8 DEF ReceiveFromDriver
      <4> QED BY ONLY <4>1, TakeHead
    <3> QED BY <3>1, <2>1, <2>2, <2>3 DEF Pipeline
  <2>5. DataInv(s)'
    BY <1>8, <2>3, <2>4 DEF ReceiveFromDriver, DataInv
  <2>6. csiEnd[s] # "none"
    BY <2>2 DEF ControlInv
  <2>7. ControlInv(s)'
    BY <1>8, <2>2, <2>3, <2>6 DEF ReceiveFromDriver, ControlInv
  <2> QED BY <2>5, <2>7
<1>9. CASE ReceiveEOF(s)
  <2>1. Delivered(s)' = Delivered(s) /\ Pipeline(s)' = Pipeline(s)
    BY <1>9 DEF ReceiveEOF, UnchangedByChecks, Delivered, Pipeline
  <2>2. pc[s] = "recv" /\ pc'[s] = "finish"
    BY <1>9 DEF ReceiveEOF, Return, TypeOK
  <2>3. DataInv(s)'
    BY <1>9, <2>1 DEF ReceiveEOF, UnchangedByChecks, DataInv
  <2>4. ControlInv(s)'
    BY <1>9, <2>1, <2>2 DEF ReceiveEOF, UnchangedByChecks, ControlInv
  <2> QED BY <2>3, <2>4
<1>10. CASE ReceiveError(s)
  <2>1. StatusPassOrWrapError(csiEnd[s]) # "OK"
    BY <1>10 DEF ReceiveError, StatusPassOrWrapError
  <2> QED BY <1>1, <1>10, <2>1 DEF ReceiveError
<1>11. CASE SendToClient(s)
  <2>1. /\ hand'[s] = <<>> /\ pc[s] = "send" /\ pc'[s] = "recv"
        /\ cliQ'[s] = IF cliEnd[s] = "open" THEN cliQ[s] \o hand[s] ELSE cliQ[s]
    BY <1>11 DEF SendToClient, Proceed, TypeOK
  <2>2. csiEnd[s] # "none" /\ cliEnd[s] # "none"
    BY <2>1 DEF ControlInv
  <2>3. ControlInv(s)'
    BY <1>11, <2>1, <2>2 DEF SendToClient, ControlInv
  <2>4. CASE cliEnd[s] = "open"
    <3>1. Pipeline(s)' = Pipeline(s)
      <4>1. ((emitted[s] \o itHand[s]) \o (cliQ[s] \o hand[s])) \o <<>>
               = ((emitted[s] \o itHand[s]) \o cliQ[s]) \o hand[s]
        <5>1. \A a, q, h \in Seq(Records) : (a \o (q \o h)) \o <<>> = (a \o q) \o h
          BY ONLY PutHand
        <5>2. /\ emitted[s] \o itHand[s] \in Seq(Records)
              /\ cliQ[s] \in Seq(Records) /\ hand[s] \in Seq(Records)
          OBVIOUS
        <5> QED BY ONLY <5>1, <5>2, Zenon
      <4> QED BY <4>1, <1>11, <2>1, <2>4 DEF SendToClient, Delivered, Pipeline
    <3>2. Delivered(s)' \in Seq(Records) /\ hand'[s] \in Seq(Records)
          /\ csiQ'[s] \in Seq(Records) /\ Delivered(s)' \o hand'[s] = Delivered(s)'
      <4>1. Delivered(s)' = (emitted[s] \o itHand[s]) \o (cliQ[s] \o hand[s])
        BY <1>11, <2>1, <2>4 DEF SendToClient, Delivered
      <4>2. Delivered(s)' \in Seq(Records)
        BY <4>1, ConcatProperties
      <4>3. csiQ'[s] \in Seq(Records)
        BY <1>11 DEF SendToClient
      <4> QED BY <2>1, <4>2, <4>3, ConcatEmptySeq, EmptySeq
    <3>3. Precedes(Pipeline(s)', sent[s])
      BY <3>1, <2>4 DEF DataInv
    <3>4. Precedes(Delivered(s)', sent[s])
      <4>1. Pipeline(s)' = Delivered(s)' \o csiQ'[s]
        BY <3>2 DEF Pipeline
      <4> QED BY <4>1, <3>2, <3>3, PrecedesFront
    <3>5. it[s] # "done"
      BY <2>4 DEF ControlInv
    <3> QED BY <1>11, <2>3, <2>4, <3>1, <3>3, <3>4, <3>5 DEF SendToClient, DataInv
  <2>5. CASE cliEnd[s] # "open"
    <3>1. Delivered(s)' = Delivered(s)
      BY <1>11, <2>1, <2>5 DEF SendToClient, Delivered
    <3> QED BY <1>11, <2>1, <2>2, <2>3, <2>5, <3>1 DEF SendToClient, DataInv
  <2> QED BY <2>4, <2>5
<1>12. CASE SendFails(s)
  <2>1. cliEnd[s] = "Canceled"
    BY <1>12 DEF SendFails, ControlInv
  <2>2. Delivered(s)' = Delivered(s)
    BY <1>12 DEF SendFails, Delivered
  <2>3. hand'[s] = <<>> /\ pc[s] = "send" /\ pc'[s] = "finish" /\ ret'[s] = "Canceled"
    BY <1>12 DEF SendFails, Return, TypeOK
  <2>4. DataInv(s)'
    BY <1>12, <2>1, <2>2 DEF SendFails, DataInv
  <2>5. ControlInv(s)'
    BY <1>12, <2>1, <2>2, <2>3 DEF SendFails, ControlInv
  <2> QED BY <2>4, <2>5
<1>13. CASE Finish(s)
  <2>1. Delivered(s)' = Delivered(s) /\ Pipeline(s)' = Pipeline(s)
    BY <1>13 DEF Finish, Delivered, Pipeline
  <2>2. /\ pc[s] = "finish" /\ pc'[s] = "done" /\ cliEnd[s] # "none"
        /\ cliEnd'[s] = IF cliEnd[s] = "open" THEN ret[s] ELSE cliEnd[s]
        /\ ret[s] \in ReturnCodes
    BY <1>13 DEF Finish, TypeOK, ControlInv
  <2>3. ASSUME cliEnd[s] = "open", ret[s] = "OK"
        PROVE  drv[s] = "OK" /\ Delivered(s) = sent[s]
    <3>1. csiEnd[s] = "OK" /\ csiQ[s] = <<>> /\ hand[s] = <<>> /\ drv[s] = "OK"
      BY <2>2, <2>3 DEF ControlInv
    <3>2. Pipeline(s) = Delivered(s)
      BY <3>1, ConcatEmptySeq DEF Pipeline
    <3>3. Pipeline(s) = sent[s]
      BY <3>1, <2>3 DEF DataInv
    <3> QED BY <3>1, <3>2, <3>3
  <2>4. cliEnd'[s] \notin {"none", "open"}
    BY <2>2 DEF ReturnCodes, ContextErrors
  <2>5. DataInv(s)'
    BY <1>13, <2>1, <2>2, <2>3, <2>4 DEF Finish, DataInv
  <2>6. ControlInv(s)'
    BY <1>13, <2>1, <2>2, <2>4 DEF Finish, ControlInv
  <2> QED BY <2>5, <2>6
<1> QED
  BY <1>2, <1>3, <1>4, <1>5, <1>6, <1>7, <1>8, <1>9, <1>10, <1>11, <1>12, <1>13
  DEF HandlerStep, streamGetMetadataAllocatedResponse,
      streamGetMetadataDeltaResponse, Relay

\* The steps of the network and of the driver on one call.
LEMMA StreamEndsInv ==
  ASSUME TypeOK, TypeOK', NEW s \in Sessions, SessionInv(s),
         NetworkStep(s) \/ DriverStep(s) \/ HandlerTimeout(s)
  PROVE  SessionInv(s)'
<1> USE Parts DEF SessionInv
<1>1. CASE ResetArrives(s)
  <2>1. Delivered(s)' = Delivered(s) /\ Pipeline(s)' = Pipeline(s)
    BY <1>1 DEF ResetArrives, Delivered, Pipeline
  <2> QED BY <1>1, <2>1 DEF ResetArrives, ControlInv, DataInv
<1>2. CASE ConnectionBreaks(s)
  <2>1. /\ cliQ'[s] \in Prefixes(cliQ[s])
        /\ cliEnd'[s] = "Broken" /\ cliEnd[s] # "none" /\ cliEnd[s] # "Canceled"
    BY <1>2 DEF ConnectionBreaks, TypeOK
  <2>2. cliQ'[s] \in Seq(Records) /\ Precedes(cliQ'[s], cliQ[s])
    BY <2>1, PrefixOf
  <2>3. Delivered(s)' = (emitted[s] \o itHand[s]) \o cliQ'[s]
    BY <1>2 DEF ConnectionBreaks, Delivered
  <2>4. Precedes(Delivered(s)', sent[s])
    BY <2>2, <2>3, PrecedesCut DEF Delivered, DataInv
  <2>5. cliQ[s] = <<>> => cliQ'[s] = <<>>
    BY <2>2, EmptySeq, LenProperties DEF Precedes
  <2>6. cliQ[s] = <<>> => Delivered(s)' = Delivered(s)
    BY <2>3, <2>5 DEF Delivered
  <2>7. DataInv(s)'
    BY <1>2, <2>1, <2>4, <2>5, <2>6 DEF ConnectionBreaks, DataInv
  <2>8. ControlInv(s)'
    BY <1>2, <2>1 DEF ConnectionBreaks, ControlInv
  <2> QED BY <2>7, <2>8
<1>3. ASSUME csiEnd[s] = "open", csiEnd'[s] \notin {"none", "open", "OK"},
             csiQ'[s] \in Prefixes(csiQ[s]),
             UNCHANGED <<clientVars, channelVars, handlerVars, drv, sent>>
      PROVE  SessionInv(s)'
  <2>1. csiQ'[s] \in Seq(Records) /\ Precedes(csiQ'[s], csiQ[s])
    BY <1>3, PrefixOf
  <2>2. /\ Delivered(s)' = Delivered(s)
        /\ Pipeline(s)' = (Delivered(s) \o hand[s]) \o csiQ'[s]
    BY <1>3 DEF Delivered, Pipeline
  <2>3. Precedes(Pipeline(s), sent[s]) => Precedes(Pipeline(s)', sent[s])
    BY <2>1, <2>2, PrecedesCut DEF Pipeline
  <2>4. DataInv(s)'
    BY <1>3, <2>2, <2>3 DEF DataInv
  <2>5. ControlInv(s)'
    BY <1>3, <2>2 DEF ControlInv
  <2> QED BY <2>4, <2>5
<1>4. CASE ContextClosesStream(s)
  <2>1. ctxErr[s] \notin {"none", "open", "OK"}
    BY <1>4 DEF ContextClosesStream, TypeOK, ContextErrors
  <2> QED BY <1>3, <1>4, <2>1 DEF ContextClosesStream, TypeOK
<1>5. CASE LostConnectionClosesStream(s)
  BY <1>3, <1>5 DEF LostConnectionClosesStream, TypeOK
<1>6. CASE DriverStops(s)
  <2>1. Delivered(s)' = Delivered(s) /\ Pipeline(s)' = Pipeline(s)
    BY <1>6 DEF DriverStops, Delivered, Pipeline
  <2>2. drv[s] = "streaming"
    BY <1>6 DEF DriverStops
  <2> QED BY <1>6, <2>1, <2>2 DEF DriverStops, ControlInv, DataInv
<1>7. CASE DriverSends(s)
  <2>1. PICK r \in Records :
          /\ sent'[s] = Append(sent[s], r)
          /\ csiQ'[s] = IF csiEnd[s] = "open" THEN Append(csiQ[s], r) ELSE csiQ[s]
    BY <1>7 DEF DriverSends, TypeOK
  <2>2. drv[s] = "streaming" /\ csiEnd[s] # "none" /\ csiEnd[s] # "OK"
    BY <1>7 DEF DriverSends, ControlInv
  <2>3. Delivered(s)' = Delivered(s)
    BY <1>7 DEF DriverSends, Delivered
  <2>4. Precedes(Delivered(s)', sent'[s])
    BY <2>1, <2>3, PrecedesGrows DEF DataInv
  <2>5. csiEnd[s] = "open" => Pipeline(s)' = Append(Pipeline(s), r)
    <3>1. ASSUME csiEnd[s] = "open"
          PROVE  Pipeline(s)' = (Delivered(s) \o hand[s]) \o Append(csiQ[s], r)
      BY <1>7, <2>1, <2>3, <3>1 DEF DriverSends, Pipeline
    <3>2. (Delivered(s) \o hand[s]) \o Append(csiQ[s], r)
            = Append((Delivered(s) \o hand[s]) \o csiQ[s], r)
      <4>1. \A a, q \in Seq(Records), x \in Records :
              a \o Append(q, x) = Append(a \o q, x)
        BY AppendToPipe
      <4>2. /\ Delivered(s) \o hand[s] \in Seq(Records)
            /\ csiQ[s] \in Seq(Records)
        OBVIOUS
      <4> QED BY ONLY <2>1, <4>1, <4>2, Zenon
    <3> QED BY <3>1, <3>2 DEF Pipeline
  <2>6. csiEnd[s] # "open" => Pipeline(s)' = Pipeline(s)
    BY <1>7, <2>1, <2>3 DEF DriverSends, Pipeline
  <2>7. ASSUME cliEnd[s] \in {"none", "open"}
        PROVE  /\ Precedes(Pipeline(s)', sent'[s])
               /\ csiEnd[s] = "open" => Pipeline(s)' = sent'[s]
    <3>1. CASE csiEnd[s] = "open"
      <4>1. Pipeline(s)' = sent'[s]
        BY <2>1, <2>5, <2>7, <3>1 DEF DataInv
      <4>2. sent'[s] \in Seq(Records)
        BY <2>1, AppendProperties
      <4> QED BY <4>1, <4>2, PrecedesGrows, <2>1
    <3>2. CASE csiEnd[s] # "open"
      BY <2>1, <2>6, <2>7, <3>2, PrecedesGrows DEF DataInv
    <3> QED BY <3>1, <3>2
  <2>8. DataInv(s)'
    BY <1>7, <2>2, <2>4, <2>7 DEF DriverSends, DataInv
  <2>9. ControlInv(s)'
    BY <1>7, <2>1, <2>2, <2>3 DEF DriverSends, ControlInv
  <2> QED BY <2>8, <2>9
<1>8. CASE DriverEnds(s)
  <2>1. PICK code \in DriverCodes :
          /\ drv'[s] = code
          /\ csiEnd'[s] = IF csiEnd[s] = "open" THEN code ELSE csiEnd[s]
    BY <1>8 DEF DriverEnds, TypeOK
  <2>2. drv[s] = "streaming" /\ csiEnd[s] # "none" /\ csiEnd[s] # "OK" /\ code # "none"
    BY <1>8, CodesAssumption DEF DriverEnds, ControlInv, DriverCodes
  <2>3. Delivered(s)' = Delivered(s) /\ Pipeline(s)' = Pipeline(s)
    BY <1>8 DEF DriverEnds, Delivered, Pipeline
  <2>4. DataInv(s)'
    BY <1>8, <2>1, <2>2, <2>3 DEF DriverEnds, DataInv
  <2>5. ControlInv(s)'
    BY <1>8, <2>1, <2>2, <2>3 DEF DriverEnds, ControlInv
  <2> QED BY <2>4, <2>5
<1>9. CASE HandlerTimeout(s)
  BY <1>9, Frame DEF HandlerTimeout, SameAt
<1> QED
  BY <1>1, <1>2, <1>4, <1>5, <1>6, <1>7, <1>8, <1>9 DEF NetworkStep, DriverStep

\* Every step, of whichever call, keeps every call's invariant.
LEMMA StreamStep == TypeOK /\ StreamInv /\ [Next]_vars => StreamInv'
<1> SUFFICES ASSUME TypeOK, StreamInv, [Next]_vars, NEW t \in Sessions
             PROVE  SessionInv(t)'
  BY DEF StreamInv, SessionInv
<1>1. TypeOK'
  BY TypeStep
<1>2. \A s \in Sessions : SessionInv(s)
  BY DEF StreamInv, SessionInv
<1>3. CASE UNCHANGED vars
  BY <1>2, <1>3, Frame DEF SameAt
<1>4. ASSUME NEW s \in Sessions, ClientStep(s) \/ ApplicationCancels(s)
      PROVE  SessionInv(t)'
  <2>1. t # s => SameAt(t)
    BY <1>4 DEF SameAt, TypeOK, ClientStep, Call, CallFails, getAllocatedBlocks,
       getChangedBlocks, IteratorReceives, EmitterAccepts, EmitterAborts,
       IteratorEOF, IteratorFails, ApplicationCancels
  <2> QED BY <1>1, <1>2, <1>4, <2>1, ClientInv, Frame
<1>5. ASSUME NEW s \in Sessions, HandlerStep(s)
      PROVE  SessionInv(t)'
  <2>1. t # s => SameAt(t)
    BY <1>5 DEF SameAt, TypeOK, HandlerStep, Proceed, Return, UnchangedByChecks,
       Validate, AuthenticateAndAuthorize, IsCSIDriverReady, ConvertRequest,
       CallDriver, CallDriverFails, streamGetMetadataAllocatedResponse,
       streamGetMetadataDeltaResponse, Relay, ReceiveFromDriver, ReceiveEOF,
       ReceiveError, SendToClient, SendFails, Finish
  <2> QED BY <1>1, <1>2, <1>5, <2>1, HandlerInv, Frame
<1>6. ASSUME NEW s \in Sessions,
             NetworkStep(s) \/ DriverStep(s) \/ HandlerTimeout(s)
      PROVE  SessionInv(t)'
  <2>1. t # s => SameAt(t)
    BY <1>6 DEF SameAt, TypeOK, NetworkStep, DriverStep, HandlerTimeout,
       ResetArrives, ConnectionBreaks, ContextClosesStream,
       LostConnectionClosesStream, DriverStops, DriverSends, DriverEnds
  <2> QED BY <1>1, <1>2, <1>6, <2>1, StreamEndsInv, Frame
<1>7. ASSUME SidecarStep \/ \E s \in Sessions : ConvertPanics(s)
      PROVE  SessionInv(t)'
  <2>1. SameAt(t)
    BY <1>7 DEF SameAt, ConvertPanics, SidecarStep, ProcessStep,
       CSIDriverIsReady, StartupFails, ShuttingDown, GracefulStop,
       GracefulStopReturns, DriverConnectionLost, ExitOnConnectionLoss, Killed
  <2> QED BY <1>2, <2>1, Frame
<1> QED
  BY <1>3, <1>4, <1>5, <1>6, <1>7 DEF Next, Quiescent

\* No record is ever in two places, or in none, between driver and emitter.
THEOREM StreamInvariant == Spec => []StreamInv
<1>1. Init => TypeOK /\ StreamInv
  BY TypeInit, StreamInit
<1>2. (TypeOK /\ StreamInv) /\ [Next]_vars => (TypeOK /\ StreamInv)'
  BY TypeStep, StreamStep
<1> QED BY <1>1, <1>2, PTL DEF Spec

\* For any number of calls, any records and any buffers: what the emitter has
\* accepted is the beginning of what the driver sent.
THEOREM InOrder == Spec => []RecordsInOrder
<1>1. StreamInv => RecordsInOrder
  BY DEF StreamInv, DataInv, Delivered, RecordsInOrder
<1> QED BY <1>1, StreamInvariant, PTL

\* A call whose iterator is done has nothing left anywhere but in the emitter.
LEMMA DoneIsWhole == TypeOK /\ StreamInv => CompleteMeansWhole
<1> SUFFICES ASSUME TypeOK, StreamInv, NEW s \in Sessions, it[s] = "done"
             PROVE  /\ drv[s] = "OK"
                    /\ emitted[s] = sent[s]
                    /\ recordNum[s] = Len(sent[s])
  BY DEF CompleteMeansWhole
<1>1. itHand[s] = <<>> /\ recordNum[s] = Len(emitted[s]) + Len(itHand[s])
  BY DEF StreamInv, ControlInv
<1>2. drv[s] = "OK" /\ cliQ[s] = <<>> /\ Delivered(s) = sent[s]
  BY DEF StreamInv, DataInv
<1>3. Delivered(s) = emitted[s]
  BY <1>1, <1>2, Parts, ConcatEmptySeq DEF Delivered
<1>4. Len(emitted[s]) + Len(itHand[s]) = Len(emitted[s])
  BY <1>1, Parts, LenProperties, EmptySeq
<1> QED BY <1>1, <1>2, <1>3, <1>4

\* An enumeration that is reported complete is complete.
THEOREM NoSilentTruncation == Spec => []CompleteMeansWhole
BY TypeCorrect, StreamInvariant, DoneIsWhole, PTL

----------------------------------------------------------------------------
(* The causes of failures, and the graceful exit.                          *)

\* While a handler runs, a cancellation is the client's; whatever ended the
\* driver's stream is what the driver, or the handler's context, says.
CauseInv(s) ==
  /\ pc[s] = "none" => ctxErr[s] = "none"
  /\ pc[s] \notin {"finish", "done"} => ret[s] = "OK"
  /\ HandlerRuns(s) =>
       /\ ctxErr[s] = "Canceled" => strDone[s]
       /\ csiEnd[s] = "Canceled" => strDone[s]
  /\ csiEnd[s] = "DeadlineExceeded" => ctxErr[s] = "DeadlineExceeded"
  /\ csiEnd[s] \in {"DriverError", "Unknown"} => drv[s] = csiEnd[s]
  /\ ret[s] = "Canceled" => strDone[s]
  /\ ret[s] = "DeadlineExceeded" => ctxErr[s] = "DeadlineExceeded"
  /\ ret[s] = "DriverError" => drv[s] = "DriverError"
  /\ ret[s] = "Internal" => drv[s] = "Unknown"
CausesInv == \A s \in Sessions : CauseInv(s)

\* A step that touches none of what a call's causes depend on.
SameCause(s) ==
  /\ pc'[s] = pc[s] /\ ret'[s] = ret[s] /\ strDone'[s] = strDone[s]
  /\ ctxErr'[s] = ctxErr[s] /\ csiEnd'[s] = csiEnd[s] /\ drv'[s] = drv[s]

\* Such a step leaves them as they were.
LEMMA CauseFrame ==
  ASSUME NEW s \in Sessions, SameCause(s), CauseInv(s)
  PROVE  CauseInv(s)'
BY DEF SameCause, CauseInv, HandlerRuns

\* A client's step begins a call without a cause to fail, or touches none.
LEMMA CauseClient ==
  ASSUME TypeOK, StreamInv, NEW s \in Sessions, CauseInv(s),
         ClientStep(s) \/ ApplicationCancels(s)
  PROVE  CauseInv(s)'
<1>1. CASE Call(s)
  <2>1. pc[s] = "none" /\ csiEnd[s] = "none"
    BY <1>1 DEF Call, StreamInv, ControlInv
  <2> QED BY <1>1, <2>1 DEF Call, CauseInv, HandlerRuns, TypeOK
<1>2. CASE ~Call(s)
  <2>1. SameCause(s)
    BY <1>2 DEF SameCause, ClientStep, CallFails, getAllocatedBlocks,
       getChangedBlocks, IteratorReceives, EmitterAccepts, EmitterAborts,
       IteratorEOF, IteratorFails, ApplicationCancels
  <2> QED BY <2>1, CauseFrame
<1> QED BY <1>1, <1>2

\* A handler returns what its context, its client or the driver gave it.
LEMMA CauseHandler ==
  ASSUME TypeOK, NEW s \in Sessions, CauseInv(s), HandlerStep(s)
  PROVE  CauseInv(s)'
<1> USE DEF TypeOK, CauseInv, HandlerRuns
<1>1. ASSUME NEW from \in {"validate", "authorize", "ready", "convert"},
             NEW to \in {"authorize", "ready", "convert", "call"},
             Proceed(s, from, to) \/ Return(s, from, "Refused"),
             UnchangedByChecks
      PROVE  CauseInv(s)'
  BY <1>1 DEF Proceed, Return, UnchangedByChecks
<1>2. CASE Validate(s) \/ AuthenticateAndAuthorize(s) \/ IsCSIDriverReady(s)
           \/ ConvertRequest(s)
  BY <1>1, <1>2 DEF Validate, AuthenticateAndAuthorize, IsCSIDriverReady,
     ConvertRequest
<1>3. CASE CallDriver(s)
  BY <1>3 DEF CallDriver, Proceed
<1>4. CASE CallDriverFails(s)
  BY <1>4 DEF CallDriverFails, Return, UnchangedByChecks, ContextErrors
<1>5. CASE ReceiveFromDriver(s) \/ SendToClient(s)
  BY <1>5 DEF ReceiveFromDriver, SendToClient, Proceed
<1>6. CASE ReceiveEOF(s) \/ SendFails(s)
  BY <1>6 DEF ReceiveEOF, SendFails, Return, UnchangedByChecks
<1>7. CASE ReceiveError(s)
  BY <1>7, CodesAssumption DEF ReceiveError, Return, UnchangedByChecks,
     StatusPassOrWrapError, ContextErrors, DriverCodes
<1>8. CASE Finish(s)
  BY <1>8 DEF Finish
<1> QED
  BY <1>2, <1>3, <1>4, <1>5, <1>6, <1>7, <1>8
  DEF HandlerStep, streamGetMetadataAllocatedResponse,
      streamGetMetadataDeltaResponse, Relay

\* The contexts and the streams end for their causes.
LEMMA CauseEnds ==
  ASSUME TypeOK, NEW s \in Sessions, CauseInv(s),
         NetworkStep(s) \/ DriverStep(s) \/ HandlerTimeout(s)
  PROVE  CauseInv(s)'
<1> USE DEF TypeOK, CauseInv, HandlerRuns
<1>1. CASE ResetArrives(s)
  BY <1>1 DEF ResetArrives
<1>2. CASE ConnectionBreaks(s)
  BY <1>2 DEF ConnectionBreaks
<1>3. CASE ContextClosesStream(s)
  BY <1>3 DEF ContextClosesStream, ContextErrors
<1>4. CASE LostConnectionClosesStream(s)
  BY <1>4 DEF LostConnectionClosesStream
<1>5. CASE DriverStops(s)
  BY <1>5 DEF DriverStops
<1>6. CASE DriverSends(s)
  BY <1>6 DEF DriverSends
<1>7. CASE DriverEnds(s)
  <2>1. PICK code \in {"OK", "DriverError", "Unknown"} :
          /\ drv' = [drv EXCEPT ![s] = code]
          /\ csiEnd' = [csiEnd EXCEPT ![s] = IF @ = "open" THEN code ELSE @]
    BY <1>7, CodesAssumption DEF DriverEnds, DriverCodes
  <2>2. /\ drv[s] = "streaming" /\ drv'[s] = code
        /\ csiEnd'[s] = IF csiEnd[s] = "open" THEN code ELSE csiEnd[s]
        /\ UNCHANGED <<pc, ret, strDone, ctxErr>>
    BY <1>7, <2>1 DEF DriverEnds
  <2> QED BY <2>2
<1>8. CASE HandlerTimeout(s)
  BY <1>8 DEF HandlerTimeout
<1> QED
  BY <1>1, <1>2, <1>3, <1>4, <1>5, <1>6, <1>7, <1>8 DEF NetworkStep, DriverStep

\* Every step, of whichever call, keeps the causes of every call.
LEMMA CausesStep == TypeOK /\ StreamInv /\ CausesInv /\ [Next]_vars => CausesInv'
<1> SUFFICES ASSUME TypeOK, StreamInv, CausesInv, [Next]_vars, NEW t \in Sessions
             PROVE  CauseInv(t)'
  BY DEF CausesInv
<1>1. \A s \in Sessions : CauseInv(s)
  BY DEF CausesInv
<1>2. CASE UNCHANGED vars
  BY <1>1, <1>2, CauseFrame DEF SameCause
<1>3. ASSUME NEW s \in Sessions, ClientStep(s) \/ ApplicationCancels(s)
      PROVE  CauseInv(t)'
  <2>1. t # s => SameCause(t)
    BY <1>3 DEF SameCause, TypeOK, ClientStep, Call, CallFails, getAllocatedBlocks,
       getChangedBlocks, IteratorReceives, EmitterAccepts, EmitterAborts,
       IteratorEOF, IteratorFails, ApplicationCancels
  <2> QED BY <1>1, <1>3, <2>1, CauseClient, CauseFrame
<1>4. ASSUME NEW s \in Sessions, HandlerStep(s)
      PROVE  CauseInv(t)'
  <2>1. t # s => SameCause(t)
    BY <1>4 DEF SameCause, TypeOK, HandlerStep, Proceed, Return, UnchangedByChecks,
       Validate, AuthenticateAndAuthorize, IsCSIDriverReady, ConvertRequest,
       CallDriver, CallDriverFails, streamGetMetadataAllocatedResponse,
       streamGetMetadataDeltaResponse, Relay, ReceiveFromDriver, ReceiveEOF,
       ReceiveError, SendToClient, SendFails, Finish
  <2> QED BY <1>1, <1>4, <2>1, CauseHandler, CauseFrame
<1>5. ASSUME NEW s \in Sessions,
             NetworkStep(s) \/ DriverStep(s) \/ HandlerTimeout(s)
      PROVE  CauseInv(t)'
  <2>1. t # s => SameCause(t)
    BY <1>5 DEF SameCause, TypeOK, NetworkStep, DriverStep, HandlerTimeout,
       ResetArrives, ConnectionBreaks, ContextClosesStream,
       LostConnectionClosesStream, DriverStops, DriverSends, DriverEnds
  <2> QED BY <1>1, <1>5, <2>1, CauseEnds, CauseFrame
<1>6. ASSUME SidecarStep \/ \E s \in Sessions : ConvertPanics(s)
      PROVE  CauseInv(t)'
  <2>1. SameCause(t)
    BY <1>6 DEF SameCause, ConvertPanics, SidecarStep, ProcessStep,
       CSIDriverIsReady, StartupFails, ShuttingDown, GracefulStop,
       GracefulStopReturns, DriverConnectionLost, ExitOnConnectionLoss, Killed
  <2> QED BY <1>1, <2>1, CauseFrame
<1> QED
  BY <1>2, <1>3, <1>4, <1>5, <1>6 DEF Next, Quiescent

\* A handler that fails names the true cause: its client's cancellation, its own
\* deadline or the driver's error.
THEOREM TrueCauses == Spec => []FailureHasItsCause
<1>1. Init => CausesInv
  BY DEF Init, CausesInv, CauseInv, HandlerRuns
<1>2. (TypeOK /\ StreamInv) /\ CausesInv /\ [Next]_vars => CausesInv'
  BY CausesStep
<1>3. CausesInv => FailureHasItsCause
  BY DEF CausesInv, CauseInv, FailureHasItsCause
<1> QED BY <1>1, <1>2, <1>3, TypeCorrect, StreamInvariant, PTL DEF Spec

\* A process that has exited on request has served every call and flushed what
\* it had for its client; a stream that is open has its handler; only a crash
\* breaks a stream.
ExitInv ==
  /\ sidecar = "exited" => \A s \in Sessions : Flushed(s)
  /\ \A s \in Sessions : cliEnd[s] = "open" => HandlerRuns(s)
  /\ \A s \in Sessions : cliEnd[s] = "Broken" => sidecar = "crashed"

\* The client's queue only gets shorter once the process is gone.
LEMMA ExitClient ==
  ASSUME TypeOK, StreamInv, ExitInv, NEW s \in Sessions,
         ClientStep(s) \/ ApplicationCancels(s)
  PROVE  ExitInv'
<1> USE DEF TypeOK, ExitInv, Flushed, HandlerRuns, Alive
<1>1. CASE Call(s)
  BY <1>1 DEF Call
<1>2. CASE CallFails(s) \/ EmitterAccepts(s) \/ IteratorEOF(s) \/ IteratorFails(s)
  BY <1>2 DEF CallFails, EmitterAccepts, IteratorEOF, IteratorFails
<1>3. CASE IteratorReceives(s)
  <2>1. Len(Tail(cliQ[s])) = Len(cliQ[s]) - 1 /\ Len(cliQ[s]) \in Nat
    BY <1>3, HeadTailProperties, LenProperties DEF IteratorReceives
  <2>2. Len(cliQ[s]) <= ClientWindow => Len(Tail(cliQ[s])) <= ClientWindow
    BY <2>1, BoundsAssumption
  <2> QED BY <1>3, <2>2 DEF IteratorReceives
<1>4. CASE EmitterAborts(s)
  <2>1. Len(<<>>) <= ClientWindow
    BY EmptySeq, BoundsAssumption
  <2> QED BY <1>4, <2>1 DEF EmitterAborts
<1>5. CASE ApplicationCancels(s)
  BY <1>5 DEF ApplicationCancels
<1> QED
  BY <1>1, <1>2, <1>3, <1>4, <1>5 DEF ClientStep, getAllocatedBlocks, getChangedBlocks

\* A handler runs only in a process that is alive, and closes its client's stream
\* when it returns.
LEMMA ExitHandler ==
  ASSUME TypeOK, ExitInv, NEW s \in Sessions, HandlerStep(s)
  PROVE  ExitInv'
<1>1. Alive /\ UNCHANGED sidecar
  BY DEF HandlerStep, Validate, AuthenticateAndAuthorize, IsCSIDriverReady,
     ConvertRequest, CallDriver, CallDriverFails,
     streamGetMetadataAllocatedResponse, streamGetMetadataDeltaResponse, Relay,
     ReceiveFromDriver, ReceiveEOF, ReceiveError, SendToClient, SendFails, Finish,
     UnchangedByChecks
<1>2. CASE Finish(s)
  BY <1>1, <1>2, CodesAssumption
  DEF Finish, ExitInv, HandlerRuns, Alive, TypeOK, ReturnCodes, ContextErrors
<1>3. CASE ~Finish(s)
  <2>1. UNCHANGED cliEnd /\ \A t \in Sessions : HandlerRuns(t) => HandlerRuns(t)'
    BY <1>3 DEF HandlerStep, Validate, AuthenticateAndAuthorize, IsCSIDriverReady,
       ConvertRequest, CallDriver, CallDriverFails,
       streamGetMetadataAllocatedResponse, streamGetMetadataDeltaResponse, Relay,
       ReceiveFromDriver, ReceiveEOF, ReceiveError, SendToClient, SendFails,
       UnchangedByChecks, Proceed, Return, HandlerRuns, TypeOK
  <2> QED BY <1>1, <2>1 DEF ExitInv, Alive
<1> QED BY <1>2, <1>3

\* A graceful exit waits for what ExitInv says; nothing else exits.
LEMMA ExitRest ==
  ASSUME TypeOK, ExitInv,
         \/ \E s \in Sessions : \/ NetworkStep(s) \/ DriverStep(s) \/ HandlerTimeout(s)
                                \/ (Alive /\ ConvertPanics(s))
         \/ SidecarStep
  PROVE  ExitInv'
<1> USE DEF TypeOK, ExitInv, Flushed, HandlerRuns
<1>1. ASSUME NEW s \in Sessions, ConnectionBreaks(s) PROVE ExitInv'
  <2>1. Len(cliQ[s]) \in Nat /\ ClientWindow \in Nat
    BY LenProperties, BoundsAssumption
  <2>2. sidecar = "crashed"
    BY <1>1, <2>1 DEF ConnectionBreaks
  <2> QED BY <1>1, <2>2 DEF ConnectionBreaks
<1>2. ASSUME NEW s \in Sessions,
             \/ ResetArrives(s) \/ ContextClosesStream(s) \/ DriverStops(s)
             \/ LostConnectionClosesStream(s) \/ DriverStep(s) \/ HandlerTimeout(s)
             \/ (Alive /\ ConvertPanics(s))
      PROVE  ExitInv'
  BY <1>2 DEF ResetArrives, ContextClosesStream, LostConnectionClosesStream,
     DriverStops, DriverStep, DriverSends, DriverEnds, HandlerTimeout, ConvertPanics
<1>3. ASSUME SidecarStep PROVE ExitInv'
  BY <1>3 DEF SidecarStep, ProcessStep, CSIDriverIsReady, StartupFails, Alive,
     ShuttingDown, GracefulStop, GracefulStopReturns, DriverConnectionLost,
     ExitOnConnectionLoss, Killed
<1> QED BY <1>1, <1>2, <1>3 DEF NetworkStep

\* A graceful stop breaks no client's stream, whatever the number of calls and
\* wherever they are.
THEOREM GracefulExit == Spec => []GracefulExitBreaksNoStream
<1>1. Init => ExitInv
  BY DEF Init, ExitInv, HandlerRuns
<1>2. (TypeOK /\ StreamInv) /\ ExitInv /\ [Next]_vars => ExitInv'
  <2> SUFFICES ASSUME TypeOK, StreamInv, ExitInv, [Next]_vars PROVE ExitInv'
    OBVIOUS
  <2>1. CASE UNCHANGED vars
    BY <2>1 DEF ExitInv, Flushed, HandlerRuns
  <2>2. CASE Next
    BY <2>1, <2>2, ExitClient, ExitHandler, ExitRest DEF Next, Quiescent
  <2> QED BY <2>1, <2>2
<1>3. ExitInv => GracefulExitBreaksNoStream
  BY DEF ExitInv, GracefulExitBreaksNoStream
<1> QED BY <1>1, <1>2, <1>3, TypeCorrect, StreamInvariant, PTL DEF Spec

----------------------------------------------------------------------------
(* The stream implements the enumeration the service promises.             *)

SourceEnd == [s \in Sessions |->
                IF drv[s] \in {"idle", "streaming"} THEN "open"
                ELSE IF drv[s] = "OK" THEN "whole" ELSE "broken"]
Outcome == [s \in Sessions |->
              CASE it[s] = "done" -> "complete"
                [] it[s] = "failed" -> "failed"
                [] OTHER -> "running"]

\* What the mapped variables become in a step of one call.
LEMMA MappedStep ==
  ASSUME TypeOK, NEW s \in Sessions
  PROVE  /\ \A e : it' = [it EXCEPT ![s] = e] =>
               Outcome' = [Outcome EXCEPT ![s] =
                             CASE e = "done" -> "complete"
                               [] e = "failed" -> "failed"
                               [] OTHER -> "running"]
         /\ \A e : drv' = [drv EXCEPT ![s] = e] =>
               SourceEnd' = [SourceEnd EXCEPT ![s] =
                               IF e \in {"idle", "streaming"} THEN "open"
                               ELSE IF e = "OK" THEN "whole" ELSE "broken"]
<1>1. ASSUME NEW e, it' = [it EXCEPT ![s] = e]
      PROVE  Outcome' = [Outcome EXCEPT ![s] =
                           CASE e = "done" -> "complete"
                             [] e = "failed" -> "failed"
                             [] OTHER -> "running"]
  <2>1. \A t \in Sessions : it'[t] = IF t = s THEN e ELSE it[t]
    BY <1>1 DEF TypeOK
  <2> QED BY <2>1 DEF Outcome
<1>2. ASSUME NEW e, drv' = [drv EXCEPT ![s] = e]
      PROVE  SourceEnd' = [SourceEnd EXCEPT ![s] =
                             IF e \in {"idle", "streaming"} THEN "open"
                             ELSE IF e = "OK" THEN "whole" ELSE "broken"]
  <2>1. \A t \in Sessions : drv'[t] = IF t = s THEN e ELSE drv[t]
    BY <1>2 DEF TypeOK
  <2> QED BY <2>1 DEF SourceEnd
<1> QED BY <1>1, <1>2

\* A step that leaves the iterator running and the driver streaming.
LEMMA MappedSame ==
  ASSUME TypeOK
  PROVE  /\ it' = it => Outcome' = Outcome
         /\ drv' = drv => SourceEnd' = SourceEnd
BY DEF Outcome, SourceEnd

\* The abstract next-state relation, over the mapped variables.
LEMMA ServiceStep ==
  ASSUME NEW s \in Sessions,
         \/ /\ SourceEnd[s] = "open"
            /\ \E r \in Records : sent' = [sent EXCEPT ![s] = Append(@, r)]
            /\ UNCHANGED <<SourceEnd, emitted, Outcome>>
         \/ /\ SourceEnd[s] = "open"
            /\ \E e \in {"whole", "broken"} : SourceEnd' = [SourceEnd EXCEPT ![s] = e]
            /\ UNCHANGED <<sent, emitted, Outcome>>
         \/ /\ Outcome[s] = "running"
            /\ Len(emitted[s]) < Len(sent[s])
            /\ emitted' = [emitted EXCEPT ![s] = Append(@, sent[s][Len(@) + 1])]
            /\ UNCHANGED <<sent, SourceEnd, Outcome>>
         \/ /\ Outcome[s] = "running" /\ SourceEnd[s] = "whole" /\ emitted[s] = sent[s]
            /\ Outcome' = [Outcome EXCEPT ![s] = "complete"]
            /\ UNCHANGED <<sent, SourceEnd, emitted>>
         \/ /\ Outcome[s] = "running"
            /\ Outcome' = [Outcome EXCEPT ![s] = "failed"]
            /\ UNCHANGED <<sent, SourceEnd, emitted>>
  PROVE  Service!Next
BY DEF Service!Next, Service!Produce, Service!End, Service!Give,
       Service!Complete, Service!Fail, SourceEnd, Outcome

\* Nothing the service speaks of changes.
LEMMA ServiceStutter ==
  ASSUME TypeOK, it' = it, emitted' = emitted, drv' = drv, sent' = sent
  PROVE  UNCHANGED Service!abstractVars
BY DEF Service!abstractVars

\* Every step of the stream is a step of the promised enumeration, or changes
\* nothing the promise is about.
LEMMA ServiceNext ==
  TypeOK /\ StreamInv /\ [Next]_vars => [Service!Next]_(Service!abstractVars)
<1> SUFFICES ASSUME TypeOK, StreamInv, [Next]_vars
             PROVE  Service!Next \/ UNCHANGED Service!abstractVars
  OBVIOUS
<1>1. \A s \in Sessions : it[s] \notin {"done", "failed"} => Outcome[s] = "running"
  BY DEF Outcome
<1>2. \A s \in Sessions : drv[s] \in {"idle", "streaming"} => SourceEnd[s] = "open"
  BY DEF SourceEnd
<1>3. CASE UNCHANGED vars
  BY <1>3, ServiceStutter
<1>4. ASSUME NEW s \in Sessions, it[s] \notin {"done", "failed"},
             it' = [it EXCEPT ![s] = "failed"],
             UNCHANGED <<sent, emitted, drv>>
      PROVE  Service!Next
  <2>1. Outcome' = [Outcome EXCEPT ![s] = "failed"] /\ SourceEnd' = SourceEnd
    BY <1>4, MappedStep, MappedSame
  <2> QED BY <1>1, <1>4, <2>1, ServiceStep
<1>5. ASSUME NEW s \in Sessions, it[s] \notin {"done", "failed"},
             NEW e \in {"recv", "emit"}, it' = [it EXCEPT ![s] = e],
             UNCHANGED <<sent, drv>>
      PROVE  Outcome' = Outcome /\ SourceEnd' = SourceEnd
  BY <1>5, MappedSame DEF Outcome, TypeOK
<1>6. ASSUME NEW s \in Sessions, ClientStep(s) \/ ApplicationCancels(s)
      PROVE  Service!Next \/ UNCHANGED Service!abstractVars
  <2>1. CASE Call(s)
    <3>1. Outcome' = Outcome /\ SourceEnd' = SourceEnd
      BY <1>5, <2>1 DEF Call
    <3> QED BY <2>1, <3>1 DEF Call, Service!abstractVars, Outcome, SourceEnd
  <2>2. CASE CallFails(s)
    BY <1>4, <2>2 DEF CallFails
  <2>3. CASE IteratorReceives(s)
    <3>1. Outcome' = Outcome /\ SourceEnd' = SourceEnd
      BY <1>5, <2>3 DEF IteratorReceives
    <3> QED BY <2>3, <3>1 DEF IteratorReceives, Service!abstractVars, Outcome, SourceEnd
  <2>4. CASE EmitterAccepts(s)
    <3>1. Outcome' = Outcome /\ SourceEnd' = SourceEnd
      BY <1>5, <2>4 DEF EmitterAccepts
    <3>2. CASE itHand[s] = <<>>
      <4>1. emitted' = emitted
        BY <2>4, <3>2, Parts, ConcatEmptySeq DEF EmitterAccepts, TypeOK
      <4> QED BY <2>4, <3>1, <4>1 DEF EmitterAccepts, Service!abstractVars, Outcome, SourceEnd
    <3>3. ASSUME NEW r \in Records, itHand[s] = <<r>>
          PROVE  Service!Next
      <4>1. /\ emitted[s] \in Seq(Records) /\ <<r>> \in Seq(Records)
            /\ cliQ[s] \in Seq(Records) /\ sent[s] \in Seq(Records)
        BY Parts, <3>3
      <4>2. emitted[s] \o <<r>> = Append(emitted[s], r)
        BY <4>1, AppendIsConcat
      <4>3. Precedes(Append(emitted[s], r), sent[s])
        <5>1. Precedes((emitted[s] \o <<r>>) \o cliQ[s], sent[s])
          BY <3>3 DEF StreamInv, DataInv, Delivered
        <5>2. emitted[s] \o <<r>> \in Seq(Records)
          BY <4>1, ConcatProperties
        <5> QED BY <4>1, <4>2, <5>1, <5>2, PrecedesFront
      <4>4. /\ Len(Append(emitted[s], r)) = Len(emitted[s]) + 1
            /\ Append(emitted[s], r)[Len(emitted[s]) + 1] = r
            /\ Len(emitted[s]) \in Nat /\ Len(sent[s]) \in Nat
        BY <4>1, AppendProperties, LenProperties
      <4>5. Len(emitted[s]) < Len(sent[s]) /\ sent[s][Len(emitted[s]) + 1] = r
        BY <4>3, <4>4 DEF Precedes
      <4>6. emitted' = [emitted EXCEPT ![s] = Append(@, sent[s][Len(@) + 1])]
        BY <2>4, <3>3, <4>2, <4>5 DEF EmitterAccepts
      <4> QED BY <1>1, <2>4, <3>1, <4>5, <4>6, ServiceStep DEF EmitterAccepts
    <3> QED BY <3>2, <3>3 DEF TypeOK, AtMostOne
  <2>5. CASE EmitterAborts(s)
    BY <1>4, <2>5 DEF EmitterAborts
  <2>6. CASE IteratorEOF(s)
    <3>1. Outcome' = [Outcome EXCEPT ![s] = "complete"] /\ SourceEnd' = SourceEnd
      BY <2>6, MappedStep, MappedSame DEF IteratorEOF
    <3>2. drv[s] = "OK" /\ Delivered(s) = sent[s] /\ itHand[s] = <<>> /\ cliQ[s] = <<>>
      BY <2>6 DEF IteratorEOF, StreamInv, ControlInv, DataInv
    <3>3. SourceEnd[s] = "whole"
      BY <3>2 DEF SourceEnd
    <3>4. emitted[s] = sent[s]
      BY <3>2, Parts, ConcatEmptySeq DEF Delivered
    <3> QED BY <1>1, <2>6, <3>1, <3>3, <3>4, ServiceStep DEF IteratorEOF
  <2>7. CASE IteratorFails(s)
    BY <1>4, <2>7 DEF IteratorFails
  <2>8. CASE ApplicationCancels(s)
    BY <2>8, ServiceStutter DEF ApplicationCancels
  <2> QED
    BY <1>6, <2>1, <2>2, <2>3, <2>4, <2>5, <2>6, <2>7, <2>8
    DEF ClientStep, getAllocatedBlocks, getChangedBlocks
<1>7. ASSUME NEW s \in Sessions, HandlerStep(s)
      PROVE  UNCHANGED Service!abstractVars
  <2>1. CASE CallDriver(s)
    <3>1. drv[s] = "idle"
      BY <2>1 DEF CallDriver, Proceed, StreamInv, ControlInv
    <3>2. SourceEnd' = SourceEnd
      BY <2>1, <3>1 DEF CallDriver, SourceEnd, TypeOK
    <3> QED BY <2>1, <3>2 DEF CallDriver, Service!abstractVars, SourceEnd
  <2>2. CASE ~CallDriver(s)
    <3>1. it' = it /\ emitted' = emitted /\ drv' = drv /\ sent' = sent
      BY <1>7, <2>2 DEF HandlerStep, UnchangedByChecks,
         Validate, AuthenticateAndAuthorize, IsCSIDriverReady, ConvertRequest,
         CallDriverFails, streamGetMetadataAllocatedResponse,
         streamGetMetadataDeltaResponse, Relay, ReceiveFromDriver, ReceiveEOF,
         ReceiveError, SendToClient, SendFails, Finish
    <3> QED BY <3>1, ServiceStutter
  <2> QED BY <2>1, <2>2
<1>8. ASSUME NEW s \in Sessions, NetworkStep(s) \/ DriverStep(s)
      PROVE  Service!Next \/ UNCHANGED Service!abstractVars
  <2>1. CASE DriverSends(s)
    <3>1. \E r \in Records : sent' = [sent EXCEPT ![s] = Append(@, r)]
      BY <2>1 DEF DriverSends
    <3>2. Outcome' = Outcome /\ SourceEnd' = SourceEnd /\ SourceEnd[s] = "open"
      BY <1>2, <2>1, MappedSame DEF DriverSends
    <3> QED BY <2>1, <3>1, <3>2, ServiceStep DEF DriverSends
  <2>2. ASSUME NEW e, e \notin {"idle", "streaming"}, drv[s] = "streaming",
               drv' = [drv EXCEPT ![s] = e], UNCHANGED <<it, emitted, sent>>
        PROVE  Service!Next
    <3>1. SourceEnd' = [SourceEnd EXCEPT ![s] = IF e = "OK" THEN "whole" ELSE "broken"]
      BY <2>2, MappedStep
    <3>2. Outcome' = Outcome /\ SourceEnd[s] = "open"
      BY <1>2, <2>2, MappedSame
    <3>3. \E x \in {"whole", "broken"} : SourceEnd' = [SourceEnd EXCEPT ![s] = x]
      BY <3>1
    <3> QED BY <2>2, <3>2, <3>3, ServiceStep
  <2>3. CASE DriverEnds(s)
    <3>1. DriverCodes \cap {"idle", "streaming"} = {}
      BY CodesAssumption DEF DriverCodes
    <3> QED BY <2>2, <2>3, <3>1 DEF DriverEnds
  <2>4. CASE DriverStops(s)
    BY <2>2, <2>4 DEF DriverStops
  <2>5. CASE \/ ResetArrives(s) \/ ConnectionBreaks(s) \/ ContextClosesStream(s)
             \/ LostConnectionClosesStream(s)
    BY <2>5, ServiceStutter DEF ResetArrives, ConnectionBreaks,
       ContextClosesStream, LostConnectionClosesStream
  <2> QED BY <1>8, <2>1, <2>3, <2>4, <2>5 DEF NetworkStep, DriverStep
<1>9. ASSUME \/ SidecarStep
             \/ \E s \in Sessions : ConvertPanics(s) \/ HandlerTimeout(s)
      PROVE  UNCHANGED Service!abstractVars
  BY <1>9, ServiceStutter
  DEF HandlerTimeout, ConvertPanics, SidecarStep, ProcessStep,
      CSIDriverIsReady, StartupFails, ShuttingDown, GracefulStop,
      GracefulStopReturns, DriverConnectionLost, ExitOnConnectionLoss, Killed
<1> QED
  BY <1>3, <1>6, <1>7, <1>8, <1>9 DEF Next, Quiescent

\* The whole path from the driver to the emitter, with its buffers, timeouts,
\* cancellations and crashes, implements the enumeration the service promises.
THEOREM StreamImplementsEnumeration == Spec => ImplementsEnumeration
<1>1. Init => Service!Init
  BY DEF Init, Service!Init
<1>2. TypeOK /\ StreamInv /\ [Next]_vars => [Service!Next]_(Service!abstractVars)
  BY ServiceNext
<1> QED
  BY <1>1, <1>2, TypeCorrect, StreamInvariant, PTL
  DEF Spec, ImplementsEnumeration, Service!Spec

----------------------------------------------------------------------------
(* The process of the sidecar, as its calls see it.                        *)

ServedStates == {"convert", "call", "recv", "send"}
Points == {"none", "validate", "authorize", "ready", "convert", "call", "recv",
           "send", "finish", "done"}
Served == IF Alive THEN {s \in Sessions : pc[s] \in ServedStates} ELSE {}
Phase == IF sidecar \in {"shuttingDown", "draining"} THEN "stopping" ELSE sidecar

\* One handler moves within the calls that are served, or outside of them.
LEMMA ServedStutter ==
  ASSUME pc \in [Sessions -> Points], NEW s \in Sessions, NEW to,
         pc' = [pc EXCEPT ![s] = to], UNCHANGED sidecar,
         pc[s] \in ServedStates <=> to \in ServedStates
  PROVE  UNCHANGED Phases!phaseVars
<1>1. Served' = Served
  BY DEF Served, Alive
<1> QED
  BY <1>1 DEF Phases!phaseVars, Served, ServedStates

\* It returns.
LEMMA ServedLeave ==
  ASSUME pc \in [Sessions -> Points], NEW s \in Sessions, NEW to, Alive,
         pc' = [pc EXCEPT ![s] = to], UNCHANGED sidecar,
         pc[s] \in ServedStates, to \notin ServedStates
  PROVE  Phases!Next
<1>1. s \in Served /\ Served' = Served \ {s}
  BY DEF Served, Alive
<1> QED
  BY <1>1 DEF Phases!Next, Phases!Leave, Served, ServedStates

\* It passes the readiness check.
LEMMA ServedAdmit ==
  ASSUME pc \in [Sessions -> Points], NEW s \in Sessions, NEW to, Alive,
         pc' = [pc EXCEPT ![s] = to], UNCHANGED sidecar, sidecar = "running",
         pc[s] \notin ServedStates, to \in ServedStates
  PROVE  Phases!Next
<1>1. s \notin Served /\ Served' = Served \cup {s}
  BY DEF Served, Alive
<1> QED
  BY <1>1 DEF Phases!Next, Phases!Admit, Served, ServedStates

\* The process dies and takes its calls with it.
LEMMA ServedCrash ==
  ASSUME Alive, sidecar' = "crashed"
  PROVE  Phases!Next
BY DEF Alive, Phases!Next, Phases!Crash

LEMMA PhasesHandler ==
  ASSUME TypeOK, NEW s \in Sessions, HandlerStep(s)
  PROVE  Phases!Next \/ UNCHANGED Phases!phaseVars
<1> USE DEF ServedStates
<1>1. pc \in [Sessions -> Points] /\ Alive
  BY DEF TypeOK, HandlerStep, Points
<1>2. CASE Validate(s) \/ AuthenticateAndAuthorize(s)
  BY <1>1, <1>2, ServedStutter
  DEF Validate, AuthenticateAndAuthorize, Proceed, Return, UnchangedByChecks, processVars
<1>3. CASE IsCSIDriverReady(s)
  <2>1. CASE IsReady
    BY <1>1, <1>3, <2>1, ServedAdmit
    DEF IsCSIDriverReady, IsReady, Proceed, UnchangedByChecks, processVars
  <2>2. CASE ~IsReady
    BY <1>1, <1>3, <2>2, ServedStutter
    DEF IsCSIDriverReady, Return, UnchangedByChecks, processVars
  <2> QED BY <2>1, <2>2
<1>4. CASE ConvertRequest(s) \/ CallDriverFails(s)
  <2>1. CASE Proceed(s, "convert", "call")
    BY <1>1, <1>4, <2>1, ServedStutter
    DEF ConvertRequest, CallDriverFails, Proceed, Return, UnchangedByChecks, processVars
  <2>2. CASE ~Proceed(s, "convert", "call")
    <3>1. pc[s] \in ServedStates /\ pc' = [pc EXCEPT ![s] = "finish"] /\ UNCHANGED sidecar
      BY <1>4, <2>2
      DEF ConvertRequest, CallDriverFails, Return, UnchangedByChecks, processVars
    <3> QED BY <1>1, <3>1, ServedLeave
  <2> QED BY <2>1, <2>2
<1>5. CASE CallDriver(s)
  BY <1>1, <1>5, ServedStutter DEF CallDriver, Proceed, processVars
<1>6. CASE ReceiveFromDriver(s) \/ SendToClient(s)
  BY <1>1, <1>6, ServedStutter DEF ReceiveFromDriver, SendToClient, Proceed, processVars
<1>7. CASE ReceiveEOF(s) \/ ReceiveError(s) \/ SendFails(s)
  <2>1. pc[s] \in ServedStates /\ pc' = [pc EXCEPT ![s] = "finish"] /\ UNCHANGED sidecar
    BY <1>7 DEF ReceiveEOF, ReceiveError, SendFails, Return, UnchangedByChecks, processVars
  <2> QED BY <1>1, <2>1, ServedLeave
<1>8. CASE Finish(s)
  BY <1>1, <1>8, ServedStutter DEF Finish, processVars
<1> QED
  BY <1>2, <1>3, <1>4, <1>5, <1>6, <1>7, <1>8
  DEF HandlerStep, streamGetMetadataAllocatedResponse,
      streamGetMetadataDeltaResponse, Relay

LEMMA PhasesNext ==
  ASSUME TypeOK, StreamInv, Next
  PROVE  Phases!Next \/ UNCHANGED Phases!phaseVars
<1>1. pc \in [Sessions -> Points]
  BY DEF TypeOK, Points
<1>2. ASSUME UNCHANGED <<pc, sidecar>>
      PROVE  UNCHANGED Phases!phaseVars
  BY <1>2 DEF Phases!phaseVars, Alive
<1>3. ASSUME NEW s \in Sessions, ClientStep(s) \/ ApplicationCancels(s)
      PROVE  UNCHANGED Phases!phaseVars
  <2>1. CASE Call(s)
    <3>1. pc[s] = "none"
      BY <2>1 DEF Call, StreamInv, ControlInv
    <3> QED
      BY <1>1, <2>1, <3>1, ServedStutter DEF Call, processVars, ServedStates
  <2>2. CASE CallFails(s) \/ ApplicationCancels(s)
    BY <1>2, <2>2 DEF CallFails, ApplicationCancels, handlerVars, processVars
  <2>3. CASE \/ IteratorReceives(s) \/ EmitterAccepts(s) \/ EmitterAborts(s)
             \/ IteratorEOF(s) \/ IteratorFails(s)
    BY <1>2, <2>3 DEF IteratorReceives, EmitterAccepts, EmitterAborts,
       IteratorEOF, IteratorFails, handlerVars, processVars
  <2> QED
    BY <1>3, <2>1, <2>2, <2>3 DEF ClientStep, getAllocatedBlocks, getChangedBlocks
<1>4. ASSUME NEW s \in Sessions, NetworkStep(s) \/ HandlerTimeout(s) \/ DriverStep(s)
      PROVE  UNCHANGED Phases!phaseVars
  <2>1. CASE ResetArrives(s) \/ ConnectionBreaks(s) \/ HandlerTimeout(s)
    BY <1>2, <2>1 DEF ResetArrives, ConnectionBreaks, HandlerTimeout, handlerVars,
       processVars
  <2>2. CASE \/ ContextClosesStream(s) \/ LostConnectionClosesStream(s)
             \/ DriverStops(s) \/ DriverStep(s)
    BY <1>2, <2>2 DEF ContextClosesStream, LostConnectionClosesStream,
       DriverStops, DriverStep, DriverSends, DriverEnds, handlerVars, processVars
  <2> QED BY <1>4, <2>1, <2>2 DEF NetworkStep
<1>5. ASSUME SidecarStep \/ \E s \in Sessions : Alive /\ ConvertPanics(s)
      PROVE  Phases!Next \/ UNCHANGED Phases!phaseVars
  <2>1. CASE CSIDriverIsReady
    BY <2>1 DEF CSIDriverIsReady, ProcessStep, handlerVars, Alive,
       Phases!Next, Phases!Validated
  <2>2. CASE ShuttingDown
    BY <2>2 DEF ShuttingDown, ProcessStep, handlerVars, Alive,
       Phases!Next, Phases!Retire
  <2>3. CASE GracefulStop
    BY <2>3 DEF GracefulStop, ProcessStep, handlerVars, Alive, Phases!phaseVars
  <2>4. CASE GracefulStopReturns
    <3>1. Served = {} /\ Served' = {}
      BY <2>4 DEF GracefulStopReturns, ProcessStep, Flushed, HandlerRuns, Served,
         ServedStates, Alive
    <3> QED
      BY <2>4, <3>1 DEF GracefulStopReturns, ProcessStep, Served, ServedStates,
         Phases!Next, Phases!Exit
  <2>5. CASE DriverConnectionLost
    BY <1>2, <2>5 DEF DriverConnectionLost, handlerVars
  <2>6. CASE \/ StartupFails \/ ExitOnConnectionLoss \/ Killed
             \/ \E s \in Sessions : Alive /\ ConvertPanics(s)
    <3>1. Alive /\ sidecar' = "crashed"
      BY <2>6 DEF StartupFails, ProcessStep, ExitOnConnectionLoss, Killed,
         ConvertPanics, Alive
    <3> QED BY <3>1, ServedCrash
  <2> QED BY <1>5, <2>1, <2>2, <2>3, <2>4, <2>5, <2>6 DEF SidecarStep
<1>6. CASE Quiescent
  BY <1>2, <1>6 DEF Quiescent, vars, handlerVars, processVars
<1> QED
  BY <1>3, <1>4, <1>5, <1>6, PhasesHandler DEF Next

\* No call is served by a sidecar that has not validated its driver or that is
\* stopping, and an exit on request leaves no served call behind.
THEOREM StreamImplementsPhases == Spec => ImplementsPhases
<1>1. Init => Phases!Init
  BY DEF Init, Phases!Init, Alive
<1>2. ASSUME TypeOK, StreamInv, [Next]_vars
      PROVE  [Phases!Next]_(Phases!phaseVars)
  <2>1. CASE Next
    BY <1>2, <2>1, PhasesNext
  <2>2. CASE UNCHANGED vars
    BY <2>2 DEF vars, handlerVars, processVars, Phases!phaseVars, Alive
  <2> QED BY <1>2, <2>1, <2>2
<1> QED
  BY <1>1, <1>2, TypeCorrect, StreamInvariant, PTL
  DEF Spec, ImplementsPhases, Phases!Spec

----------------------------------------------------------------------------
(* Nothing goes on forever.                                                *)
(*                                                                         *)
(* The work ahead of a call is a number: a record the driver may still     *)
(* send weighs 5, one on its way to the handler 4, one queued for the      *)
(* client 2; one in the hand of the handler or of the iterator weighs 3 or *)
(* 1, which the rank of its place counts.  Each place of the handler's and *)
(* the iterator's loops, and each end of a stream, has a rank that is      *)
(* smaller the nearer it is to the end.                                    *)

HandlerRank(point) ==
  CASE point = "none" -> 11
    [] point = "validate" -> 10
    [] point = "authorize" -> 9
    [] point = "ready" -> 8
    [] point = "convert" -> 7
    [] point = "call" -> 6
    [] point = "send" -> 5
    [] point = "recv" -> 2
    [] point = "finish" -> 1
    [] OTHER -> 0
IteratorRank(point) ==
  IF point \in {"start", "emit"} THEN 2 ELSE IF point = "recv" THEN 1 ELSE 0
ClientEndRank(end) ==
  CASE end = "none" -> 3
    [] end = "open" -> 2
    [] end \in {"Canceled", "Broken"} -> 0
    [] OTHER -> 1
DriverRank(side) ==
  IF side \in {"none", "idle"} THEN 2
  ELSE IF side \in {"open", "streaming"} THEN 1 ELSE 0

\* The records, the places, and the contexts and streams that are still open.
DataWork(s) ==
  (5 * (MaxRecords - Len(sent[s])) + 4 * Len(csiQ[s])) + 2 * Len(cliQ[s])
ControlWork(s) ==
  (HandlerRank(pc[s]) + IteratorRank(it[s])) + ClientEndRank(cliEnd[s])
ContextWork(s) ==
  ((IF strDone[s] THEN 0 ELSE 1) + (IF ctxErr[s] = "none" THEN 1 ELSE 0))
    + (DriverRank(csiEnd[s]) + DriverRank(drv[s]))
Work(s) == (DataWork(s) + ControlWork(s)) + ContextWork(s)

\* The work ahead of the process: its phases, and the driver's connection.
ProcessWork ==
  (CASE sidecar = "starting" -> 4
     [] sidecar = "running" -> 3
     [] sidecar = "shuttingDown" -> 2
     [] sidecar = "draining" -> 1
     [] OTHER -> 0)
  + (IF csiConn = "up" THEN 1 ELSE 0)

\* No call has more work ahead of it than it had before it was made, nor less
\* than none.
WorkInv ==
  \A s \in Sessions :
    /\ Len(sent[s]) <= MaxRecords
    /\ Work(s) \in Nat /\ Work(s) <= 5 * MaxRecords + 22

\* A step adds to no call's work nor to the process's, and takes from one of
\* them: no retry, no loop between two places, no cancellation that chases
\* another.
Progress ==
  /\ ProcessWork' <= ProcessWork
  /\ \A s \in Sessions : Work(s)' <= Work(s)
  /\ ProcessWork' < ProcessWork \/ \E s \in Sessions : Work(s)' < Work(s)
EveryStepProgresses == [][Progress]_vars

\* The ranks are numbers.
LEMMA RankTypes ==
  ASSUME NEW x
  PROVE  /\ HandlerRank(x) \in Nat /\ IteratorRank(x) \in Nat
         /\ ClientEndRank(x) \in Nat /\ DriverRank(x) \in Nat
BY DEF HandlerRank, IteratorRank, ClientEndRank, DriverRank

\* The lengths of the queues are numbers, before a step and after it.
LEMMA LengthTypes ==
  ASSUME TypeOK, TypeOK', NEW s \in Sessions
  PROVE  /\ Len(sent[s]) \in Nat /\ Len(csiQ[s]) \in Nat /\ Len(cliQ[s]) \in Nat
         /\ Len(sent'[s]) \in Nat /\ Len(csiQ'[s]) \in Nat /\ Len(cliQ'[s]) \in Nat
BY LenProperties DEF TypeOK

\* So are the parts of the measure.
LEMMA WorkTypes ==
  ASSUME TypeOK, TypeOK', NEW s \in Sessions
  PROVE  /\ DataWork(s) \in Int /\ DataWork(s)' \in Int
         /\ ControlWork(s) \in Nat /\ ControlWork(s)' \in Nat
         /\ ContextWork(s) \in Nat /\ ContextWork(s)' \in Nat
         /\ Work(s) \in Int /\ Work(s)' \in Int
<1>1. DataWork(s) \in Int /\ DataWork(s)' \in Int
  BY LengthTypes, BoundsAssumption DEF DataWork
<1>2. /\ HandlerRank(pc[s]) \in Nat /\ HandlerRank(pc'[s]) \in Nat
      /\ IteratorRank(it[s]) \in Nat /\ IteratorRank(it'[s]) \in Nat
      /\ ClientEndRank(cliEnd[s]) \in Nat /\ ClientEndRank(cliEnd'[s]) \in Nat
  BY RankTypes
<1>3. ControlWork(s) \in Nat /\ ControlWork(s)' \in Nat
  BY <1>2 DEF ControlWork
<1>4. /\ DriverRank(csiEnd[s]) \in Nat /\ DriverRank(csiEnd'[s]) \in Nat
      /\ DriverRank(drv[s]) \in Nat /\ DriverRank(drv'[s]) \in Nat
  BY RankTypes
<1>5. ContextWork(s) \in Nat /\ ContextWork(s)' \in Nat
  BY <1>4 DEF ContextWork
<1> QED BY <1>1, <1>3, <1>5 DEF Work

\* A step that leaves a call alone leaves its work as it was.
LEMMA WorkFrame ==
  ASSUME NEW s \in Sessions, SameAt(s), ctxErr'[s] = ctxErr[s]
  PROVE  Work(s)' = Work(s)
BY DEF SameAt, Work, DataWork, ControlWork, ContextWork

\* Cutting the end of a queue off does not lengthen it.
LEMMA PrefixLength ==
  ASSUME NEW S, NEW q \in Seq(S), NEW p \in Prefixes(q)
  PROVE  Len(p) <= Len(q)
BY PrefixOf DEF Precedes

\* A hand holds at most one record.
LEMMA HandLength ==
  ASSUME NEW S, NEW h \in AtMostOne(S)
  PROVE  Len(h) \in Nat /\ Len(h) <= 1
<1>1. CASE h = <<>>
  BY <1>1
<1>2. ASSUME NEW x \in S, h = <<x>>
      PROVE  Len(h) \in Nat /\ Len(h) <= 1
  BY <1>2
<1> QED BY <1>1, <1>2 DEF AtMostOne

\* What the records in the queues weigh when one of the queues changes.
LEMMA Weights ==
  ASSUME NEW m \in Nat, NEW a \in Nat, NEW b \in Nat, NEW c \in Nat, NEW d \in Nat
  PROVE  /\ d + 1 <= c =>
              (5 * (m - a) + 4 * b) + 2 * d <= ((5 * (m - a) + 4 * b) + 2 * c) - 2
         /\ d <= c + 1 =>
              (5 * (m - a) + 4 * b) + 2 * d <= ((5 * (m - a) + 4 * b) + 2 * c) + 2
         /\ d + 1 <= b =>
              (5 * (m - a) + 4 * d) + 2 * c <= ((5 * (m - a) + 4 * b) + 2 * c) - 4
         /\ d <= b + 1 =>
              (5 * (m - (a + 1)) + 4 * d) + 2 * c < (5 * (m - a) + 4 * b) + 2 * c
OBVIOUS

\* The records in the queues weigh no less than nothing.
LEMMA WeightsAreNumbers ==
  ASSUME NEW m \in Nat, NEW a \in Nat, NEW b \in Nat, NEW c \in Nat, a <= m
  PROVE  (5 * (m - a) + 4 * b) + 2 * c \in Nat
<1>1. m - a \in Nat
  OBVIOUS
<1> QED BY <1>1

\* Every step of a client takes from the work of its call.
LEMMA WorkClient ==
  ASSUME TypeOK, TypeOK', NEW s \in Sessions, ControlInv(s),
         ClientStep(s) \/ ApplicationCancels(s)
  PROVE  Work(s)' < Work(s)
<1>a. /\ DataWork(s) \in Int /\ DataWork(s)' \in Int
      /\ ControlWork(s) \in Int /\ ControlWork(s)' \in Int
      /\ ContextWork(s) \in Int /\ ContextWork(s)' \in Int
  BY WorkTypes
<1>b. /\ Len(sent[s]) \in Nat /\ Len(csiQ[s]) \in Nat /\ Len(cliQ[s]) \in Nat
  BY LengthTypes
<1>c. Len(sent'[s]) \in Nat /\ Len(csiQ'[s]) \in Nat /\ Len(cliQ'[s]) \in Nat
  BY LengthTypes
<1>d. /\ HandlerRank(pc[s]) \in Nat /\ HandlerRank(pc'[s]) \in Nat
      /\ IteratorRank(it[s]) \in Nat /\ IteratorRank(it'[s]) \in Nat
      /\ ClientEndRank(cliEnd[s]) \in Nat /\ ClientEndRank(cliEnd'[s]) \in Nat
      /\ DriverRank(csiEnd[s]) \in Nat /\ DriverRank(csiEnd'[s]) \in Nat
      /\ DriverRank(drv[s]) \in Nat /\ DriverRank(drv'[s]) \in Nat
  BY RankTypes
<1>1. ContextWork(s)' = ContextWork(s)
  BY DEF ContextWork, TypeOK, ClientStep, Call, CallFails, getAllocatedBlocks,
     getChangedBlocks, IteratorReceives, EmitterAccepts, EmitterAborts,
     IteratorEOF, IteratorFails, ApplicationCancels
<1>2. CASE Call(s)
  <2>1. DataWork(s)' = DataWork(s)
    BY <1>2 DEF Call, DataWork
  <2>2. ControlWork(s)' < ControlWork(s)
    <3>1. /\ it[s] = "start" /\ it'[s] = "recv"
          /\ cliEnd[s] = "none" /\ cliEnd'[s] = "open"
          /\ pc[s] = "none" /\ pc'[s] = "validate"
      BY <1>2 DEF Call, TypeOK, ControlInv
    <3>2. /\ IteratorRank(it'[s]) < IteratorRank(it[s])
          /\ ClientEndRank(cliEnd'[s]) < ClientEndRank(cliEnd[s])
          /\ HandlerRank(pc'[s]) < HandlerRank(pc[s])
      BY <3>1 DEF IteratorRank, ClientEndRank, HandlerRank
    <3> QED BY <3>2, <1>d DEF ControlWork
  <2> QED BY <1>1, <2>1, <2>2, <1>a DEF Work
<1>3. CASE CallFails(s) \/ IteratorEOF(s) \/ IteratorFails(s) \/ EmitterAccepts(s)
  <2>1. DataWork(s)' = DataWork(s)
    BY <1>3 DEF CallFails, IteratorEOF, IteratorFails, EmitterAccepts, DataWork
  <2>2. /\ HandlerRank(pc'[s]) = HandlerRank(pc[s])
        /\ ClientEndRank(cliEnd'[s]) = ClientEndRank(cliEnd[s])
    BY <1>3, <1>d DEF CallFails, IteratorEOF, IteratorFails, EmitterAccepts
  <2>3. IteratorRank(it'[s]) < IteratorRank(it[s])
    BY <1>3 DEF CallFails, IteratorEOF, IteratorFails, EmitterAccepts, TypeOK,
       IteratorRank
  <2>4. ControlWork(s)' < ControlWork(s)
    BY <2>2, <2>3, <1>d DEF ControlWork
  <2> QED BY <1>1, <2>1, <2>4, <1>a DEF Work
<1>4. CASE IteratorReceives(s)
  <2>1. Len(cliQ'[s]) + 1 <= Len(cliQ[s])
    BY <1>4, <1>b, HeadTailProperties DEF IteratorReceives, TypeOK
  <2>2. DataWork(s)' <= DataWork(s) - 2
    <3>1. sent'[s] = sent[s] /\ csiQ'[s] = csiQ[s]
      BY <1>4 DEF IteratorReceives
    <3> QED BY <3>1, <2>1, <1>b, <1>c, Weights, BoundsAssumption DEF DataWork
  <2>3. ControlWork(s)' = ControlWork(s) + 1
    BY <1>4, <1>d DEF IteratorReceives, TypeOK, ControlWork, IteratorRank
  <2> QED BY <1>1, <2>2, <2>3, <1>a DEF Work
<1>5. CASE EmitterAborts(s)
  <2>1. Len(cliQ'[s]) = 0
    BY <1>5 DEF EmitterAborts, TypeOK
  <2>2. DataWork(s)' <= DataWork(s)
    BY <1>5, <2>1, <1>b, BoundsAssumption DEF EmitterAborts, DataWork
  <2>3. IteratorRank(it'[s]) < IteratorRank(it[s])
    BY <1>5 DEF EmitterAborts, TypeOK, IteratorRank
  <2>4. ClientEndRank(cliEnd'[s]) <= ClientEndRank(cliEnd[s])
    BY <1>5, <1>d DEF EmitterAborts, TypeOK, ClientEndRank
  <2>5. ControlWork(s)' < ControlWork(s)
    BY <1>5, <2>3, <2>4, <1>d DEF EmitterAborts, ControlWork
  <2> QED BY <1>1, <2>2, <2>5, <1>a DEF Work
<1>6. CASE ApplicationCancels(s)
  <2>1. Len(cliQ'[s]) <= Len(cliQ[s]) /\ Len(cliQ'[s]) \in Nat
    BY <1>6, PrefixLength, LenProperties DEF ApplicationCancels, TypeOK
  <2>2. DataWork(s)' <= DataWork(s)
    BY <1>6, <2>1, <1>b, BoundsAssumption DEF ApplicationCancels, DataWork
  <2>3. ClientEndRank(cliEnd'[s]) < ClientEndRank(cliEnd[s])
    BY <1>6, <1>d DEF ApplicationCancels, TypeOK, ClientEndRank
  <2>4. ControlWork(s)' < ControlWork(s)
    BY <1>6, <2>3, <1>d DEF ApplicationCancels, ControlWork
  <2> QED BY <1>1, <2>2, <2>4, <1>a DEF Work
<1> QED
  BY <1>2, <1>3, <1>4, <1>5, <1>6
  DEF ClientStep, getAllocatedBlocks, getChangedBlocks

\* Every step of a handler, and its timeout, takes from the work of its call.
LEMMA WorkHandler ==
  ASSUME TypeOK, TypeOK', NEW s \in Sessions, HandlerStep(s) \/ HandlerTimeout(s)
  PROVE  Work(s)' < Work(s)
<1>a. /\ DataWork(s) \in Int /\ DataWork(s)' \in Int
      /\ ControlWork(s) \in Int /\ ControlWork(s)' \in Int
      /\ ContextWork(s) \in Int /\ ContextWork(s)' \in Int
  BY WorkTypes
<1>b. /\ Len(sent[s]) \in Nat /\ Len(csiQ[s]) \in Nat /\ Len(cliQ[s]) \in Nat
  BY LengthTypes
<1>c. Len(sent'[s]) \in Nat /\ Len(csiQ'[s]) \in Nat /\ Len(cliQ'[s]) \in Nat
  BY LengthTypes
<1>d. /\ HandlerRank(pc[s]) \in Nat /\ HandlerRank(pc'[s]) \in Nat
      /\ IteratorRank(it[s]) \in Nat /\ IteratorRank(it'[s]) \in Nat
      /\ ClientEndRank(cliEnd[s]) \in Nat /\ ClientEndRank(cliEnd'[s]) \in Nat
      /\ DriverRank(csiEnd[s]) \in Nat /\ DriverRank(csiEnd'[s]) \in Nat
      /\ DriverRank(drv[s]) \in Nat /\ DriverRank(drv'[s]) \in Nat
  BY RankTypes
<1>1. ASSUME HandlerRank(pc'[s]) < HandlerRank(pc[s]),
             cliQ'[s] = cliQ[s], cliEnd'[s] = cliEnd[s], it'[s] = it[s],
             csiQ'[s] = csiQ[s], csiEnd'[s] = csiEnd[s], drv'[s] = drv[s],
             sent'[s] = sent[s], strDone'[s] = strDone[s], ctxErr'[s] = ctxErr[s]
      PROVE  Work(s)' < Work(s)
  <2>1. DataWork(s)' = DataWork(s) /\ ContextWork(s)' = ContextWork(s)
    BY <1>1 DEF DataWork, ContextWork
  <2>2. ControlWork(s)' < ControlWork(s)
    BY <1>1, <1>d DEF ControlWork
  <2> QED BY <2>1, <2>2, <1>a DEF Work
<1>2. CASE \/ Validate(s) \/ AuthenticateAndAuthorize(s) \/ IsCSIDriverReady(s)
           \/ ConvertRequest(s) \/ CallDriverFails(s) \/ ReceiveEOF(s)
           \/ ReceiveError(s)
  <2>1. HandlerRank(pc'[s]) < HandlerRank(pc[s])
    BY <1>2 DEF Validate, AuthenticateAndAuthorize, IsCSIDriverReady,
       ConvertRequest, CallDriverFails, ReceiveEOF, ReceiveError, Proceed, Return,
       TypeOK, HandlerRank
  <2>2. UnchangedByChecks
    BY <1>2 DEF Validate, AuthenticateAndAuthorize, IsCSIDriverReady,
       ConvertRequest, CallDriverFails, ReceiveEOF, ReceiveError
  <2> QED BY <1>1, <2>1, <2>2 DEF UnchangedByChecks
<1>3. CASE CallDriver(s)
  <2>1. DataWork(s)' = DataWork(s)
    BY <1>3 DEF CallDriver, DataWork
  <2>2. HandlerRank(pc'[s]) = HandlerRank(pc[s]) - 4
    BY <1>3, <1>d DEF CallDriver, Proceed, TypeOK, HandlerRank
  <2>3. ControlWork(s)' = ControlWork(s) - 4
    BY <1>3, <2>2, <1>d DEF CallDriver, ControlWork
  <2>4. DriverRank(csiEnd'[s]) = 1 /\ DriverRank(drv'[s]) = 1
    BY <1>3, <1>d DEF CallDriver, TypeOK, DriverRank
  <2>5. ContextWork(s)' <= ContextWork(s) + 2
    BY <1>3, <2>4, <1>d DEF CallDriver, ContextWork
  <2> QED BY <2>1, <2>3, <2>5, <1>a DEF Work
<1>4. CASE ReceiveFromDriver(s)
  <2>1. Len(csiQ'[s]) + 1 <= Len(csiQ[s])
    BY <1>4, <1>b, HeadTailProperties DEF ReceiveFromDriver, TypeOK
  <2>2. DataWork(s)' <= DataWork(s) - 4
    <3>1. sent'[s] = sent[s] /\ cliQ'[s] = cliQ[s]
      BY <1>4 DEF ReceiveFromDriver
    <3> QED BY <3>1, <2>1, <1>b, <1>c, Weights, BoundsAssumption DEF DataWork
  <2>3. HandlerRank(pc'[s]) = HandlerRank(pc[s]) + 3
    BY <1>4, <1>d DEF ReceiveFromDriver, Proceed, TypeOK, HandlerRank
  <2>4. ControlWork(s)' = ControlWork(s) + 3 /\ ContextWork(s)' = ContextWork(s)
    BY <1>4, <2>3, <1>d DEF ReceiveFromDriver, ControlWork, ContextWork
  <2> QED BY <2>2, <2>4, <1>a DEF Work
<1>5. CASE SendToClient(s)
  <2>1. Len(hand[s]) <= 1 /\ Len(hand[s]) \in Nat /\ hand[s] \in Seq(Records)
    BY HandIsSeq, HandLength DEF TypeOK
  <2>2. Len(cliQ[s] \o hand[s]) = Len(cliQ[s]) + Len(hand[s])
    BY <2>1, ConcatProperties DEF TypeOK
  <2>3. Len(cliQ'[s]) <= Len(cliQ[s]) + 1 /\ Len(cliQ'[s]) \in Nat
    BY <1>5, <2>1, <2>2 DEF SendToClient, TypeOK
  <2>4. DataWork(s)' <= DataWork(s) + 2
    <3>1. sent'[s] = sent[s] /\ csiQ'[s] = csiQ[s]
      BY <1>5 DEF SendToClient
    <3> QED BY <3>1, <2>3, <1>b, <1>c, Weights, BoundsAssumption DEF DataWork
  <2>5. HandlerRank(pc'[s]) = HandlerRank(pc[s]) - 3
    BY <1>5, <1>d DEF SendToClient, Proceed, TypeOK, HandlerRank
  <2>6. ControlWork(s)' = ControlWork(s) - 3 /\ ContextWork(s)' = ContextWork(s)
    BY <1>5, <2>5, <1>d DEF SendToClient, ControlWork, ContextWork
  <2> QED BY <2>4, <2>6, <1>a DEF Work
<1>6. CASE SendFails(s)
  <2>1. HandlerRank(pc'[s]) < HandlerRank(pc[s])
    BY <1>6 DEF SendFails, Return, TypeOK, HandlerRank
  <2> QED BY <1>1, <1>6, <2>1 DEF SendFails
<1>7. CASE Finish(s)
  <2>1. DataWork(s)' = DataWork(s)
    BY <1>7 DEF Finish, DataWork
  <2>2. HandlerRank(pc'[s]) < HandlerRank(pc[s])
    BY <1>7 DEF Finish, TypeOK, HandlerRank
  <2>3. ClientEndRank(cliEnd'[s]) <= ClientEndRank(cliEnd[s])
    BY <1>7, <1>d DEF Finish, TypeOK, ReturnCodes, ContextErrors, ClientEndRank
  <2>4. ControlWork(s)' < ControlWork(s)
    BY <1>7, <2>2, <2>3, <1>d DEF Finish, ControlWork
  <2>5. ContextWork(s)' <= ContextWork(s)
    BY <1>7, <1>d DEF Finish, TypeOK, ContextWork
  <2> QED BY <2>1, <2>4, <2>5, <1>a DEF Work
<1>8. CASE HandlerTimeout(s)
  <2>1. DataWork(s)' = DataWork(s) /\ ControlWork(s)' = ControlWork(s)
    BY <1>8 DEF HandlerTimeout, DataWork, ControlWork
  <2>2. ContextWork(s)' < ContextWork(s)
    BY <1>8, <1>d DEF HandlerTimeout, TypeOK, ContextWork
  <2> QED BY <2>1, <2>2, <1>a DEF Work
<1> QED
  BY <1>2, <1>3, <1>4, <1>5, <1>6, <1>7, <1>8
  DEF HandlerStep, streamGetMetadataAllocatedResponse,
      streamGetMetadataDeltaResponse, Relay

\* Every step of the network or the driver takes from the work of its call.
LEMMA WorkStreams ==
  ASSUME TypeOK, TypeOK', NEW s \in Sessions, NetworkStep(s) \/ DriverStep(s)
  PROVE  Work(s)' < Work(s)
<1>a. /\ DataWork(s) \in Int /\ DataWork(s)' \in Int
      /\ ControlWork(s) \in Int /\ ControlWork(s)' \in Int
      /\ ContextWork(s) \in Int /\ ContextWork(s)' \in Int
  BY WorkTypes
<1>b. /\ Len(sent[s]) \in Nat /\ Len(csiQ[s]) \in Nat /\ Len(cliQ[s]) \in Nat
  BY LengthTypes
<1>c. Len(sent'[s]) \in Nat /\ Len(csiQ'[s]) \in Nat /\ Len(cliQ'[s]) \in Nat
  BY LengthTypes
<1>d. /\ HandlerRank(pc[s]) \in Nat /\ HandlerRank(pc'[s]) \in Nat
      /\ IteratorRank(it[s]) \in Nat /\ IteratorRank(it'[s]) \in Nat
      /\ ClientEndRank(cliEnd[s]) \in Nat /\ ClientEndRank(cliEnd'[s]) \in Nat
      /\ DriverRank(csiEnd[s]) \in Nat /\ DriverRank(csiEnd'[s]) \in Nat
      /\ DriverRank(drv[s]) \in Nat /\ DriverRank(drv'[s]) \in Nat
  BY RankTypes
<1>1. ASSUME csiEnd[s] = "open",
             csiEnd'[s] \notin {"none", "idle", "open", "streaming"},
             csiQ'[s] \in Prefixes(csiQ[s]),
             UNCHANGED <<clientVars, channelVars, handlerVars, drv, sent>>
      PROVE  Work(s)' < Work(s)
  <2>1. Len(csiQ'[s]) <= Len(csiQ[s]) /\ Len(csiQ'[s]) \in Nat
    BY <1>1, PrefixLength, LenProperties DEF TypeOK
  <2>2. DataWork(s)' <= DataWork(s)
    BY <1>1, <2>1, <1>b, <1>c, Weights, BoundsAssumption DEF DataWork
  <2>3. DriverRank(csiEnd'[s]) < DriverRank(csiEnd[s])
    BY <1>1, <1>d DEF DriverRank
  <2>4. ContextWork(s)' < ContextWork(s) /\ ControlWork(s)' = ControlWork(s)
    BY <1>1, <2>3, <1>d DEF ContextWork, ControlWork
  <2> QED BY <2>2, <2>4, <1>a DEF Work
<1>2. CASE ResetArrives(s)
  <2>1. DataWork(s)' = DataWork(s) /\ ControlWork(s)' = ControlWork(s)
    BY <1>2 DEF ResetArrives, DataWork, ControlWork
  <2>2. ContextWork(s)' < ContextWork(s)
    BY <1>2, <1>d DEF ResetArrives, TypeOK, ContextWork
  <2> QED BY <2>1, <2>2, <1>a DEF Work
<1>3. CASE ConnectionBreaks(s)
  <2>1. Len(cliQ'[s]) <= Len(cliQ[s]) /\ Len(cliQ'[s]) \in Nat
    BY <1>3, PrefixLength, LenProperties DEF ConnectionBreaks, TypeOK
  <2>2. DataWork(s)' <= DataWork(s)
    BY <1>3, <2>1, <1>b, BoundsAssumption DEF ConnectionBreaks, DataWork
  <2>3. ClientEndRank(cliEnd'[s]) < ClientEndRank(cliEnd[s])
    BY <1>3, <1>d DEF ConnectionBreaks, TypeOK, ClientEndRank
  <2>4. ControlWork(s)' < ControlWork(s) /\ ContextWork(s)' = ContextWork(s)
    BY <1>3, <2>3, <1>d DEF ConnectionBreaks, ControlWork, ContextWork
  <2> QED BY <2>2, <2>4, <1>a DEF Work
<1>4. CASE ContextClosesStream(s)
  <2>1. ctxErr[s] \in ContextErrors
    BY <1>4 DEF ContextClosesStream, TypeOK
  <2> QED BY <1>1, <1>4, <2>1 DEF ContextClosesStream, ContextErrors, TypeOK
<1>5. CASE LostConnectionClosesStream(s)
  BY <1>1, <1>5 DEF LostConnectionClosesStream, TypeOK
<1>6. ASSUME drv[s] = "streaming", drv'[s] \in {"stopped"} \cup DriverCodes,
             csiEnd'[s] = csiEnd[s] \/ csiEnd'[s] \in DriverCodes,
             UNCHANGED <<clientVars, channelVars, handlerVars, csiQ, sent>>
      PROVE  Work(s)' < Work(s)
  <2>1. DataWork(s)' = DataWork(s) /\ ControlWork(s)' = ControlWork(s)
    BY <1>6 DEF DataWork, ControlWork
  <2>2. DriverRank(drv'[s]) < DriverRank(drv[s])
    BY <1>6, CodesAssumption, <1>d DEF DriverCodes, DriverRank
  <2>3. DriverRank(csiEnd'[s]) <= DriverRank(csiEnd[s])
    BY <1>6, CodesAssumption, <1>d DEF DriverCodes, DriverRank
  <2>4. ContextWork(s)' < ContextWork(s)
    BY <1>6, <2>2, <2>3, <1>d DEF ContextWork
  <2> QED BY <2>1, <2>4, <1>a DEF Work
<1>7. CASE DriverStops(s)
  BY <1>6, <1>7 DEF DriverStops, TypeOK
<1>8. CASE DriverEnds(s)
  BY <1>6, <1>8 DEF DriverEnds, TypeOK
<1>9. CASE DriverSends(s)
  <2>1. /\ Len(sent'[s]) = Len(sent[s]) + 1
        /\ Len(csiQ'[s]) <= Len(csiQ[s]) + 1 /\ Len(csiQ'[s]) \in Nat
    <3>1. PICK r \in Records :
            /\ sent' = [sent EXCEPT ![s] = Append(@, r)]
            /\ csiQ' = [csiQ EXCEPT ![s] =
                          IF csiEnd[s] = "open" THEN Append(@, r) ELSE @]
      BY <1>9 DEF DriverSends
    <3>2. /\ Len(Append(sent[s], r)) = Len(sent[s]) + 1
          /\ Len(Append(csiQ[s], r)) = Len(csiQ[s]) + 1
      BY AppendProperties DEF TypeOK
    <3> QED BY <3>1, <3>2 DEF TypeOK
  <2>2. DataWork(s)' < DataWork(s)
    <3>1. cliQ'[s] = cliQ[s]
      BY <1>9 DEF DriverSends
    <3> QED BY <3>1, <2>1, <1>b, <1>c, Weights, BoundsAssumption DEF DataWork
  <2>3. ControlWork(s)' = ControlWork(s) /\ ContextWork(s)' = ContextWork(s)
    BY <1>9, <1>d DEF DriverSends, ControlWork, ContextWork
  <2> QED BY <2>2, <2>3, <1>a DEF Work
<1> QED
  BY <1>2, <1>3, <1>4, <1>5, <1>7, <1>8, <1>9 DEF NetworkStep, DriverStep

\* Every step of the process, and a handler's panic, takes from the work of the
\* process.
LEMMA WorkProcess ==
  ASSUME TypeOK,
         SidecarStep \/ \E s \in Sessions : Alive /\ ConvertPanics(s)
  PROVE  ProcessWork' < ProcessWork
BY DEF TypeOK, Alive, ConvertPanics, SidecarStep, ProcessStep, CSIDriverIsReady,
   StartupFails, ShuttingDown, GracefulStop, GracefulStopReturns,
   DriverConnectionLost, ExitOnConnectionLoss, Killed, ProcessWork

\* A step of a call takes from its work and adds to none.
LEMMA CallProgress ==
  ASSUME NEW s \in Sessions, Work(s)' < Work(s), TypeOK, TypeOK',
         UNCHANGED processVars,
         \A t \in Sessions : t # s => SameAt(t) /\ ctxErr'[t] = ctxErr[t]
  PROVE  Progress
<1>1. ProcessWork' = ProcessWork /\ ProcessWork \in Nat
  BY DEF ProcessWork
<1>2. ASSUME NEW t \in Sessions PROVE Work(t)' <= Work(t)
  <2>1. Work(t) \in Int /\ Work(t)' \in Int
    BY WorkTypes
  <2>2. t # s => Work(t)' = Work(t)
    BY WorkFrame
  <2> QED BY <2>1, <2>2
<1> QED BY <1>1, <1>2 DEF Progress

\* Every step that is not a stutter makes progress.
LEMMA ProgressStep ==
  ASSUME TypeOK, StreamInv, [Next]_vars
  PROVE  Progress \/ UNCHANGED vars
<1>1. TypeOK'
  BY TypeStep
<1>2. ASSUME NEW s \in Sessions, ClientStep(s) \/ ApplicationCancels(s)
      PROVE  Progress
  <2>1. ASSUME NEW t \in Sessions, t # s
        PROVE  SameAt(t) /\ ctxErr'[t] = ctxErr[t]
    BY <1>2, <2>1 DEF SameAt, TypeOK, ClientStep, Call, CallFails,
       getAllocatedBlocks, getChangedBlocks, IteratorReceives, EmitterAccepts,
       EmitterAborts, IteratorEOF, IteratorFails, ApplicationCancels
  <2>2. UNCHANGED processVars
    BY <1>2 DEF ClientStep, Call, CallFails, getAllocatedBlocks,
       getChangedBlocks, IteratorReceives, EmitterAccepts, EmitterAborts,
       IteratorEOF, IteratorFails, ApplicationCancels
  <2>3. Work(s)' < Work(s)
    BY <1>1, <1>2, WorkClient DEF StreamInv
  <2> QED BY <1>1, <2>1, <2>2, <2>3, CallProgress
<1>3. ASSUME NEW s \in Sessions, HandlerStep(s) \/ HandlerTimeout(s)
      PROVE  Progress
  <2>1. ASSUME NEW t \in Sessions, t # s
        PROVE  SameAt(t) /\ ctxErr'[t] = ctxErr[t]
    BY <1>3, <2>1 DEF SameAt, TypeOK, HandlerStep, HandlerTimeout, Proceed, Return,
       UnchangedByChecks, Validate, AuthenticateAndAuthorize, IsCSIDriverReady,
       ConvertRequest, CallDriver, CallDriverFails,
       streamGetMetadataAllocatedResponse, streamGetMetadataDeltaResponse, Relay,
       ReceiveFromDriver, ReceiveEOF, ReceiveError, SendToClient, SendFails, Finish
  <2>2. UNCHANGED processVars
    BY <1>3 DEF HandlerStep, HandlerTimeout, UnchangedByChecks, Validate,
       AuthenticateAndAuthorize, IsCSIDriverReady, ConvertRequest, CallDriver,
       CallDriverFails, streamGetMetadataAllocatedResponse,
       streamGetMetadataDeltaResponse, Relay, ReceiveFromDriver, ReceiveEOF,
       ReceiveError, SendToClient, SendFails, Finish
  <2>3. Work(s)' < Work(s)
    BY <1>1, <1>3, WorkHandler
  <2> QED BY <1>1, <2>1, <2>2, <2>3, CallProgress
<1>4. ASSUME NEW s \in Sessions, NetworkStep(s) \/ DriverStep(s)
      PROVE  Progress
  <2>1. ASSUME NEW t \in Sessions, t # s
        PROVE  SameAt(t) /\ ctxErr'[t] = ctxErr[t]
    BY <1>4, <2>1 DEF SameAt, TypeOK, NetworkStep, DriverStep, ResetArrives,
       ConnectionBreaks, ContextClosesStream, LostConnectionClosesStream,
       DriverStops, DriverSends, DriverEnds
  <2>2. UNCHANGED processVars
    BY <1>4 DEF NetworkStep, DriverStep, ResetArrives, ConnectionBreaks,
       ContextClosesStream, LostConnectionClosesStream, DriverStops, DriverSends,
       DriverEnds
  <2>3. Work(s)' < Work(s)
    BY <1>1, <1>4, WorkStreams
  <2> QED BY <1>1, <2>1, <2>2, <2>3, CallProgress
<1>5. ASSUME SidecarStep \/ \E s \in Sessions : Alive /\ ConvertPanics(s)
      PROVE  Progress
  <2>1. ProcessWork' < ProcessWork /\ ProcessWork \in Nat /\ ProcessWork' \in Nat
    BY <1>5, WorkProcess DEF ProcessWork
  <2>2. ASSUME NEW t \in Sessions PROVE Work(t)' <= Work(t)
    <3>1. SameAt(t) /\ ctxErr'[t] = ctxErr[t]
      BY <1>5 DEF SameAt, ConvertPanics, SidecarStep, ProcessStep,
         CSIDriverIsReady, StartupFails, ShuttingDown, GracefulStop,
         GracefulStopReturns, DriverConnectionLost, ExitOnConnectionLoss, Killed
    <3>2. Work(t) \in Int
      BY <1>1, WorkTypes
    <3> QED BY <3>1, <3>2, WorkFrame
  <2> QED BY <2>1, <2>2 DEF Progress
<1> QED
  BY <1>2, <1>3, <1>4, <1>5 DEF Next, Quiescent

\* The driver has sent no more than the bound, so a call's work is bounded by
\* what it was at first.
LEMMA WorkBounded == TypeOK /\ StreamInv /\ WorkInv /\ [Next]_vars => WorkInv'
<1> SUFFICES ASSUME TypeOK, StreamInv, WorkInv, [Next]_vars, NEW t \in Sessions
             PROVE  /\ Len(sent'[t]) <= MaxRecords
                    /\ Work(t)' \in Nat /\ Work(t)' <= 5 * MaxRecords + 22
  BY DEF WorkInv
<1>1. TypeOK'
  BY TypeStep
<1>2. Work(t)' <= Work(t)
  <2>1. Work(t) \in Int
    BY <1>1, WorkTypes
  <2>2. CASE UNCHANGED vars
    BY <2>1, <2>2, WorkFrame DEF SameAt
  <2> QED BY <2>2, ProgressStep DEF Progress
<1>3. Len(sent'[t]) <= MaxRecords
  <2>1. ASSUME NEW s \in Sessions, DriverSends(s) PROVE Len(sent'[t]) <= MaxRecords
    <3>1. PICK r \in Records : sent' = [sent EXCEPT ![s] = Append(@, r)]
      BY <2>1 DEF DriverSends
    <3>2. Len(Append(sent[s], r)) = Len(sent[s]) + 1 /\ Len(sent[s]) \in Nat
      BY AppendProperties, LenProperties DEF TypeOK
    <3> QED BY <2>1, <3>1, <3>2, BoundsAssumption DEF DriverSends, WorkInv, TypeOK
  <2>2. CASE UNCHANGED sent
    BY <2>2 DEF WorkInv
  <2>3. ASSUME NEW s \in Sessions, ClientStep(s) \/ ApplicationCancels(s)
        PROVE  UNCHANGED sent
    BY <2>3 DEF ClientStep, Call, CallFails, getAllocatedBlocks,
       getChangedBlocks, IteratorReceives, EmitterAccepts, EmitterAborts,
       IteratorEOF, IteratorFails, ApplicationCancels
  <2>4. ASSUME NEW s \in Sessions,
               HandlerStep(s) \/ ConvertPanics(s) \/ HandlerTimeout(s)
        PROVE  UNCHANGED sent
    BY <2>4 DEF HandlerStep, HandlerTimeout, UnchangedByChecks, Validate,
       AuthenticateAndAuthorize, IsCSIDriverReady, ConvertRequest, ConvertPanics,
       CallDriver, CallDriverFails, streamGetMetadataAllocatedResponse,
       streamGetMetadataDeltaResponse, Relay, ReceiveFromDriver, ReceiveEOF,
       ReceiveError, SendToClient, SendFails, Finish
  <2>5. ASSUME NEW s \in Sessions, NetworkStep(s) \/ DriverEnds(s)
        PROVE  UNCHANGED sent
    BY <2>5 DEF NetworkStep, ResetArrives, ConnectionBreaks, ContextClosesStream,
       LostConnectionClosesStream, DriverStops, DriverEnds
  <2>6. ASSUME SidecarStep \/ UNCHANGED vars PROVE UNCHANGED sent
    BY <2>6 DEF SidecarStep, ProcessStep, CSIDriverIsReady, StartupFails,
       ShuttingDown, GracefulStop, GracefulStopReturns, DriverConnectionLost,
       ExitOnConnectionLoss, Killed
  <2> QED
    BY <2>1, <2>2, <2>3, <2>4, <2>5, <2>6 DEF Next, Quiescent, DriverStep
<1>4. /\ Work(t) \in Int /\ Work(t)' \in Int
      /\ 5 * MaxRecords + 22 \in Nat /\ Work(t) <= 5 * MaxRecords + 22
  <2>1. Work(t) \in Int /\ Work(t)' \in Int
    BY <1>1, WorkTypes
  <2>2. 5 * MaxRecords + 22 \in Nat
    BY BoundsAssumption
  <2>3. Work(t) <= 5 * MaxRecords + 22
    BY DEF WorkInv
  <2> QED BY <2>1, <2>2, <2>3
<1>5. Work(t)' >= 0
  <2>1. /\ Len(sent'[t]) \in Nat /\ Len(csiQ'[t]) \in Nat /\ Len(cliQ'[t]) \in Nat
        /\ ControlWork(t)' \in Nat /\ ContextWork(t)' \in Nat
    BY <1>1, LengthTypes, WorkTypes
  <2>2. DataWork(t)' \in Nat
    BY <2>1, <1>3, WeightsAreNumbers, BoundsAssumption DEF DataWork
  <2> QED BY <2>1, <2>2 DEF Work
<1> QED BY <1>2, <1>3, <1>4, <1>5

\* For any calls and any bounds: the work ahead of a call is a number that
\* starts at 5 * MaxRecords + 22 and never exceeds it.
THEOREM WorkIsBounded == Spec => []WorkInv
<1>1. Init => WorkInv
  <2> SUFFICES ASSUME Init, NEW s \in Sessions
               PROVE  /\ Len(sent[s]) <= MaxRecords
                      /\ Work(s) \in Nat /\ Work(s) <= 5 * MaxRecords + 22
    BY DEF WorkInv
  <2>1. Len(sent[s]) = 0 /\ Len(csiQ[s]) = 0 /\ Len(cliQ[s]) = 0
    BY DEF Init
  <2>2. DataWork(s) = 5 * MaxRecords
    BY <2>1, BoundsAssumption DEF DataWork
  <2>3. ControlWork(s) = 16
    BY DEF Init, ControlWork, HandlerRank, IteratorRank, ClientEndRank
  <2>4. ContextWork(s) = 6
    BY DEF Init, ContextWork, DriverRank
  <2> QED BY <2>1, <2>2, <2>3, <2>4, BoundsAssumption DEF Work
<1>2. TypeOK /\ StreamInv /\ WorkInv /\ [Next]_vars => WorkInv'
  BY WorkBounded
<1> QED BY <1>1, <1>2, TypeCorrect, StreamInvariant, PTL DEF Spec

\* Whatever the interleaving, every step is one of a bounded number: with the
\* bounds of WorkIsBounded, calls that are finitely many and a driver that sends
\* finitely many records leave no infinite run, and no livelock, of the client,
\* the handler, the two streams and the process.
THEOREM StepsProgress == Spec => EveryStepProgresses
<1>1. TypeOK /\ StreamInv /\ [Next]_vars => [Progress]_vars
  BY ProgressStep
<1> QED BY <1>1, TypeCorrect, StreamInvariant, PTL DEF Spec, EveryStepProgresses
=============================================================================
