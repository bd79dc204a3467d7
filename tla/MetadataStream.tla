--------------------------- MODULE MetadataStream ---------------------------
(***************************************************************************)
(* The path of an enumeration from the CSI driver to the backup            *)
(* application:                                                            *)
(*                                                                         *)
(*   driver --csiQ--> handler in the sidecar --cliQ--> iterator -> emitter *)
(*                                                                         *)
(* Each arrow is a gRPC server stream: a FIFO of records of bounded        *)
(* capacity that ends once, with a status, and whose reader is given the   *)
(* status only after the records that arrived before it.  The sidecar runs *)
(* one handler per call; the handlers share the process, its readiness,    *)
(* its connection to the driver and its shutdown.                          *)
(*                                                                         *)
(* A record is a value of Records.  A status is one of a few codes:        *)
(* "Refused" stands for every code with which the handler turns a request  *)
(* down before it calls the driver, "DriverError" for every code of the    *)
(* driver's own but Unknown.                                               *)
(***************************************************************************)
EXTENDS Naturals, Sequences

CONSTANTS Sessions,       \* the calls made of the sidecar
          DeltaSessions,  \* those that call GetMetadataDelta
          Records,        \* the contents of a response
          MaxRecords,     \* bound: responses the driver sends per call
          DriverErrors,   \* the error codes the driver may end a stream with
          CsiWindow,      \* responses in flight from driver to handler
          WriteQuota,     \* responses the sidecar queues for a client
          ClientWindow    \* responses in flight to the client

ASSUME SessionsAssumption == DeltaSessions \subseteq Sessions
ASSUME CodesAssumption == DriverErrors \subseteq {"DriverError", "Unknown"}
ASSUME BoundsAssumption ==
  /\ MaxRecords \in Nat
  /\ CsiWindow \in Nat \ {0}
  /\ WriteQuota \in Nat \ {0}
  /\ ClientWindow \in Nat

VARIABLES
  it,         \* the iterator of the client
  itHand,     \* <<r>> while the emitter has record r, else <<>>
  recordNum,  \* records the iterator has received
  emitted,    \* records the emitter accepted
  cliQ,       \* responses sent to the client and not received by it
  cliEnd,     \* how the client's stream ended: "none" (no call), "open", ...
  pc,         \* where the handler is
  hand,       \* <<r>> while the handler has record r to send, else <<>>
  ret,        \* what the handler returns
  strDone,    \* the context of the client's stream is done (server side)
  ctxErr,     \* the error of the handler's own context, "none" if not done
  metric,     \* what the handler recorded: <<operation, code>>
  csiQ,       \* responses of the driver the handler has not received
  csiEnd,     \* how the handler's stream from the driver ended
  drv,        \* the driver's side of that stream
  sent,       \* history: all the driver ever sent
  sidecar,    \* the process
  csiConn     \* its connection to the driver

clientVars  == <<it, itHand, recordNum, emitted>>
channelVars == <<cliQ, cliEnd>>
handlerVars == <<pc, hand, ret, strDone, ctxErr, metric>>
driverVars  == <<csiQ, csiEnd, drv, sent>>
processVars == <<sidecar, csiConn>>
vars == <<clientVars, channelVars, handlerVars, driverVars, processVars>>

DriverCodes == {"OK"} \cup DriverErrors
ContextErrors == {"Canceled", "DeadlineExceeded"}
ReturnCodes == {"OK", "Refused", "Unavailable", "DriverError", "Internal"}
                 \cup ContextErrors
NoMetric == <<"none", "none">>

Prefixes(q) == {SubSeq(q, 1, k) : k \in 0..Len(q)}
Precedes(a, b) ==
  /\ Len(a) <= Len(b)
  /\ \A i \in 1..Len(a) : a[i] = b[i]

Init ==
  /\ it = [s \in Sessions |-> "start"]
  /\ itHand = [s \in Sessions |-> <<>>]
  /\ recordNum = [s \in Sessions |-> 0]
  /\ emitted = [s \in Sessions |-> <<>>]
  /\ cliQ = [s \in Sessions |-> <<>>]
  /\ cliEnd = [s \in Sessions |-> "none"]
  /\ pc = [s \in Sessions |-> "none"]
  /\ hand = [s \in Sessions |-> <<>>]
  /\ ret = [s \in Sessions |-> "OK"]
  /\ strDone = [s \in Sessions |-> FALSE]
  /\ ctxErr = [s \in Sessions |-> "none"]
  /\ metric = [s \in Sessions |-> NoMetric]
  /\ csiQ = [s \in Sessions |-> <<>>]
  /\ csiEnd = [s \in Sessions |-> "none"]
  /\ drv = [s \in Sessions |-> "idle"]
  /\ sent = [s \in Sessions |-> <<>>]
  /\ sidecar = "starting"
  /\ csiConn = "up"

Alive == sidecar \notin {"exited", "crashed"}
HandlerRuns(s) == pc[s] \notin {"none", "done"}
EnumerationOver(s) == it[s] \in {"done", "failed"}

----------------------------------------------------------------------------
(* The client: one iterator per call.                                      *)

\* The RPC is accepted and the server starts a handler for it.  While the
\* server drains, a stream may still slip in on a connection that has not
\* yet seen the GOAWAY.
Call(s) ==
  /\ it[s] = "start"
  /\ Alive
  /\ it' = [it EXCEPT ![s] = "recv"]
  /\ cliEnd' = [cliEnd EXCEPT ![s] = "open"]
  /\ pc' = [pc EXCEPT ![s] = "validate"]
  /\ UNCHANGED <<itHand, recordNum, emitted, cliQ, hand, ret, strDone, ctxErr,
                 metric, driverVars, processVars>>

\* The RPC cannot be started: the listener is closed or the process gone.
CallFails(s) ==
  /\ it[s] = "start"
  /\ sidecar \in {"draining", "exited", "crashed"}
  /\ it' = [it EXCEPT ![s] = "failed"]
  /\ UNCHANGED <<itHand, recordNum, emitted, channelVars, handlerVars,
                 driverVars, processVars>>

\* stream.Recv() yields a record, which is counted and handed to the emitter.
IteratorReceives(s) ==
  /\ it[s] = "recv"
  /\ cliQ[s] # <<>>
  /\ it' = [it EXCEPT ![s] = "emit"]
  /\ itHand' = [itHand EXCEPT ![s] = <<Head(cliQ[s])>>]
  /\ cliQ' = [cliQ EXCEPT ![s] = Tail(@)]
  /\ recordNum' = [recordNum EXCEPT ![s] = @ + 1]
  /\ UNCHANGED <<emitted, cliEnd, handlerVars, driverVars, processVars>>

\* SnapshotMetadataIteratorRecord returns nil.
EmitterAccepts(s) ==
  /\ it[s] = "emit"
  /\ it' = [it EXCEPT ![s] = "recv"]
  /\ itHand' = [itHand EXCEPT ![s] = <<>>]
  /\ emitted' = [emitted EXCEPT ![s] = @ \o itHand[s]]
  /\ UNCHANGED <<recordNum, channelVars, handlerVars, driverVars, processVars>>

\* SnapshotMetadataIteratorRecord returns an error: run returns it, and its
\* deferred cancelFn closes the stream unless it had ended.
EmitterAborts(s) ==
  /\ it[s] = "emit"
  /\ it' = [it EXCEPT ![s] = "failed"]
  /\ itHand' = [itHand EXCEPT ![s] = <<>>]
  /\ cliQ' = [cliQ EXCEPT ![s] = <<>>]
  /\ cliEnd' = [cliEnd EXCEPT ![s] = IF @ = "open" THEN "Canceled" ELSE @]
  /\ UNCHANGED <<recordNum, emitted, handlerVars, driverVars, processVars>>

\* (Mutant: whatever ends the stream is taken for its EOF.)
IteratorEOFOnAnyEnd(s) ==
  /\ it[s] = "recv" /\ cliQ[s] = <<>> /\ cliEnd[s] # "open"
  /\ it' = [it EXCEPT ![s] = "done"]
  /\ UNCHANGED <<itHand, recordNum, emitted, channelVars, handlerVars,
                 driverVars, processVars>>

\* stream.Recv() yields io.EOF: SnapshotMetadataIteratorDone is invoked.
IteratorEOF(s) ==
  /\ it[s] = "recv"
  /\ cliQ[s] = <<>>
  /\ cliEnd[s] = "OK"
  /\ it' = [it EXCEPT ![s] = "done"]
  /\ UNCHANGED <<itHand, recordNum, emitted, channelVars, handlerVars,
                 driverVars, processVars>>

\* stream.Recv() yields an error, which run returns.
IteratorFails(s) ==
  /\ it[s] = "recv"
  /\ cliQ[s] = <<>>
  /\ cliEnd[s] \notin {"open", "OK"}
  /\ it' = [it EXCEPT ![s] = "failed"]
  /\ UNCHANGED <<itHand, recordNum, emitted, channelVars, handlerVars,
                 driverVars, processVars>>

getAllocatedBlocks(s) ==
  /\ s \notin DeltaSessions
  /\ \/ IteratorReceives(s) \/ EmitterAccepts(s) \/ EmitterAborts(s)
     \/ IteratorEOF(s) \/ IteratorFails(s)

getChangedBlocks(s) ==
  /\ s \in DeltaSessions
  /\ \/ IteratorReceives(s) \/ EmitterAccepts(s) \/ EmitterAborts(s)
     \/ IteratorEOF(s) \/ IteratorFails(s)

\* The application cancels the context it gave the iterator.  What had
\* arrived is still received; what had not is lost.
ApplicationCancels(s) ==
  /\ it[s] \in {"recv", "emit"}
  /\ cliEnd[s] = "open"
  /\ cliEnd' = [cliEnd EXCEPT ![s] = "Canceled"]
  /\ \E q \in Prefixes(cliQ[s]) :
       /\ Len(q) <= ClientWindow
       /\ cliQ' = [cliQ EXCEPT ![s] = q]
  /\ UNCHANGED <<clientVars, handlerVars, driverVars, processVars>>

\* The client's RST_STREAM reaches the server: the stream's context, and with
\* it the handler's, is done.
ResetArrives(s) ==
  /\ Alive /\ HandlerRuns(s)
  /\ cliEnd[s] = "Canceled" /\ ~strDone[s]
  /\ strDone' = [strDone EXCEPT ![s] = TRUE]
  /\ ctxErr' = [ctxErr EXCEPT ![s] = IF @ = "none" THEN "Canceled" ELSE @]
  /\ UNCHANGED <<clientVars, channelVars, pc, hand, ret, metric, driverVars,
                 processVars>>

\* The connection of a sidecar that is gone breaks.  What the sidecar had sent
\* may be lost from any point on, its final status included.  A sidecar that
\* exited had flushed what it sent.
ConnectionBreaks(s) ==
  /\ \/ sidecar = "crashed"
     \/ sidecar = "exited" /\ (cliEnd[s] = "open" \/ Len(cliQ[s]) > ClientWindow)
  /\ cliEnd[s] \notin {"none", "Canceled", "Broken"}
  /\ cliEnd' = [cliEnd EXCEPT ![s] = "Broken"]
  /\ \E q \in Prefixes(cliQ[s]) : cliQ' = [cliQ EXCEPT ![s] = q]
  /\ UNCHANGED <<clientVars, handlerVars, driverVars, processVars>>

----------------------------------------------------------------------------
(* The handler.                                                            *)

Proceed(s, from, to) ==
  /\ pc[s] = from
  /\ pc' = [pc EXCEPT ![s] = to]
  /\ UNCHANGED ret

Return(s, from, code) ==
  /\ pc[s] = from
  /\ pc' = [pc EXCEPT ![s] = "finish"]
  /\ ret' = [ret EXCEPT ![s] = code]

UnchangedByChecks ==
  UNCHANGED <<clientVars, channelVars, hand, strDone, ctxErr, metric,
              driverVars, processVars>>

Validate(s) ==
  /\ Proceed(s, "validate", "authorize") \/ Return(s, "validate", "Refused")
  /\ UnchangedByChecks

AuthenticateAndAuthorize(s) ==
  /\ Proceed(s, "authorize", "ready") \/ Return(s, "authorize", "Refused")
  /\ UnchangedByChecks

\* (Mutant: the stop does not make the health server NOT_SERVING.)
IsReadyUntilExit == sidecar \in {"running", "shuttingDown", "draining"}

\* The health server is SERVING from CSIDriverIsReady to shuttingDown.
IsReady == sidecar = "running"

IsCSIDriverReady(s) ==
  /\ IF IsReady THEN Proceed(s, "ready", "convert")
                ELSE Return(s, "ready", "Refused")
  /\ UnchangedByChecks

\* The snapshot, its content, the driver's name and the credentials.
ConvertRequest(s) ==
  /\ Proceed(s, "convert", "call") \/ Return(s, "convert", "Refused")
  /\ UnchangedByChecks

\* A VolumeSnapshot or VolumeSnapshotContent without a status is dereferenced:
\* the panic is not recovered and the process ends.
ConvertPanics(s) ==
  /\ pc[s] = "convert"
  /\ sidecar' = "crashed"
  /\ UNCHANGED <<clientVars, channelVars, handlerVars, driverVars, csiConn>>

CallDriver(s) ==
  /\ ctxErr[s] = "none" /\ csiConn = "up"
  /\ Proceed(s, "call", "recv")
  /\ csiEnd' = [csiEnd EXCEPT ![s] = "open"]
  /\ drv' = [drv EXCEPT ![s] = "streaming"]
  /\ UNCHANGED <<clientVars, channelVars, hand, strDone, ctxErr, metric, csiQ,
                 sent, processVars>>

CallDriverFails(s) ==
  /\ \/ ctxErr[s] # "none" /\ Return(s, "call", ctxErr[s])
     \/ csiConn = "lost" /\ Return(s, "call", "Unavailable")
  /\ UnchangedByChecks

ReceiveFromDriver(s) ==
  /\ csiQ[s] # <<>>
  /\ Proceed(s, "recv", "send")
  /\ hand' = [hand EXCEPT ![s] = <<Head(csiQ[s])>>]
  /\ csiQ' = [csiQ EXCEPT ![s] = Tail(@)]
  /\ UNCHANGED <<clientVars, channelVars, strDone, ctxErr, metric, csiEnd, drv,
                 sent, processVars>>

ReceiveEOF(s) ==
  /\ csiQ[s] = <<>>
  /\ csiEnd[s] = "OK"
  /\ Return(s, "recv", "OK")
  /\ UnchangedByChecks

\* (Mutant: the driver's Unknown is passed on too.)
StatusPass(code) == code

\* A status other than Unknown is passed on as it is.
StatusPassOrWrapError(code) == IF code = "Unknown" THEN "Internal" ELSE code

\* (Mutant: the loop ends without error whatever Recv returned.)
ReceiveErrorAsEOF(s) ==
  /\ csiQ[s] = <<>> /\ csiEnd[s] \notin {"none", "open", "OK"}
  /\ Return(s, "recv", "OK")
  /\ UnchangedByChecks

ReceiveError(s) ==
  /\ csiQ[s] = <<>>
  /\ csiEnd[s] \notin {"none", "open", "OK"}
  /\ Return(s, "recv", StatusPassOrWrapError(csiEnd[s]))
  /\ UnchangedByChecks

\* (Mutant: a response that was queued is sent again.)
SendToClientAgain(s) ==
  /\ ~strDone[s] /\ Len(cliQ[s]) < ClientWindow + WriteQuota
  /\ pc[s] = "send"
  /\ cliQ' = [cliQ EXCEPT ![s] = IF cliEnd[s] = "open" THEN @ \o hand[s] ELSE @]
  /\ \/ UNCHANGED <<pc, hand>>
     \/ pc' = [pc EXCEPT ![s] = "recv"] /\ hand' = [hand EXCEPT ![s] = <<>>]
  /\ UNCHANGED <<clientVars, cliEnd, ret, strDone, ctxErr, metric, driverVars,
                 processVars>>

\* Send queues the response.  A client that cancelled no longer takes it.
SendToClient(s) ==
  /\ ~strDone[s]
  /\ Len(cliQ[s]) < ClientWindow + WriteQuota
  /\ Proceed(s, "send", "recv")
  /\ hand' = [hand EXCEPT ![s] = <<>>]
  /\ cliQ' = [cliQ EXCEPT ![s] = IF cliEnd[s] = "open" THEN @ \o hand[s] ELSE @]
  /\ UNCHANGED <<clientVars, cliEnd, strDone, ctxErr, metric, driverVars,
                 processVars>>

\* Send is unblocked by the client's stream, and not by the handler's timeout.
SendFails(s) ==
  /\ strDone[s]
  /\ Return(s, "send", "Canceled")
  /\ hand' = [hand EXCEPT ![s] = <<>>]
  /\ UNCHANGED <<clientVars, channelVars, strDone, ctxErr, metric, driverVars,
                 processVars>>

Relay(s) ==
  \/ ReceiveFromDriver(s) \/ ReceiveEOF(s) \/ ReceiveError(s)
  \/ SendToClient(s) \/ SendFails(s)

streamGetMetadataAllocatedResponse(s) == s \notin DeltaSessions /\ Relay(s)
streamGetMetadataDeltaResponse(s) == s \in DeltaSessions /\ Relay(s)

\* The operation name under which each handler records its metrics.
OperationName(s) == IF s \in DeltaSessions THEN "MetadataAllocated"
                                           ELSE "MetadataAllocated"

\* What the metrics manager is told: the operation and how it ended.
RecordMetricsWithLabels(s) ==
  metric' = [metric EXCEPT ![s] = <<OperationName(s), ret[s]>>]

\* The handler returns: the metrics are recorded, its context is cancelled, and
\* the server ends the client's stream with the status after the responses.
Finish(s) ==
  /\ pc[s] = "finish"
  /\ pc' = [pc EXCEPT ![s] = "done"]
  /\ RecordMetricsWithLabels(s)
  /\ ctxErr' = [ctxErr EXCEPT ![s] = IF @ = "none" THEN "Canceled" ELSE @]
  /\ cliEnd' = [cliEnd EXCEPT ![s] = IF @ = "open" THEN ret[s] ELSE @]
  /\ UNCHANGED <<clientVars, cliQ, hand, ret, strDone, driverVars, processVars>>

HandlerStep(s) ==
  /\ Alive
  /\ \/ Validate(s) \/ AuthenticateAndAuthorize(s) \/ IsCSIDriverReady(s)
     \/ ConvertRequest(s) \/ CallDriver(s) \/ CallDriverFails(s)
     \/ streamGetMetadataAllocatedResponse(s)
     \/ streamGetMetadataDeltaResponse(s)
     \/ Finish(s)

\* (Mutant: the handler uses the stream's context as it is.)
HandlerTimeoutNever(s) == FALSE /\ UNCHANGED vars

\* MaxStreamDur elapses.
HandlerTimeout(s) ==
  /\ Alive /\ HandlerRuns(s)
  /\ ctxErr[s] = "none"
  /\ ctxErr' = [ctxErr EXCEPT ![s] = "DeadlineExceeded"]
  /\ UNCHANGED <<clientVars, channelVars, pc, hand, ret, strDone, metric,
                 driverVars, processVars>>

----------------------------------------------------------------------------
(* The stream from the driver.                                             *)

DriverSends(s) ==
  /\ Alive /\ csiConn = "up"
  /\ drv[s] = "streaming"
  /\ Len(sent[s]) < MaxRecords
  /\ Len(csiQ[s]) < CsiWindow
  /\ \E r \in Records :
       /\ sent' = [sent EXCEPT ![s] = Append(@, r)]
       /\ csiQ' = [csiQ EXCEPT ![s] =
                     IF csiEnd[s] = "open" THEN Append(@, r) ELSE @]
  /\ UNCHANGED <<clientVars, channelVars, handlerVars, csiEnd, drv, processVars>>

DriverEnds(s) ==
  /\ Alive /\ csiConn = "up"
  /\ drv[s] = "streaming"
  /\ \E code \in DriverCodes :
       /\ drv' = [drv EXCEPT ![s] = code]
       /\ csiEnd' = [csiEnd EXCEPT ![s] = IF @ = "open" THEN code ELSE @]
  /\ UNCHANGED <<clientVars, channelVars, handlerVars, csiQ, sent, processVars>>

\* (Mutants: the driver's stream ends as cancelled whatever the cause; the
\* driver is called with a context of its own.)
ContextClosesStreamAsCanceled(s) ==
  /\ Alive /\ csiEnd[s] = "open" /\ ctxErr[s] # "none"
  /\ csiEnd' = [csiEnd EXCEPT ![s] = "Canceled"]
  /\ UNCHANGED <<clientVars, channelVars, handlerVars, csiQ, drv, sent, processVars>>
ContextClosesStreamNever(s) == FALSE /\ UNCHANGED vars

\* The goroutine that watches the stream's context closes the stream, if the
\* driver's status has not closed it before.
ContextClosesStream(s) ==
  /\ Alive
  /\ csiEnd[s] = "open"
  /\ ctxErr[s] # "none"
  /\ csiEnd' = [csiEnd EXCEPT ![s] = ctxErr[s]]
  /\ \E q \in Prefixes(csiQ[s]) : csiQ' = [csiQ EXCEPT ![s] = q]
  /\ UNCHANGED <<clientVars, channelVars, handlerVars, drv, sent, processVars>>

\* The driver's connection is gone, and its open streams with it.
LostConnectionClosesStream(s) ==
  /\ Alive
  /\ csiConn = "lost"
  /\ csiEnd[s] = "open"
  /\ csiEnd' = [csiEnd EXCEPT ![s] = "Unavailable"]
  /\ \E q \in Prefixes(csiQ[s]) : csiQ' = [csiQ EXCEPT ![s] = q]
  /\ UNCHANGED <<clientVars, channelVars, handlerVars, drv, sent, processVars>>

\* The driver learns that nobody reads its stream any more.
DriverStops(s) ==
  /\ drv[s] = "streaming"
  /\ csiEnd[s] # "open" \/ ~Alive \/ csiConn = "lost"
  /\ drv' = [drv EXCEPT ![s] = "stopped"]
  /\ UNCHANGED <<clientVars, channelVars, handlerVars, csiQ, csiEnd, sent,
                 processVars>>

----------------------------------------------------------------------------
(* The process.                                                            *)

ProcessStep(from, to) ==
  /\ sidecar = from
  /\ sidecar' = to
  /\ UNCHANGED <<clientVars, channelVars, handlerVars, driverVars, csiConn>>

\* The driver has been validated.
CSIDriverIsReady == ProcessStep("starting", "running")

\* The validation fails.
StartupFails == ProcessStep("starting", "crashed")

\* A termination signal: Stop first makes the health server NOT_SERVING ...
ShuttingDown == ProcessStep("running", "shuttingDown")

\* ... and then lets the gRPC server refuse new connections and streams ...
GracefulStop == ProcessStep("shuttingDown", "draining")

\* ... until every handler has returned and every connection is closed.
Flushed(s) == ~HandlerRuns(s) /\ Len(cliQ[s]) <= ClientWindow

\* (Mutant: Stop does not wait.)
GracefulStopReturnsAtOnce == ProcessStep("draining", "exited")

GracefulStopReturns ==
  /\ \A s \in Sessions : Flushed(s)
  /\ ProcessStep("draining", "exited")

DriverConnectionLost ==
  /\ Alive
  /\ csiConn = "up"
  /\ csiConn' = "lost"
  /\ UNCHANGED <<clientVars, channelVars, handlerVars, driverVars, sidecar>>

\* The CSI library's ExitOnConnectionLoss.
ExitOnConnectionLoss ==
  /\ Alive
  /\ csiConn = "lost"
  /\ sidecar' = "crashed"
  /\ UNCHANGED <<clientVars, channelVars, handlerVars, driverVars, csiConn>>

\* Another goroutine ends the process (klog.Fatalf of the HTTP server), or a
\* signal that is not caught does.
Killed ==
  /\ Alive
  /\ sidecar' = "crashed"
  /\ UNCHANGED <<clientVars, channelVars, handlerVars, driverVars, csiConn>>

ClientStep(s) ==
  Call(s) \/ CallFails(s) \/ getAllocatedBlocks(s) \/ getChangedBlocks(s)

NetworkStep(s) ==
  \/ ResetArrives(s) \/ ConnectionBreaks(s) \/ ContextClosesStream(s)
  \/ LostConnectionClosesStream(s) \/ DriverStops(s)

DriverStep(s) == DriverSends(s) \/ DriverEnds(s)

SidecarStep ==
  \/ CSIDriverIsReady \/ StartupFails \/ ShuttingDown \/ GracefulStop
  \/ GracefulStopReturns \/ DriverConnectionLost \/ ExitOnConnectionLoss
  \/ Killed

\* Nothing is left to do: a state with no successor that is not one of these
\* is a deadlock.
Quiescent ==
  /\ ~Alive
  /\ \A s \in Sessions :
       /\ EnumerationOver(s)
       /\ drv[s] # "streaming"
       /\ cliEnd[s] # "open"
  /\ UNCHANGED vars

Next ==
  \/ \E s \in Sessions :
       \/ ClientStep(s) \/ ApplicationCancels(s) \/ NetworkStep(s)
       \/ HandlerStep(s) \/ (Alive /\ ConvertPanics(s)) \/ HandlerTimeout(s)
       \/ DriverStep(s)
  \/ SidecarStep
  \/ Quiescent

Spec == Init /\ [][Next]_vars
----------------------------------------------------------------------------
(* Fairness.  Goroutines that can run do run, timers fire and the network    *)
(* delivers.  Nothing is assumed of the driver, of the application, of       *)
(* signals or of the driver's connection.                                    *)

SidecarFairness ==
  /\ WF_vars(CSIDriverIsReady \/ StartupFails)
  /\ WF_vars(GracefulStop) /\ WF_vars(GracefulStopReturns)
  /\ WF_vars(ExitOnConnectionLoss)
  /\ \A s \in Sessions :
       /\ WF_vars(HandlerStep(s)) /\ WF_vars(HandlerTimeout(s))
       /\ WF_vars(ContextClosesStream(s)) /\ WF_vars(LostConnectionClosesStream(s))
       /\ WF_vars(DriverStops(s))
       /\ WF_vars(ResetArrives(s)) /\ WF_vars(ConnectionBreaks(s))

\* A client that keeps reading: its emitter returns and it calls Recv again.
ClientFairness ==
  \A s \in Sessions : WF_vars(getAllocatedBlocks(s)) /\ WF_vars(getChangedBlocks(s))

FairSpec == Spec /\ SidecarFairness /\ ClientFairness
IdleClientSpec == Spec /\ SidecarFairness

----------------------------------------------------------------------------
(* Properties.                                                             *)

AtMostOne(S) == {<<>>} \cup {<<x>> : x \in S}

\* Type invariant.
TypeOK ==
  /\ it \in [Sessions -> {"start", "recv", "emit", "done", "failed"}]
  /\ itHand \in [Sessions -> AtMostOne(Records)]
  /\ recordNum \in [Sessions -> Nat]
  /\ emitted \in [Sessions -> Seq(Records)]
  /\ cliQ \in [Sessions -> Seq(Records)]
  /\ cliEnd \in [Sessions -> {"none", "open", "Broken"} \cup ReturnCodes]
  /\ pc \in [Sessions -> {"none", "validate", "authorize", "ready", "convert",
                          "call", "recv", "send", "finish", "done"}]
  /\ hand \in [Sessions -> AtMostOne(Records)]
  /\ ret \in [Sessions -> ReturnCodes]
  /\ strDone \in [Sessions -> BOOLEAN]
  /\ ctxErr \in [Sessions -> {"none"} \cup ContextErrors]
  /\ metric \in [Sessions ->
                  {NoMetric} \cup ({"MetadataAllocated", "MetadataDelta"} \X ReturnCodes)]
  /\ csiQ \in [Sessions -> Seq(Records)]
  /\ csiEnd \in [Sessions -> {"none", "open", "Unavailable"}
                              \cup DriverCodes \cup ContextErrors]
  /\ drv \in [Sessions -> {"idle", "streaming", "stopped"} \cup DriverCodes]
  /\ sent \in [Sessions -> Seq(Records)]
  /\ sidecar \in {"starting", "running", "shuttingDown", "draining", "exited", "crashed"}
  /\ csiConn \in {"up", "lost"}

\* Whatever is cancelled, times out or crashes, what the emitter has accepted,
\* followed by what is on its way to it, is the beginning of what the driver
\* sent: the two relays of a record (the handler's loop and the iterator's)
\* neither lose one in the middle, nor repeat, nor reorder.
RecordsInOrder ==
  \A s \in Sessions : Precedes((emitted[s] \o itHand[s]) \o cliQ[s], sent[s])

\* No silent truncation: SnapshotMetadataIteratorDone is invoked only if the
\* driver ended its stream well, the emitter has every record the driver sent,
\* and the number reported is theirs.
CompleteMeansWhole ==
  \A s \in Sessions : it[s] = "done" =>
    /\ drv[s] = "OK"
    /\ emitted[s] = sent[s]
    /\ recordNum[s] = Len(sent[s])

\* A handler returns an error only for its cause: Canceled if its client
\* cancelled, never for a cancellation of the sidecar's own; DeadlineExceeded
\* if its time is up; a code of the driver's if the driver gave it.
FailureHasItsCause ==
  \A s \in Sessions :
    /\ ret[s] = "Canceled" => strDone[s]
    /\ ret[s] = "DeadlineExceeded" => ctxErr[s] = "DeadlineExceeded"
    /\ ret[s] = "DriverError" => drv[s] = "DriverError"
    /\ ret[s] = "Internal" => drv[s] = "Unknown"

\* A graceful stop cuts no stream: when the sidecar has exited after a signal,
\* no client's stream is broken, so what was accepted was served to its end.
GracefulExitBreaksNoStream ==
  sidecar = "exited" => \A s \in Sessions : cliEnd[s] # "Broken"

\* Everything between the driver and the emitter, oldest first.
Delivered(s) == (emitted[s] \o itHand[s]) \o cliQ[s]
Pipeline(s) == (Delivered(s) \o hand[s]) \o csiQ[s]

\* Where a record may be, and which ends a stream may have, at each point of
\* the handler's and the iterator's loops.
ControlInv(s) ==
  /\ hand[s] # <<>> => pc[s] = "send"
  /\ itHand[s] # <<>> => it[s] = "emit"
  /\ it[s] = "start" => cliEnd[s] = "none"
  /\ cliEnd[s] = "none" =>
       /\ pc[s] = "none" /\ it[s] \in {"start", "failed"}
       /\ Delivered(s) = <<>>
  /\ it[s] = "done" => cliEnd[s] # "open"
  /\ pc[s] \in {"none", "validate", "authorize", "ready", "convert", "call"} =>
       csiEnd[s] = "none"
  /\ csiEnd[s] = "none" =>
       /\ pc[s] \notin {"recv", "send"}
       /\ drv[s] = "idle" /\ sent[s] = <<>> /\ csiQ[s] = <<>>
  /\ csiEnd[s] = "OK" => drv[s] = "OK"
  /\ strDone[s] => cliEnd[s] = "Canceled"
  /\ pc[s] \in {"finish", "done"} /\ ret[s] = "OK" => csiEnd[s] = "OK" /\ csiQ[s] = <<>>
  /\ cliEnd[s] \in {"none", "open"} => pc[s] # "done"
  /\ it[s] # "failed" => recordNum[s] = Len(emitted[s]) + Len(itHand[s])

\* While neither stream has been cut, the pipeline holds exactly what the driver
\* sent; once one has, what is left of it is the beginning of that.
DataInv(s) ==
  /\ Precedes(Delivered(s), sent[s])
  /\ cliEnd[s] \in {"none", "open"} => Precedes(Pipeline(s), sent[s])
  /\ cliEnd[s] \in {"none", "open"} /\ csiEnd[s] \in {"none", "open", "OK"} =>
       Pipeline(s) = sent[s]
  /\ cliEnd[s] = "OK" => drv[s] = "OK"
  /\ cliEnd[s] = "OK" /\ it[s] # "failed" => Delivered(s) = sent[s]
  /\ it[s] = "done" =>
       drv[s] = "OK" /\ cliQ[s] = <<>> /\ Delivered(s) = sent[s]

\* The inductive invariant behind RecordsInOrder and CompleteMeansWhole: no
\* record is ever in two places, or in none, of the driver's stream, the
\* handler's hand, the client's stream and the emitter.
StreamInv == \A s \in Sessions : ControlInv(s) /\ DataInv(s)

\* The stream implements the service's promise.
Service == INSTANCE Enumeration WITH
  source <- sent,
  given <- emitted,
  sourceEnd <- [s \in Sessions |->
                  IF drv[s] \in {"idle", "streaming"} THEN "open"
                  ELSE IF drv[s] = "OK" THEN "whole" ELSE "broken"],
  outcome <- [s \in Sessions |->
                CASE it[s] = "done" -> "complete"
                  [] it[s] = "failed" -> "failed"
                  [] OTHER -> "running"]
ImplementsEnumeration == Service!Spec

\* The process keeps the promise of SidecarPhases: a call gets past the
\* readiness check only between the driver's validation and the stop, and an
\* exit on request finds no such call still running.
Phases == INSTANCE SidecarPhases WITH
  Calls <- Sessions,
  phase <- IF sidecar \in {"shuttingDown", "draining"} THEN "stopping" ELSE sidecar,
  served <- IF Alive
              THEN {s \in Sessions : pc[s] \in {"convert", "call", "recv", "send"}}
              ELSE {}
ImplementsPhases == Phases!Spec

\* A client that keeps reading comes to the end of its enumeration, even if
\* the driver never sends another record nor ends its stream.
EnumerationEnds ==
  \A s \in Sessions : it[s] \in {"recv", "emit"} ~> EnumerationOver(s)

\* Once the client is through with the stream, for whatever reason, the driver
\* does not go on streaming into the void: the cancellation goes all the way.
DriverIsReleased ==
  \A s \in Sessions : EnumerationOver(s) ~> (drv[s] # "streaming")

\* A stop that was asked for comes to its end.
StopReturns == sidecar = "shuttingDown" ~> ~Alive

\* "The handler will abort if either the CSI driver or the client do not
\* complete in this time": ServerConfig.MaxStreamDur.
HandlerAborts ==
  \A s \in Sessions : HandlerRuns(s) ~> (~HandlerRuns(s) \/ ~Alive)

\* Every call is recorded under the name of its own operation
\* (MetadataDeltaOperationName "tracks ... GetMetadataDelta").
MetricNamesOperation ==
  \A s \in Sessions : metric[s] # NoMetric =>
    metric[s][1] = IF s \in DeltaSessions THEN "MetadataDelta" ELSE "MetadataAllocated"
=============================================================================
