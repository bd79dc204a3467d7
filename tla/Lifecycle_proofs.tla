-------------------------- MODULE Lifecycle_proofs --------------------------
(***************************************************************************)
(* Proofs about Lifecycle, for any sets of callers and watchers.           *)
(***************************************************************************)
EXTENDS Lifecycle, TLAPS

----------------------------------------------------------------------------
(* Type correctness.                                                       *)

LEMMA TypeInit == Init => TypeOK
BY DEF Init, TypeOK, Statuses

LEMMA TypeRun == TypeOK /\ RunStep => TypeOK'
<1> SUFFICES ASSUME TypeOK, RunStep PROVE TypeOK'
  OBVIOUS
<1> USE DEF Go, Fail, Statuses, driverVars, signalVars, clientVars, watchVars
<1>1. CASE New \/ NewServer \/ Start
  BY <1>1 DEF TypeOK, New, NewServer, Start
<1>2. CASE ProbeOnce \/ ProbeTicks \/ CheckCapabilities
  BY <1>2 DEF TypeOK, ProbeOnce, ProbeTicks, CheckCapabilities
<1>3. CASE CSIDriverIsReady \/ ShuttingDown
  <2>1. \E st \in Statuses : SetServingStatus(st)
    BY <1>3 DEF CSIDriverIsReady, ShuttingDown
  <2>2. update' \in [Watchers -> {<<>>} \cup {<<st>> : st \in Statuses}]
    BY <2>1 DEF TypeOK, SetServingStatus
  <2> QED
    BY <1>3, <2>1, <2>2 DEF TypeOK, CSIDriverIsReady, ShuttingDown, SetServingStatus
<1>4. CASE SpawnHTTPServer \/ Notify \/ ReceiveSignal \/ Quit \/ CloseListeners
  BY <1>4 DEF TypeOK, SpawnHTTPServer, Notify, ReceiveSignal, Quit, CloseListeners
<1>5. CASE WaitServe \/ WaitConnectionsAndHandlers \/ Exit
  BY <1>5 DEF TypeOK, WaitServe, WaitConnectionsAndHandlers, Exit
<1>6. CASE DrainAllServerTransports
  <2>1. conn' \in [Clients -> {"none", "accepted", "handshake", "open", "goaway",
                               "draining", "closed"}]
    BY <1>6 DEF TypeOK, DrainAllServerTransports
  <2> QED BY <1>6, <2>1 DEF TypeOK, DrainAllServerTransports
<1> QED
  BY <1>1, <1>2, <1>3, <1>4, <1>5, <1>6 DEF RunStep

LEMMA TypeOthers ==
  ASSUME TypeOK,
         \/ Serve \/ AcceptFails \/ AcceptStops \/ ListenAndServe
         \/ ListenAndServeFails \/ ExitOnConnectionLoss \/ Signal
         \/ PluginBecomesReady
  PROVE  TypeOK'
<1> USE DEF processVars, driverVars, signalVars, clientVars, watchVars, Statuses
<1>1. CASE \E how \in {"serveFatal", "httpFatal", "killed"} : Fatal(how)
  BY <1>1 DEF TypeOK, Fatal
<1>2. CASE serve' \in {"accepting", "left"}
           /\ UNCHANGED <<main, proc, http, status, driverVars, signalVars,
                          clientVars, watchVars>>
  BY <1>2 DEF TypeOK
<1>3. CASE Serve \/ AcceptFails \/ AcceptStops
  BY <1>1, <1>2, <1>3 DEF Serve, AcceptFails, AcceptStops
<1>4. CASE ListenAndServe \/ PluginBecomesReady
  BY <1>4 DEF TypeOK, ListenAndServe, PluginBecomesReady
<1>5. CASE ListenAndServeFails \/ ExitOnConnectionLoss
  BY <1>1, <1>5 DEF ListenAndServeFails, ExitOnConnectionLoss
<1>6. CASE Signal
  <2>1. CASE main = "wait" \/ Stopping
    <3>1. sigChan' = 1 /\ signalled' = TRUE
      BY <1>6, <2>1 DEF Signal
    <3>2. UNCHANGED <<processVars, status, driverVars, clientVars, watchVars>>
      BY <1>6, <2>1 DEF Signal
    <3> QED BY <3>1, <3>2 DEF TypeOK
  <2> QED BY <1>1, <1>6, <2>1 DEF Signal
<1> QED
  BY <1>3, <1>4, <1>5, <1>6

LEMMA TypeConnections ==
  ASSUME TypeOK, NEW c \in Clients,
         Accept(c) \/ ClientDisconnects(c) \/ Call(c) \/ ServerStep(c)
  PROVE  TypeOK'
<1> USE DEF processVars, driverVars, signalVars, clientVars, watchVars
<1>1. ASSUME NEW from, NEW to, SetConn(c, from, to),
             to \in {"accepted", "handshake", "open", "draining", "closed"}
      PROVE  TypeOK'
  BY <1>1 DEF TypeOK, SetConn
<1>2. CASE Call(c) \/ IsCSIDriverReady(c) \/ HandlerReturns(c)
  BY <1>2 DEF TypeOK, Call, IsCSIDriverReady, HandlerReturns, SetRPC
<1> QED
  BY <1>1, <1>2 DEF Accept, ClientDisconnects, ServerStep, HandleRawConn,
     HandshakeEnds, GoAwayArrives, CloseDrained

LEMMA TypeWatch ==
  ASSUME TypeOK, NEW w \in Watchers, WatchStep(w)
  PROVE  TypeOK'
<1> USE DEF processVars, driverVars, signalVars, clientVars, watchVars, Clients
<1>1. CASE Watch(w)
  BY <1>1 DEF TypeOK, Watch, SetRPC
<1>2. CASE WatchSends(w)
  <2>1. \E st \in Statuses : update[w] = <<st>> /\ Head(update[w]) = st
    BY <1>2 DEF TypeOK, WatchSends
  <2> QED BY <1>2, <2>1 DEF TypeOK, WatchSends
<1>3. CASE WatchEnds(w)
  BY <1>3 DEF TypeOK, WatchEnds, SetRPC
<1> QED BY <1>1, <1>2, <1>3 DEF WatchStep

LEMMA TypeStep == TypeOK /\ [Next]_vars => TypeOK'
<1>1. ASSUME TypeOK, UNCHANGED vars PROVE TypeOK'
  BY <1>1 DEF TypeOK, vars, processVars, driverVars, signalVars, clientVars, watchVars
<1> QED
  BY <1>1, TypeRun, TypeOthers, TypeConnections, TypeWatch DEF Next, Quiescent

\* The variables keep their types: sigChan, for one, never holds two signals.
THEOREM TypeCorrect == Spec => []TypeOK
BY TypeInit, TypeStep, PTL DEF Spec

----------------------------------------------------------------------------
(* The inductive invariant.                                                *)

Validated == main \notin {"new", "newServer", "start", "probe", "probeSleep",
                          "capabilities"}
Serving == main \in {"http", "notify", "wait", "shutdown"}

\* What the point that sidecar.Run has reached says of the driver, of the
\* health server and of the calls.
RunInv ==
  /\ Validated => plugin = "ready" /\ capable
  /\ main = "capabilities" => plugin = "ready"
  /\ status = "SERVING" <=> Serving
  /\ \A c \in Clients : rpc[c] = "admitted" => Validated /\ main # "ready"
  /\ main = "returned" =>
       \A c \in Clients : conn[c] \in {"none", "closed"} /\ ~Active(c)

LEMMA RunInvRun == TypeOK /\ RunInv /\ RunStep => RunInv'
<1> SUFFICES ASSUME TypeOK, RunInv, RunStep PROVE RunInv'
  OBVIOUS
<1> USE DEF Go, Fail, Validated, Serving, driverVars, signalVars, clientVars,
            watchVars, Active
<1>1. CASE New \/ NewServer \/ Start
  BY <1>1 DEF RunInv, New, NewServer, Start
<1>2. CASE ProbeOnce \/ ProbeTicks \/ CheckCapabilities
  BY <1>2 DEF RunInv, ProbeOnce, ProbeTicks, CheckCapabilities
<1>3. CASE CSIDriverIsReady \/ ShuttingDown
  BY <1>3 DEF RunInv, CSIDriverIsReady, ShuttingDown, SetServingStatus
<1>4. CASE SpawnHTTPServer \/ Notify \/ ReceiveSignal \/ Quit \/ CloseListeners
  BY <1>4 DEF RunInv, SpawnHTTPServer, Notify, ReceiveSignal, Quit, CloseListeners
<1>5. CASE WaitServe \/ WaitConnectionsAndHandlers \/ Exit
  BY <1>5 DEF RunInv, WaitServe, WaitConnectionsAndHandlers, Exit
<1>6. CASE DrainAllServerTransports
  BY <1>6 DEF RunInv, DrainAllServerTransports
<1> QED
  BY <1>1, <1>2, <1>3, <1>4, <1>5, <1>6 DEF RunStep

LEMMA RunInvOthers ==
  RunInv /\ (\/ Serve \/ AcceptFails \/ AcceptStops \/ ListenAndServe
             \/ ListenAndServeFails \/ ExitOnConnectionLoss \/ Signal
             \/ PluginBecomesReady) => RunInv'
BY DEF RunInv, Serve, AcceptFails, AcceptStops, ListenAndServe,
   ListenAndServeFails, ExitOnConnectionLoss, Signal, PluginBecomesReady, Fatal,
   processVars, driverVars, signalVars, clientVars, watchVars, Validated,
   Serving, Active

LEMMA RunInvConnections ==
  ASSUME TypeOK, RunInv, NEW c \in Clients,
         Accept(c) \/ ClientDisconnects(c) \/ Call(c) \/ ServerStep(c)
  PROVE  RunInv'
<1> USE DEF processVars, driverVars, signalVars, clientVars, watchVars,
            Validated, Serving, Active
<1>1. CASE Accept(c)
  BY <1>1 DEF RunInv, Accept, ListenersClosed, SetConn
<1>2. ASSUME NEW from, NEW to, SetConn(c, from, to),
             from \cap {"none", "closed"} = {}
      PROVE  RunInv'
  <2>1. main # "returned"
    BY <1>2 DEF RunInv, SetConn
  <2> QED BY <1>2, <2>1 DEF RunInv, SetConn
<1>3. CASE Call(c)
  <2>1. main # "returned"
    BY <1>3 DEF RunInv, Call
  <2> QED BY <1>3, <2>1 DEF RunInv, TypeOK, Call, SetRPC
<1>4. CASE IsCSIDriverReady(c) \/ HandlerReturns(c)
  <2>1. main # "returned"
    BY <1>4 DEF RunInv, IsCSIDriverReady, HandlerReturns, SetRPC
  <2> QED BY <1>4, <2>1 DEF RunInv, TypeOK, IsCSIDriverReady, HandlerReturns, SetRPC
<1> QED
  BY <1>1, <1>2, <1>3, <1>4 DEF ClientDisconnects, ServerStep, HandleRawConn,
     HandshakeEnds, GoAwayArrives, CloseDrained

LEMMA RunInvWatch ==
  ASSUME TypeOK, RunInv, NEW w \in Watchers, WatchStep(w)
  PROVE  RunInv'
<1> USE DEF processVars, driverVars, signalVars, clientVars, watchVars, Clients,
            Validated, Serving, Active
<1>1. CASE Watch(w) \/ WatchEnds(w)
  <2>1. main # "returned"
    BY <1>1 DEF RunInv, Watch, WatchEnds, SetRPC
  <2> QED BY <1>1, <2>1 DEF RunInv, TypeOK, Watch, WatchEnds, SetRPC
<1>2. CASE WatchSends(w)
  BY <1>2 DEF RunInv, WatchSends
<1> QED BY <1>1, <1>2 DEF WatchStep

\* Each point of sidecar.Run, and each step of the goroutines beside it, keeps what
\* is known of the driver, the status and the connections there.
THEOREM RunInvariant == Spec => []RunInv
<1>1. Init => RunInv
  BY DEF Init, RunInv, Validated, Serving
<1>2. ASSUME TypeOK, RunInv, [Next]_vars PROVE RunInv'
  <2>1. CASE UNCHANGED vars
    BY <1>2, <2>1 DEF RunInv, vars, processVars, driverVars, signalVars,
       clientVars, watchVars, Validated, Serving, Active
  <2> QED
    BY <1>2, <2>1, RunInvRun, RunInvOthers, RunInvConnections, RunInvWatch
    DEF Next, Quiescent
<1> QED
  BY <1>1, <1>2, TypeCorrect, PTL DEF Spec

\* However early a call comes in, it is served only once the driver has been
\* found ready and able to enumerate.
THEOREM ServedByCapable == Spec => []ServedByCapableDriver
<1>1. RunInv => ServedByCapableDriver
  BY DEF RunInv, ServedByCapableDriver, Clients
<1> QED
  BY <1>1, RunInvariant, PTL

----------------------------------------------------------------------------
(* The watchers.                                                           *)

LEMMA WatchUpToDateStep ==
  ASSUME TypeOK, WatchUpToDate, [Next]_vars
  PROVE  WatchUpToDate'
<1> USE DEF processVars, driverVars, signalVars, clientVars, watchVars, Clients
<1>1. CASE UNCHANGED <<rpc, status, update, told>>
  BY <1>1 DEF WatchUpToDate
<1>2. CASE CSIDriverIsReady \/ ShuttingDown
  <2>1. PICK st \in Statuses : SetServingStatus(st) /\ UNCHANGED <<rpc, told>>
    BY <1>2 DEF CSIDriverIsReady, ShuttingDown, Statuses
  <2>2. ASSUME NEW w \in Watchers, rpc[w] = "watching"
        PROVE  update'[w] = <<st>> /\ Head(<<st>>) = st
    BY <2>1, <2>2 DEF SetServingStatus
  <2> QED BY <2>1, <2>2 DEF WatchUpToDate, SetServingStatus
<1>3. ASSUME NEW c \in Clients,
             Call(c) \/ IsCSIDriverReady(c) \/ HandlerReturns(c)
      PROVE  WatchUpToDate'
  <2>1. \A w \in Watchers : rpc'[w] = "watching" => rpc[w] = "watching"
    BY <1>3 DEF TypeOK, Call, IsCSIDriverReady, HandlerReturns, SetRPC
  <2> QED
    BY <1>3, <2>1 DEF WatchUpToDate, Call, IsCSIDriverReady, HandlerReturns
<1>4. ASSUME NEW w \in Watchers, WatchStep(w)
      PROVE  WatchUpToDate'
  <2>1. CASE Watch(w)
    <3>1. update'[w] = <<status>> /\ Head(<<status>>) = status
      BY <2>1 DEF Watch, TypeOK
    <3> QED BY <2>1, <3>1 DEF Watch, WatchUpToDate, TypeOK, SetRPC
  <2>2. CASE WatchSends(w)
    BY <2>2 DEF WatchSends, WatchUpToDate, TypeOK
  <2>3. CASE WatchEnds(w)
    BY <2>3 DEF WatchEnds, WatchUpToDate, TypeOK, SetRPC
  <2> QED BY <1>4, <2>1, <2>2, <2>3 DEF WatchStep
<1>5. CASE RunStep /\ ~CSIDriverIsReady /\ ~ShuttingDown
  <2>1. UNCHANGED <<rpc, status, update, told>>
    BY <1>5 DEF RunStep, New, NewServer, Start, ProbeOnce, ProbeTicks,
       CheckCapabilities, SpawnHTTPServer, Notify, ReceiveSignal, Quit,
       CloseListeners, WaitServe, DrainAllServerTransports,
       WaitConnectionsAndHandlers, Exit, Fail
  <2> QED BY <1>1, <2>1
<1>6. CASE \/ Serve \/ AcceptFails \/ AcceptStops \/ ListenAndServe
           \/ ListenAndServeFails \/ ExitOnConnectionLoss \/ Signal
           \/ PluginBecomesReady
  <2>1. UNCHANGED <<rpc, status, update, told>>
    BY <1>6 DEF Serve, AcceptFails, AcceptStops, ListenAndServe,
       ListenAndServeFails, ExitOnConnectionLoss, Signal, PluginBecomesReady, Fatal
  <2> QED BY <1>1, <2>1
<1>7. ASSUME NEW c \in Clients,
             \/ Accept(c) \/ ClientDisconnects(c) \/ HandleRawConn(c)
             \/ HandshakeEnds(c) \/ GoAwayArrives(c) \/ CloseDrained(c)
      PROVE  WatchUpToDate'
  <2>1. UNCHANGED <<rpc, status, update, told>>
    BY <1>7 DEF Accept, ClientDisconnects, HandleRawConn, HandshakeEnds,
       GoAwayArrives, CloseDrained, SetConn
  <2> QED BY <1>1, <2>1
<1> QED
  BY <1>1, <1>2, <1>3, <1>4, <1>5, <1>6, <1>7 DEF Next, ServerStep, Quiescent, vars

\* A watcher that keeps reading is never left with an old status.
THEOREM WatchersUpToDate == Spec => []WatchUpToDate
<1>1. Init => WatchUpToDate
  BY DEF Init, WatchUpToDate, Clients
<1> QED
  BY <1>1, WatchUpToDateStep, TypeCorrect, PTL DEF Spec

----------------------------------------------------------------------------
(* The process keeps the promise of SidecarPhases.                         *)

Phase ==
  CASE proc = "exited" -> "exited"
    [] proc \notin {"running", "exited"} -> "crashed"
    [] proc = "running" /\ main \in Startup -> "starting"
    [] proc = "running" /\ main \in {"http", "notify", "wait", "shutdown"} -> "running"
    [] OTHER -> "stopping"
Served == IF proc = "running" THEN {c \in Callers : rpc[c] = "admitted"} ELSE {}

LEMMA PhasesCrash ==
  ASSUME Alive, proc' \notin {"running", "exited"}
  PROVE  Phases!Next
<1>1. Phase' = "crashed" /\ Served' = {}
  BY DEF Phase, Served
<1>2. Phase \notin {"exited", "crashed"}
  BY DEF Phase, Alive
<1> QED BY <1>1, <1>2 DEF Phases!Next, Phases!Crash, Phase, Served

LEMMA PhasesRun ==
  ASSUME RunInv, Alive, RunStep
  PROVE  Phases!Next \/ UNCHANGED Phases!phaseVars
<1> USE DEF Go, driverVars, signalVars, clientVars, watchVars
<1>1. CASE \E from : Fail(from)
  BY <1>1, PhasesCrash DEF Fail
<1>2. CASE /\ UNCHANGED <<proc, rpc>>
           /\ \/ main \in Startup /\ main' \in Startup
              \/ main \in {"http", "notify", "wait"}
                 /\ main' \in {"http", "notify", "wait", "shutdown"}
              \/ main \in {"quit", "listeners", "serveWG", "drain", "conns"}
                 /\ main' \in {"listeners", "serveWG", "drain", "conns", "returned"}
  <2>1. UNCHANGED <<Phase, Served>>
    BY <1>2 DEF Phase, Served, Alive, Startup
  <2> QED BY <2>1 DEF Phases!phaseVars, Phase, Served
<1>3. CASE CSIDriverIsReady
  <2>1. Phase = "starting" /\ Phase' = "running" /\ Served' = Served
    BY <1>3 DEF CSIDriverIsReady, Phase, Served, Alive, Startup
  <2> QED BY <2>1 DEF Phases!Next, Phases!Validated, Phase, Served
<1>4. CASE ShuttingDown
  <2>1. Phase = "running" /\ Phase' = "stopping" /\ Served' = Served
    BY <1>4 DEF ShuttingDown, Phase, Served, Alive, Startup
  <2> QED BY <2>1 DEF Phases!Next, Phases!Retire, Phase, Served
<1>5. CASE Exit
  <2>1. Phase = "stopping" /\ Phase' = "exited" /\ Served' = {}
    BY <1>5 DEF Exit, Phase, Served, Alive, Startup
  <2>2. Served = {}
    BY <1>5 DEF Exit, Served, RunInv, Active, Clients
  <2> QED BY <2>1, <2>2 DEF Phases!Next, Phases!Exit, Phase, Served
<1>6. CASE New \/ NewServer \/ Start \/ ProbeOnce \/ ProbeTicks \/ CheckCapabilities
  BY <1>1, <1>2, <1>6 DEF New, NewServer, Start, ProbeOnce, ProbeTicks,
     CheckCapabilities, Startup
<1>7. CASE SpawnHTTPServer \/ Notify \/ ReceiveSignal
  BY <1>2, <1>7 DEF SpawnHTTPServer, Notify, ReceiveSignal
<1>8. CASE \/ Quit \/ CloseListeners \/ WaitServe \/ DrainAllServerTransports
           \/ WaitConnectionsAndHandlers
  BY <1>2, <1>8 DEF Quit, CloseListeners, WaitServe, DrainAllServerTransports,
     WaitConnectionsAndHandlers
<1> QED
  BY <1>3, <1>4, <1>5, <1>6, <1>7, <1>8 DEF RunStep

LEMMA PhasesOthers ==
  ASSUME Alive,
         \/ Serve \/ AcceptFails \/ AcceptStops \/ ListenAndServe
         \/ ListenAndServeFails \/ ExitOnConnectionLoss \/ Signal
         \/ PluginBecomesReady
  PROVE  Phases!Next \/ UNCHANGED Phases!phaseVars
<1>1. CASE \E how \in {"serveFatal", "httpFatal", "killed"} : Fatal(how)
  BY <1>1, PhasesCrash DEF Fatal
<1>2. CASE UNCHANGED <<main, proc, rpc>>
  BY <1>2 DEF Phases!phaseVars
<1> QED
  BY <1>1, <1>2 DEF Serve, AcceptFails, AcceptStops, ListenAndServe,
     ListenAndServeFails, ExitOnConnectionLoss, Signal, PluginBecomesReady,
     processVars, clientVars

\* A step of a call or of its connection.
LEMMA PhasesClient ==
  ASSUME TypeOK, RunInv, Alive, UNCHANGED processVars,
         \/ \E c \in Clients :
              Accept(c) \/ ClientDisconnects(c) \/ Call(c) \/ ServerStep(c)
         \/ \E w \in Watchers : WatchStep(w)
  PROVE  Phases!Next \/ UNCHANGED Phases!phaseVars
<1> USE DEF processVars, clientVars
<1>1. CASE UNCHANGED rpc
  BY <1>1 DEF Phases!phaseVars
<1>2. ASSUME NEW c \in Clients, NEW from, NEW to, SetRPC(c, from, to),
             from # "admitted" \/ c \notin Callers,
             to # "admitted" \/ c \notin Callers
      PROVE  UNCHANGED Phases!phaseVars
  <2>1. \A d \in Callers : rpc'[d] = "admitted" <=> rpc[d] = "admitted"
    BY <1>2 DEF SetRPC, TypeOK, Clients
  <2>2. UNCHANGED <<Phase, Served>>
    BY <2>1 DEF Phase, Served
  <2> QED BY <2>2 DEF Phases!phaseVars, Phase, Served
<1>3. ASSUME NEW c \in Callers, IsCSIDriverReady(c), status = "SERVING"
      PROVE  Phases!Next
  <2>1. rpc[c] = "called" /\ rpc' = [rpc EXCEPT ![c] = "admitted"]
    BY <1>3 DEF IsCSIDriverReady, SetRPC
  <2>2. c \notin Served /\ Served' = Served \cup {c}
    BY <2>1 DEF Served, TypeOK, Clients, Alive
  <2>3. Phase = "running" /\ Phase' = "running"
    BY <1>3 DEF Phase, RunInv, Serving, Startup, Alive
  <2> QED BY <2>2, <2>3 DEF Phases!Next, Phases!Admit, Phase, Served
<1>4. ASSUME NEW c \in Callers, HandlerReturns(c)
      PROVE  Phases!Next
  <2>1. rpc[c] = "admitted" /\ rpc' = [rpc EXCEPT ![c] = "done"]
    BY <1>4 DEF HandlerReturns, SetRPC
  <2>2. c \in Served /\ Served' = Served \ {c}
    BY <2>1 DEF Served, TypeOK, Clients, Alive
  <2>3. Phase' = Phase
    BY DEF Phase
  <2> QED BY <2>2, <2>3 DEF Phases!Next, Phases!Leave, Phase, Served
<1>5. ASSUME NEW w \in Watchers, WatchStep(w)
      PROVE  Phases!Next \/ UNCHANGED Phases!phaseVars
  <2>1. w \in Clients /\ w \notin Callers
    BY ClientsAssumption DEF Clients
  <2> QED BY <1>1, <1>2, <1>5, <2>1 DEF WatchStep, Watch, WatchSends, WatchEnds
<1>6. ASSUME NEW c \in Clients, Call(c) \/ IsCSIDriverReady(c) \/ HandlerReturns(c)
      PROVE  Phases!Next \/ UNCHANGED Phases!phaseVars
  <2>1. CASE Call(c)
    BY <1>2, <2>1 DEF Call
  <2>2. CASE IsCSIDriverReady(c)
    BY <1>2, <1>3, <2>2 DEF IsCSIDriverReady
  <2>3. CASE HandlerReturns(c)
    BY <1>2, <1>4, <2>3 DEF HandlerReturns
  <2> QED BY <1>6, <2>1, <2>2, <2>3
<1>7. ASSUME NEW c \in Clients, Accept(c) \/ ClientDisconnects(c) \/ HandleRawConn(c)
             \/ HandshakeEnds(c) \/ GoAwayArrives(c) \/ CloseDrained(c)
      PROVE  UNCHANGED Phases!phaseVars
  BY <1>1, <1>7 DEF Accept, ClientDisconnects, HandleRawConn, HandshakeEnds,
     GoAwayArrives, CloseDrained, SetConn, Phases!phaseVars
<1> QED
  BY <1>5, <1>6, <1>7 DEF ServerStep

\* Whatever is interleaved, calls are admitted only between the validation of
\* the driver and the stop, and a process that exits on request leaves none
\* unserved.
THEOREM LifecycleImplementsPhases == Spec => ImplementsPhases
<1>1. Init => Phases!Init
  BY DEF Init, Phases!Init, Startup, Clients
<1>2. ASSUME TypeOK, RunInv, [Next]_vars
      PROVE  [Phases!Next]_(Phases!phaseVars)
  <2>1. CASE UNCHANGED vars
    BY <2>1 DEF vars, processVars, clientVars, Phases!phaseVars
  <2>2. ASSUME NEW c \in Clients,
               Accept(c) \/ ClientDisconnects(c) \/ Call(c) \/ ServerStep(c)
        PROVE  UNCHANGED processVars
    BY <2>2 DEF Accept, ClientDisconnects, Call, ServerStep, HandleRawConn,
       HandshakeEnds, GoAwayArrives, CloseDrained, IsCSIDriverReady,
       HandlerReturns, SetConn
  <2>3. ASSUME NEW w \in Watchers, WatchStep(w)
        PROVE  UNCHANGED processVars
    BY <2>3 DEF WatchStep, Watch, WatchSends, WatchEnds
  <2> QED
    BY <1>2, <2>1, <2>2, <2>3, PhasesRun, PhasesOthers, PhasesClient
    DEF Next, Quiescent
<1> QED
  BY <1>1, <1>2, TypeCorrect, RunInvariant, PTL DEF Spec, ImplementsPhases, Phases!Spec
=============================================================================
