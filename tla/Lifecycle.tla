----------------------------- MODULE Lifecycle -----------------------------
(***************************************************************************)
(* The process of the sidecar from its start to its exit.  Three           *)
(* goroutines matter: the main one (sidecar.Run), the one that runs        *)
(* grpcServer.Serve and the one that runs the HTTP server.  Around them:   *)
(* the CSI driver that is probed, the operating system that delivers       *)
(* termination signals, and the clients.  A client opens one connection    *)
(* and makes one call on it: a Caller calls the metadata service, a        *)
(* Watcher the Watch method of the health service.                         *)
(*                                                                         *)
(* What a handler does once it is admitted is the subject of               *)
(* MetadataStream; here it only returns.                                   *)
(***************************************************************************)
EXTENDS Naturals, Sequences

CONSTANTS Callers, Watchers

ASSUME ClientsAssumption == Callers \cap Watchers = {}

Clients == Callers \cup Watchers

VARIABLES
  main,       \* where sidecar.Run is
  proc,       \* "running", or how the process ended
  serve,      \* the goroutine of grpcServer.Serve
  http,       \* the goroutine of the HTTP server
  status,     \* what the health server says
  plugin,     \* the CSI driver: "starting" or "ready"
  capable,    \* the CSI driver has the SNAPSHOT_METADATA_SERVICE capability
  sigChan,    \* signals in sigChan, whose capacity is 1
  signalled,  \* history: a signal arrived after signal.Notify
  conn,       \* conn[c]: the connection of a client, as the server sees it
  rpc,        \* rpc[c]: the call made on it
  update,     \* update[w]: the update channel of a Watch call, of capacity 1
  told        \* told[w]: the status last sent to the watcher

processVars == <<main, proc, serve, http>>
driverVars  == <<plugin, capable>>
signalVars  == <<sigChan, signalled>>
clientVars  == <<conn, rpc>>
watchVars   == <<update, told>>
vars == <<processVars, status, driverVars, signalVars, clientVars, watchVars>>

Statuses == {"SERVING", "NOT_SERVING"}

Init ==
  /\ main = "new" /\ proc = "running"
  /\ serve = "none" /\ http = "none"
  /\ status = "NOT_SERVING"
  /\ plugin = "starting" /\ capable \in BOOLEAN
  /\ sigChan = 0 /\ signalled = FALSE
  /\ conn = [c \in Clients |-> "none"]
  /\ rpc = [c \in Clients |-> "none"]
  /\ update = [w \in Watchers |-> <<>>]
  /\ told = [w \in Watchers |-> "none"]

Alive == proc = "running"

Go(from, to) == main = from /\ main' = to

\* sidecar.Run returns 1, and the process exits with it.
Fail(from) ==
  /\ main = from
  /\ proc' = "failed"
  /\ UNCHANGED <<main, serve, http, status, driverVars, signalVars, clientVars,
                 watchVars>>

----------------------------------------------------------------------------
(* sidecar.Run: startup.                                                   *)

\* runtime.New: arguments, API clients, connection to the driver, its name.
New ==
  \/ /\ Go("new", "newServer")
     /\ UNCHANGED <<proc, serve, http, status, driverVars, signalVars,
                    clientVars, watchVars>>
  \/ Fail("new")

NewServer ==
  \/ /\ Go("newServer", "start")
     /\ UNCHANGED <<proc, serve, http, status, driverVars, signalVars,
                    clientVars, watchVars>>
  \/ Fail("newServer")

\* The port is bound and the goroutine has started; it need not have reached
\* grpcServer.Serve.
Start ==
  \/ /\ Go("start", "probe")
     /\ serve' = "spawned"
     /\ UNCHANGED <<proc, http, status, driverVars, signalVars, clientVars,
                    watchVars>>
  \/ Fail("start")

\* One probe: ready; not ready yet, or timed out; or an error, which is final.
ProbeOnce ==
  \/ /\ plugin = "ready" /\ Go("probe", "capabilities")
     /\ UNCHANGED <<proc, serve, http, status, driverVars, signalVars,
                    clientVars, watchVars>>
  \/ /\ plugin = "starting" /\ Go("probe", "probeSleep")
     /\ UNCHANGED <<proc, serve, http, status, driverVars, signalVars,
                    clientVars, watchVars>>
  \/ Fail("probe")

\* (Mutant: the driver is probed once.)
ProbeGivesUp == FALSE /\ UNCHANGED vars

\* The ticker of ProbeForever.
ProbeTicks ==
  /\ Go("probeSleep", "probe")
  /\ UNCHANGED <<proc, serve, http, status, driverVars, signalVars, clientVars,
                 watchVars>>

\* (Mutant: the capability is not looked for.)
CapabilitiesIgnored ==
  /\ Go("capabilities", "ready")
  /\ UNCHANGED <<proc, serve, http, status, driverVars, signalVars, clientVars,
                 watchVars>>

\* The driver must have the SNAPSHOT_METADATA_SERVICE capability; the call may
\* also fail.
CheckCapabilities ==
  \/ /\ capable
     /\ Go("capabilities", "ready")
     /\ UNCHANGED <<proc, serve, http, status, driverVars, signalVars,
                    clientVars, watchVars>>
  \/ Fail("capabilities")

\* (Mutant: an update that was not sent yet keeps its place in the channel.)
SetServingStatusBehind(st) ==
  /\ status' = st
  /\ update' = [w \in Watchers |->
                  IF rpc[w] = "watching" /\ update[w] = <<>> THEN <<st>>
                  ELSE update[w]]

\* setServingStatusLocked: the new status replaces one that a Watch call has
\* not taken from its channel.
SetServingStatus(st) ==
  /\ status' = st
  /\ update' = [w \in Watchers |->
                  IF rpc[w] = "watching" THEN <<st>> ELSE update[w]]

CSIDriverIsReady ==
  /\ Go("ready", "http")
  /\ SetServingStatus("SERVING")
  /\ UNCHANGED <<proc, serve, http, driverVars, signalVars, clientVars, told>>

SpawnHTTPServer ==
  /\ Go("http", "notify")
  /\ http' = "spawned"
  /\ UNCHANGED <<proc, serve, status, driverVars, signalVars, clientVars,
                 watchVars>>

\* signal.Notify.
Notify ==
  /\ Go("notify", "wait")
  /\ UNCHANGED <<proc, serve, http, status, driverVars, signalVars, clientVars,
                 watchVars>>

----------------------------------------------------------------------------
(* sidecar.Run: the stop.                                                  *)

ReceiveSignal ==
  /\ Go("wait", "shutdown")
  /\ sigChan = 1 /\ sigChan' = 0
  /\ UNCHANGED <<proc, serve, http, status, driverVars, signalled, clientVars,
                 watchVars>>

\* The health server says NOT_SERVING from now on.
ShuttingDown ==
  /\ Go("shutdown", "quit")
  /\ SetServingStatus("NOT_SERVING")
  /\ UNCHANGED <<proc, serve, http, driverVars, signalVars, clientVars, told>>

\* GracefulStop, from here to "returned".
Quit ==
  /\ Go("quit", "listeners")
  /\ UNCHANGED <<proc, serve, http, status, driverVars, signalVars, clientVars,
                 watchVars>>

CloseListeners ==
  /\ Go("listeners", "serveWG")
  /\ UNCHANGED <<proc, serve, http, status, driverVars, signalVars, clientVars,
                 watchVars>>

QuitFired == main \in {"listeners", "serveWG", "drain", "conns", "returned"}
ListenersClosed == main \in {"serveWG", "drain", "conns", "returned"}
Stopping == main \in {"shutdown", "quit"} \/ QuitFired

\* serveWG: Serve itself and the connections it has accepted.
WaitServe ==
  /\ Go("serveWG", "drain")
  /\ serve # "accepting"
  /\ \A c \in Clients : conn[c] \notin {"accepted", "handshake"}
  /\ UNCHANGED <<proc, serve, http, status, driverVars, signalVars, clientVars,
                 watchVars>>

\* A GOAWAY is sent on each connection.
DrainAllServerTransports ==
  /\ Go("drain", "conns")
  /\ conn' = [c \in Clients |-> IF conn[c] = "open" THEN "goaway" ELSE conn[c]]
  /\ UNCHANGED <<proc, serve, http, status, driverVars, signalVars, rpc,
                 watchVars>>

Active(c) == rpc[c] \in {"called", "admitted", "watching"}

\* (Mutant: handlers whose connection is gone are not waited for.)
WaitConnectionsOnly ==
  /\ Go("conns", "returned")
  /\ \A c \in Clients : conn[c] \in {"none", "closed"}
  /\ UNCHANGED <<proc, serve, http, status, driverVars, signalVars, clientVars,
                 watchVars>>

\* Every connection is closed, and every handler has returned.
WaitConnectionsAndHandlers ==
  /\ Go("conns", "returned")
  /\ \A c \in Clients : conn[c] \in {"none", "closed"} /\ ~Active(c)
  /\ UNCHANGED <<proc, serve, http, status, driverVars, signalVars, clientVars,
                 watchVars>>

\* sidecar.Run returns 0.
Exit ==
  /\ main = "returned"
  /\ proc' = "exited"
  /\ UNCHANGED <<main, serve, http, status, driverVars, signalVars, clientVars,
                 watchVars>>

RunStep ==
  \/ New \/ NewServer \/ Start \/ ProbeOnce \/ ProbeTicks \/ CheckCapabilities
  \/ CSIDriverIsReady \/ SpawnHTTPServer \/ Notify
  \/ ReceiveSignal \/ ShuttingDown \/ Quit \/ CloseListeners \/ WaitServe
  \/ DrainAllServerTransports \/ WaitConnectionsAndHandlers \/ Exit

----------------------------------------------------------------------------
(* The other goroutines, and what ends the process from outside.           *)

Fatal(how) ==
  /\ proc' = how
  /\ UNCHANGED <<main, serve, http, status, driverVars, signalVars, clientVars,
                 watchVars>>

\* grpcServer.Serve: called after the stop has closed the listeners, it
\* returns ErrServerStopped, and the goroutine calls klog.Fatalf.
Serve ==
  /\ serve = "spawned"
  /\ IF ListenersClosed
       THEN Fatal("serveFatal")
       ELSE /\ serve' = "accepting"
            /\ UNCHANGED <<main, proc, http, status, driverVars, signalVars,
                           clientVars, watchVars>>

\* Accept fails for good: unless the server is quitting, that is fatal.
AcceptFails ==
  /\ serve = "accepting"
  /\ IF QuitFired
       THEN /\ serve' = "left"
            /\ UNCHANGED <<main, proc, http, status, driverVars, signalVars,
                           clientVars, watchVars>>
       ELSE Fatal("serveFatal")

\* (Mutant: Accept does not notice that its listener was closed.)
AcceptStopsNever == FALSE /\ UNCHANGED vars

AcceptStops ==
  /\ serve = "accepting" /\ ListenersClosed
  /\ serve' = "left"
  /\ UNCHANGED <<main, proc, http, status, driverVars, signalVars, clientVars,
                 watchVars>>

ListenAndServe ==
  /\ http = "spawned"
  /\ http' = "listening"
  /\ UNCHANGED <<main, proc, serve, status, driverVars, signalVars, clientVars,
                 watchVars>>

ListenAndServeFails ==
  /\ http \in {"spawned", "listening"}
  /\ Fatal("httpFatal")

ExitOnConnectionLoss ==
  /\ main # "new"
  /\ Fatal("killed")

\* (Mutants: a channel without room loses a signal that Run does not wait for at
\* that moment; a queue keeps every signal.)
SignalUnbuffered ==
  IF main = "wait" \/ Stopping
    THEN /\ sigChan' \in {sigChan, 1}
         /\ signalled' = TRUE
         /\ UNCHANGED <<processVars, status, driverVars, clientVars, watchVars>>
    ELSE Fatal("killed")
SignalQueued ==
  IF main = "wait" \/ Stopping
    THEN /\ sigChan' = sigChan + 1
         /\ signalled' = TRUE
         /\ UNCHANGED <<processVars, status, driverVars, clientVars, watchVars>>
    ELSE Fatal("killed")

\* A termination signal: before signal.Notify its default action, the end of
\* the process; after it, a place in sigChan if there is one.
Signal ==
  IF main = "wait" \/ Stopping
    THEN /\ sigChan' = 1
         /\ signalled' = TRUE
         /\ UNCHANGED <<processVars, status, driverVars, clientVars, watchVars>>
    ELSE Fatal("killed")

PluginBecomesReady ==
  /\ plugin = "starting" /\ plugin' = "ready"
  /\ UNCHANGED <<processVars, status, capable, signalVars, clientVars, watchVars>>

----------------------------------------------------------------------------
(* Connections and calls.                                                  *)

SetConn(c, from, to) ==
  /\ conn[c] \in from
  /\ conn' = [conn EXCEPT ![c] = to]
  /\ UNCHANGED <<processVars, status, driverVars, signalVars, rpc, watchVars>>

SetRPC(c, from, to) ==
  /\ rpc[c] = from
  /\ rpc' = [rpc EXCEPT ![c] = to]

Accept(c) ==
  serve = "accepting" /\ ~ListenersClosed /\ SetConn(c, {"none"}, "accepted")

HandleRawConn(c) ==
  SetConn(c, {"accepted"}, IF QuitFired THEN "closed" ELSE "handshake")

\* The TLS and HTTP/2 handshakes succeed, or fail, in bounded time.
HandshakeEnds(c) ==
  SetConn(c, {"handshake"}, "open") \/ SetConn(c, {"handshake"}, "closed")

\* The client learns of the GOAWAY and makes no new call.
GoAwayArrives(c) == SetConn(c, {"goaway"}, "draining")

CloseDrained(c) == ~Active(c) /\ SetConn(c, {"draining"}, "closed")

ClientDisconnects(c) == SetConn(c, {"open", "goaway", "draining"}, "closed")

Call(c) ==
  /\ conn[c] \in {"open", "goaway"}
  /\ SetRPC(c, "none", "called")
  /\ UNCHANGED <<processVars, status, driverVars, signalVars, conn, watchVars>>

\* isCSIDriverReady, in the handler of a metadata call.
IsCSIDriverReady(c) ==
  /\ c \in Callers
  /\ SetRPC(c, "called", IF status = "SERVING" THEN "admitted" ELSE "done")
  /\ UNCHANGED <<processVars, status, driverVars, signalVars, conn, watchVars>>

HandlerReturns(c) ==
  /\ SetRPC(c, "admitted", "done")
  /\ UNCHANGED <<processVars, status, driverVars, signalVars, conn, watchVars>>

\* Watch registers its channel and puts the current status in it.
Watch(w) ==
  /\ w \in Watchers
  /\ SetRPC(w, "called", "watching")
  /\ update' = [update EXCEPT ![w] = <<status>>]
  /\ UNCHANGED <<processVars, status, driverVars, signalVars, conn, told>>

WatchSends(w) ==
  /\ rpc[w] = "watching" /\ update[w] # <<>>
  /\ told' = [told EXCEPT ![w] = Head(update[w])]
  /\ update' = [update EXCEPT ![w] = <<>>]
  /\ UNCHANGED <<processVars, status, driverVars, signalVars, clientVars>>

\* The context of the stream is done, and nothing else ends a Watch call.
WatchEnds(w) ==
  /\ conn[w] = "closed"
  /\ SetRPC(w, "watching", "done")
  /\ update' = [update EXCEPT ![w] = <<>>]
  /\ UNCHANGED <<processVars, status, driverVars, signalVars, conn, told>>

ServerStep(c) ==
  \/ HandleRawConn(c) \/ HandshakeEnds(c) \/ GoAwayArrives(c) \/ CloseDrained(c)
  \/ IsCSIDriverReady(c) \/ HandlerReturns(c)

WatchStep(w) == Watch(w) \/ WatchSends(w) \/ WatchEnds(w)

Quiescent == ~Alive /\ UNCHANGED vars

Next ==
  \/ /\ Alive
     /\ \/ RunStep
        \/ Serve \/ AcceptFails \/ AcceptStops
        \/ ListenAndServe \/ ListenAndServeFails \/ ExitOnConnectionLoss
        \/ Signal \/ PluginBecomesReady
        \/ \E c \in Clients :
             Accept(c) \/ ClientDisconnects(c) \/ Call(c) \/ ServerStep(c)
        \/ \E w \in Watchers : WatchStep(w)
  \/ Quiescent

Spec == Init /\ [][Next]_vars

----------------------------------------------------------------------------
(* Fairness: goroutines run, the ticker ticks, handshakes end (the server    *)
(* bounds them), GOAWAYs arrive and handlers return (MetadataStream).        *)

FairSpec ==
  /\ Spec
  /\ WF_vars(Alive /\ RunStep)
  /\ WF_vars(Alive /\ AcceptStops) /\ WF_vars(Alive /\ Serve)
  /\ \A c \in Clients : WF_vars(Alive /\ ServerStep(c))
  /\ \A w \in Watchers : WF_vars(Alive /\ WatchStep(w))

\* Clients do not stay connected for ever.
LeavingClientsSpec ==
  FairSpec /\ \A c \in Clients : WF_vars(Alive /\ ClientDisconnects(c))

----------------------------------------------------------------------------
(* Properties.                                                             *)

\* Type invariant.
TypeOK ==
  /\ main \in {"new", "newServer", "start", "probe", "probeSleep",
               "capabilities", "ready", "http", "notify", "wait", "shutdown",
               "quit", "listeners", "serveWG", "drain", "conns", "returned"}
  /\ proc \in {"running", "exited", "failed", "serveFatal", "httpFatal", "killed"}
  /\ serve \in {"none", "spawned", "accepting", "left"}
  /\ http \in {"none", "spawned", "listening"}
  /\ status \in Statuses
  /\ plugin \in {"starting", "ready"} /\ capable \in BOOLEAN
  /\ sigChan \in {0, 1} /\ signalled \in BOOLEAN
  /\ conn \in [Clients -> {"none", "accepted", "handshake", "open", "goaway",
                           "draining", "closed"}]
  /\ rpc \in [Clients -> {"none", "called", "admitted", "watching", "done"}]
  /\ update \in [Watchers -> {<<>>} \cup {<<st>> : st \in Statuses}]
  /\ told \in [Watchers -> Statuses \cup {"none"}]

\* A call is served only by a sidecar whose driver was found ready and able to
\* enumerate: while the driver is being validated, which may take for ever,
\* the port is open and calls do come in.
ServedByCapableDriver ==
  \A c \in Callers : rpc[c] = "admitted" => plugin = "ready" /\ capable

\* What a watcher was told, or will be told next, is what the health server
\* says: the single place of its channel never holds back the latest status.
WatchUpToDate ==
  \A w \in Watchers : rpc[w] = "watching" =>
    status = IF update[w] = <<>> THEN told[w] ELSE Head(update[w])

\* The process keeps the promise of SidecarPhases.
Startup == {"new", "newServer", "start", "probe", "probeSleep", "capabilities",
            "ready"}
Phases == INSTANCE SidecarPhases WITH
  Calls <- Callers,
  phase <- CASE proc = "exited" -> "exited"
             [] proc \notin {"running", "exited"} -> "crashed"
             [] proc = "running" /\ main \in Startup -> "starting"
             [] proc = "running" /\ main \in {"http", "notify", "wait", "shutdown"} -> "running"
             [] OTHER -> "stopping",
  served <- IF proc = "running" THEN {c \in Callers : rpc[c] = "admitted"} ELSE {}
ImplementsPhases == Phases!Spec

\* A driver that becomes ready is found ready, however late: startup comes to
\* its end.
Probing == main \in {"probe", "probeSleep"}
StartupEnds == (Probing /\ plugin = "ready") ~> (~Probing \/ ~Alive)

\* A signal that arrives once signals are caught leads to the stop, also if
\* sidecar.Run is not yet waiting for it.
SignalIsHeard == signalled ~> (Stopping \/ ~Alive)

\* "Stop terminates the gRPC server gracefully": it terminates.
StopTerminates == Stopping ~> ~Alive
=============================================================================
