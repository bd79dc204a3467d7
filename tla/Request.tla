-------------------------------- MODULE Request --------------------------------
(***************************************************************************)
(* A call from its beginning to the request that is sent to the driver:    *)
(* the requests by which it is admitted (CallAuth) and the reads by which  *)
(* the snapshot is found (SnapshotLookup), in the order in which iterator  *)
(* and handler make them.  The iterator settles on a service account,      *)
(* reads the driver's name, gets its token and its client, and reads the   *)
(* base; the handler authenticates and authorizes, asks whether the driver *)
(* is ready, and only then reads the target.  The first of them that does  *)
(* not succeed decides the outcome.                                        *)
(*                                                                         *)
(* The two halves of the cluster change independently of each other, and   *)
(* so does the sidecar's readiness.                                        *)
(***************************************************************************)
EXTENDS CallAuth

CONSTANTS Drivers, Classes, Secrets, Names, Invalid, ClassDriver, ClassSecret,
          MaxIncarnation  \* bound: incarnations of snapshots

VARIABLES
  vs, content, origin, made, class, secrets,        \* as in SnapshotLookup, where
  read, delta, driverGiven, own, seen, base, found, \* made is last, read is pc,
  chosen, readCode, calm,                           \* and calm is quiet
  wasReady, wasOpen, wasUsable, wasRight,
  health,   \* what the sidecar's health service says
  checked,  \* what isCSIDriverReady found, or "none"
  steady    \* history: health has not changed since the call began

Lookup == INSTANCE SnapshotLookup
            WITH MaxUid <- MaxIncarnation, last <- made, pc <- read,
                 given <- driverGiven, code <- readCode, quiet <- calm

ASSUME RequestAssumption ==
  /\ MaxIncarnation \in Nat
  /\ "target" \in Names /\ Names \subseteq {"target", "base"}
  /\ None \notin Classes \cup Secrets \cup Drivers
  /\ Invalid \notin Secrets \cup {None}
  /\ ClassDriver \in [Classes -> Drivers]
  /\ ClassSecret \in [Classes -> Secrets \cup {None, Invalid}]

readinessVars == <<health, checked, steady>>
lookupVars ==
  <<vs, content, origin, made, class, secrets, read, delta, driverGiven, own, seen,
    base, found, chosen, readCode, calm, wasReady, wasOpen, wasUsable, wasRight>>
requestVars == <<vars, lookupVars, readinessVars>>

RequestInit ==
  /\ Init /\ Lookup!Init
  /\ health \in {"starting", "ready", "stopping"}
  /\ checked = "none" /\ steady = TRUE

----------------------------------------------------------------------------
(* The order of the steps.                                                 *)

DriverReads == {"driver", "driverContent"}
BaseReads   == {"base", "baseContent"}
TargetReads == {"target", "content", "class", "secret"}

Admitted == pc = "done" /\ code = "OK"

\* The code of the first step that did not succeed, "OK" if all have.
Outcome ==
  IF read = "done" THEN readCode
    ELSE IF pc = "done" /\ code # "OK" THEN code
    ELSE IF checked = "unready" THEN "Unavailable" ELSE "none"
Over == Outcome # "none"

\* (Mutants: the handler reads the target before it authenticates; the iterator
\* reads the base before it has a client.)
MayReadFirst ==
  \/ read \in DriverReads /\ pc = "service"
  \/ read \in BaseReads   /\ pc = "connect"
  \/ read \in TargetReads /\ (pc = "audience" \/ Admitted)
MayReadBaseFirst ==
  \/ read \in DriverReads \cup BaseReads /\ pc = "service"
  \/ read \in TargetReads /\ Admitted /\ checked = "ready"

\* When the reads are made.
MayRead ==
  \/ read \in DriverReads /\ pc = "service"
  \/ read \in BaseReads   /\ pc = "connect"
  \/ read \in TargetReads /\ Admitted /\ checked = "ready"

\* When the other requests are.
MayAuthenticate ==
  \/ pc = "account"
  \/ pc \in {"service", "token", "client"} /\ read \notin DriverReads
  \/ pc = "connect" /\ read = "target"
  \/ pc \in {"audience", "review", "access"}

----------------------------------------------------------------------------
(* The steps.                                                              *)

BeginRequest(g, s) ==
  /\ Begin(g, s) /\ Lookup!Begin
  /\ UNCHANGED readinessVars

\* Another client knows its sidecar, and names a base by its handle.
OtherRequest(t) ==
  /\ OtherClient(t) /\ Lookup!Begin
  /\ driverGiven' /\ ~delta'
  /\ UNCHANGED readinessVars

AuthStep ==
  /\ MayAuthenticate /\ ~Over
  /\ CallStep
  /\ UNCHANGED <<lookupVars, readinessVars>>

ReadStep ==
  /\ MayRead /\ ~Over
  /\ Lookup!CallStep
  /\ UNCHANGED <<vars, readinessVars>>

isCSIDriverReady ==
  /\ Admitted /\ checked = "none"
  /\ checked' = IF health = "ready" THEN "ready" ELSE "unready"
  /\ UNCHANGED <<vars, lookupVars, health, steady>>

ChangesOfAccess ==
  /\ ~Over /\ Environment
  /\ UNCHANGED <<lookupVars, readinessVars>>

ChangesOfSnapshots ==
  /\ ~Over /\ Lookup!ClusterStep /\ Lookup!Change
  /\ UNCHANGED <<vars, readinessVars>>

setReady        == health = "starting" /\ health' = "ready"
shuttingDown    == health # "stopping" /\ health' = "stopping"
\* Health is of no interest once it has been looked at.
ChangesOfHealth ==
  /\ setReady \/ shuttingDown
  /\ pc # "idle" /\ ~Over /\ checked = "none" /\ steady' = FALSE
  /\ UNCHANGED <<vars, lookupVars, checked>>

RequestEnded == Over /\ UNCHANGED requestVars

RequestNext ==
  \/ \E g \in {"neither", "both", "name", "namespace"}, s \in Accounts : BeginRequest(g, s)
  \/ \E t \in {u \in Tokens : u.uid <= last} \cup {None} : OtherRequest(t)
  \/ AuthStep \/ ReadStep \/ isCSIDriverReady
  \/ ChangesOfAccess \/ ChangesOfSnapshots \/ ChangesOfHealth \/ RequestEnded

RequestSpec == RequestInit /\ [][RequestNext]_requestVars

----------------------------------------------------------------------------
(* Properties.                                                             *)

\* While the sidecar was at the call, its user was who the token says and was
\* allowed to get VolumeSnapshots in the namespace of the request.
Entitled ==
  /\ token # None /\ aware
  /\ token.audience \in wasAudience
  /\ TRUE \in wasValid /\ TRUE \in wasGranted

\* Whatever the sidecar says of a snapshot, it has looked up for a user who was
\* entitled to get it: an outcome of SnapshotLookup, other than that of the
\* iterator's own reads, and whatever the sidecar has read on the way to it.  The
\* request that it sends to the driver is a true one: its target was ready, and its
\* base did not deny that it was, at instants of the call (Lookup!RequestWasTrue).
ReadForTheEntitled ==
  /\ found # 0 \/ (read = "done" /\ readCode # "ClientError") => Entitled
  /\ Outcome = "OK" => Entitled /\ Lookup!RequestWasTrue

\* What decides a call that nothing disturbs, in the order of the code: the
\* first line whose condition holds.
ExpectedOutcome ==
  IF given \in {"name", "namespace"} \/ (given = "neither" /\ self \notin Accounts)
    THEN "ErrInvalidArgs"
  ELSE IF ~driverGiven /\ vs["target"].stage \notin Lookup!Bound
    THEN "ClientError"
  ELSE IF sms = None \/ account[sa] = 0    THEN "Error"
  ELSE IF sms.ca = BadCA                   THEN "ErrCACert"
  ELSE IF delta /\ ~Lookup!BaseIsUsable    THEN "ClientError"
  ELSE IF sms.ca # cert                    THEN "Unavailable"
  ELSE IF ~aware \/ flag \notin {None, sms.audience} THEN "Unauthenticated"
  ELSE IF <<sa, namespace>> \notin grants  THEN "PermissionDenied"
  ELSE IF health # "ready"                 THEN "Unavailable"
  ELSE Lookup!ExpectedTarget(IF driverGiven THEN own ELSE origin[vs["target"].uid].driver)

\* In a cluster that does not change during the call, the outcome of an iterator's
\* call is that of one look at everything: the first obstacle decides.
FirstObstacleDecides ==
  Over /\ given # "token" /\ quiet /\ calm /\ steady => Outcome = ExpectedOutcome
=============================================================================
