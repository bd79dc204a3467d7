----------------------------- MODULE Request_proofs -----------------------------
(***************************************************************************)
(* Proofs about Request: it implements the two specifications that it is   *)
(* made of, and what they promise holds of the whole call.                 *)
(***************************************************************************)
EXTENDS Request, CallAuth_proofs

Reads == INSTANCE SnapshotLookup_proofs
            WITH MaxUid <- MaxIncarnation, last <- made, pc <- read,
                 given <- driverGiven, code <- readCode, quiet <- calm

USE DEF Lookup!Bound, Lookup!Undenied, Reads!Bound, Reads!Undenied

----------------------------------------------------------------------------
(* The two names of the specification of the reads.                        *)

LEMMA SameVars == UNCHANGED lookupVars => UNCHANGED Reads!vars
BY DEF lookupVars, Reads!vars, Reads!clusterVars, Reads!callVars, Reads!historyVars

LEMMA SameInit == Lookup!Init => Reads!Init
BY DEF Lookup!Init, Lookup!Absent, Lookup!Unmade, Lookup!Uids,
       Reads!Init, Reads!Absent, Reads!Unmade, Reads!Uids

LEMMA SameChange == Lookup!Change <=> Reads!Change
BY DEF Lookup!Change, Lookup!callVars, Lookup!Ready, Lookup!Open, Lookup!Usable, Lookup!Right, Lookup!RightClass,
       Lookup!Defaults, Lookup!Uids,
       Reads!Change, Reads!callVars, Reads!Ready, Reads!Open, Reads!Usable, Reads!Right, Reads!RightClass,
       Reads!Defaults, Reads!Uids

LEMMA SameClusterStep == Lookup!ClusterStep <=> Reads!ClusterStep
BY DEF Lookup!ClusterStep, Lookup!Stage, Lookup!CreateSnapshot, Lookup!CreateContent,
       Lookup!ReportError, Lookup!Bind, Lookup!TakeSnapshot, Lookup!ReportUnready,
       Lookup!ReportReady,
       Lookup!DeleteSnapshot, Lookup!DeleteContent, Lookup!ChangeClass,
       Lookup!ChangeSecret, Lookup!Absent, Lookup!Uids,
       Reads!ClusterStep, Reads!Stage, Reads!CreateSnapshot, Reads!CreateContent,
       Reads!ReportError, Reads!Bind, Reads!TakeSnapshot, Reads!ReportUnready,
       Reads!ReportReady,
       Reads!DeleteSnapshot, Reads!DeleteContent, Reads!ChangeClass,
       Reads!ChangeSecret, Reads!Absent, Reads!Uids

LEMMA SameBegin == Lookup!Begin <=> Reads!Begin
BY DEF Lookup!Begin, Lookup!Ready, Lookup!Open, Lookup!Usable, Lookup!Uids, Lookup!clusterVars,
       Reads!Begin, Reads!Ready, Reads!Open, Reads!Usable, Reads!Uids, Reads!clusterVars

LEMMA SameCallStep == Lookup!CallStep <=> Reads!CallStep
BY DEF Lookup!CallStep, Lookup!Begin, Lookup!GetDriverSnapshot, Lookup!GetDriverContent,
       Lookup!GetPrevSnapshot, Lookup!GetPrevContent, Lookup!GetVolumeSnapshot,
       Lookup!GetVolumeSnapshotContent, Lookup!GetVolumeSnapshotClass,
       Lookup!GetDefaultVolumeSnapshotClassForDriver, Lookup!GetSecretReference,
       Lookup!GetCredentials, Lookup!ReadFails, Lookup!End, Lookup!Right,
       Lookup!RightClass, Lookup!Defaults, Lookup!Ready, Lookup!Open, Lookup!Usable, Lookup!Uids,
       Lookup!clusterVars, Lookup!historyVars,
       Reads!CallStep, Reads!Begin, Reads!GetDriverSnapshot, Reads!GetDriverContent,
       Reads!GetPrevSnapshot, Reads!GetPrevContent, Reads!GetVolumeSnapshot,
       Reads!GetVolumeSnapshotContent, Reads!GetVolumeSnapshotClass,
       Reads!GetDefaultVolumeSnapshotClassForDriver, Reads!GetSecretReference,
       Reads!GetCredentials, Reads!ReadFails, Reads!End, Reads!Right,
       Reads!RightClass, Reads!Defaults, Reads!Ready, Reads!Open, Reads!Usable, Reads!Uids,
       Reads!clusterVars, Reads!historyVars

LEMMA SameTruth == Reads!RequestWasTrue => Lookup!RequestWasTrue
BY DEF Reads!RequestWasTrue, Lookup!RequestWasTrue

----------------------------------------------------------------------------
(* Every step of a call is one of its halves, or of neither.               *)

LEMMA StepOfAuth == [RequestNext]_requestVars => [Next]_vars
<1> SUFFICES ASSUME [RequestNext]_requestVars PROVE [Next]_vars
  OBVIOUS
<1>1. CASE UNCHANGED requestVars
  BY <1>1 DEF requestVars
<1>2. CASE RequestNext
  BY <1>2 DEF RequestNext, BeginRequest, OtherRequest, AuthStep, ReadStep, isCSIDriverReady,
     ChangesOfAccess, ChangesOfSnapshots, ChangesOfHealth, RequestEnded, requestVars, Next
<1> QED
  BY <1>1, <1>2

LEMMA StepOfReads == [RequestNext]_requestVars => [Reads!Next]_Reads!vars
<1> SUFFICES ASSUME [RequestNext]_requestVars PROVE [Reads!Next]_Reads!vars
  OBVIOUS
<1>1. CASE UNCHANGED lookupVars
  BY <1>1, SameVars
<1>2. CASE Lookup!Begin \/ Lookup!CallStep \/ (Lookup!ClusterStep /\ Lookup!Change)
  BY <1>2, SameBegin, SameCallStep, SameClusterStep, SameChange DEF Reads!Next, Reads!CallStep
<1>3. CASE UNCHANGED requestVars
  BY <1>1, <1>3 DEF requestVars
<1> QED
  BY <1>1, <1>2, <1>3 DEF RequestNext, BeginRequest, OtherRequest, AuthStep, ReadStep,
     isCSIDriverReady, ChangesOfAccess, ChangesOfSnapshots, ChangesOfHealth, RequestEnded

\* A call, from its beginning to the request to the driver, is one of CallAuth:
\* the reads between the requests by which it is admitted (iter.go:218-250,
\* auth.go:34-84) and what becomes of the snapshots do not disturb these.
THEOREM ImplementsAuth == RequestSpec => Spec
<1>1. RequestInit => Init
  BY DEF RequestInit
<1> QED
  BY <1>1, StepOfAuth, PTL DEF RequestSpec, Spec

\* And it is one of SnapshotLookup: what else is asked for in the course of the
\* call does not disturb the reads (iter.go:218-277, snapshot.go:47-86).
THEOREM ImplementsLookup == RequestSpec => Lookup!Spec
<1>1. RequestInit => Lookup!Init
  BY DEF RequestInit
<1>2. [RequestNext]_requestVars => [Lookup!Next]_Lookup!vars
  <2>1. UNCHANGED lookupVars => UNCHANGED Lookup!vars
    BY DEF lookupVars, Lookup!vars, Lookup!clusterVars, Lookup!callVars, Lookup!historyVars
  <2> QED
    BY <2>1 DEF RequestNext, BeginRequest, OtherRequest, AuthStep, ReadStep, isCSIDriverReady,
       ChangesOfAccess, ChangesOfSnapshots, ChangesOfHealth, RequestEnded, requestVars,
       Lookup!Next, Lookup!CallStep
<1> QED
  BY <1>1, <1>2, PTL DEF RequestSpec, Lookup!Spec

\* So what is proved of each half holds of it in the middle of the rest.
LEMMA HalvesKeep == RequestSpec => [](IInv /\ Reads!IInv /\ Reads!ExactInv)
<1>1. RequestInit => Reads!Init
  BY SameInit DEF RequestInit
<1>2. RequestSpec => Reads!Spec
  BY <1>1, StepOfReads, PTL DEF RequestSpec, Reads!Spec
<1> QED
  BY <1>2, ImplementsAuth, AuthInvariant, Reads!QuietCalls, RequestAssumption, PTL

----------------------------------------------------------------------------
(* The order of the two halves.                                            *)

Readiness == {"none", "ready", "unready"}

\* Where the reads are tells where the other requests are, and the reverse.
OrderInv ==
  /\ checked \in Readiness /\ (checked # "none" => Admitted)
  /\ read = "idle" <=> pc = "idle"
  /\ read \in DriverReads => pc \in {"account", "service", "done"}
  /\ read \in BaseReads => pc \notin InSidecar
  /\ pc \in InSidecar => read = "target"
  /\ Admitted => read \in TargetReads \cup {"done"}
  /\ read \in {"content", "class", "secret"} => Admitted /\ checked = "ready"
  /\ read = "done" =>
       \/ readCode = "ClientError" /\ pc \in {"service", "connect"}
       \/ readCode \notin {"ClientError", "none"} /\ Admitted /\ checked = "ready"
  /\ found # 0 => Admitted /\ checked = "ready"
  /\ pc = "connect" => smsCR.ca # BadCA
  /\ checked = "ready" => health = "ready"

\* Where a read leads to.
LEMMA ReadMoves ==
  ASSUME Reads!IInv, Reads!CallStep, read # "idle"
  PROVE  /\ read' # "idle" /\ UNCHANGED <<delta, driverGiven, vs, content, origin, class, secrets>>
         /\ read \in DriverReads =>
              \/ read' \in DriverReads \cup BaseReads \cup {"target"}
              \/ read' = "done" /\ readCode' = "ClientError"
         /\ read \in BaseReads =>
              \/ read' \in BaseReads \cup {"target"}
              \/ read' = "done" /\ readCode' = "ClientError"
         /\ read \in TargetReads =>
              \/ read' \in {"content", "class", "secret"}
              \/ read' = "done" /\ readCode' \notin {"ClientError", "none"}
         /\ read \notin TargetReads => found' = found
<1>1. ~Reads!Begin
  BY DEF Reads!Begin
<1> QED
  BY <1>1 DEF Reads!CallStep, Reads!GetDriverSnapshot, Reads!GetDriverContent,
     Reads!GetPrevSnapshot, Reads!GetPrevContent, Reads!GetVolumeSnapshot,
     Reads!GetVolumeSnapshotContent, Reads!GetVolumeSnapshotClass,
     Reads!GetDefaultVolumeSnapshotClassForDriver, Reads!GetSecretReference,
     Reads!GetCredentials, Reads!ReadFails, Reads!End, Reads!clusterVars,
     DriverReads, BaseReads, TargetReads

\* Where another request leads to.
LEMMA AuthMoves ==
  ASSUME IInv, CallStep
  PROVE  /\ pc' # "idle" /\ pc # "idle" /\ pc # "done"
         /\ pc = "account" => pc' \in {"service", "done"}
         /\ pc' = "connect" => pc = "client" /\ smsCR'.ca # BadCA
         /\ pc' \in InSidecar => pc \in InSidecar \cup {"connect"}
         /\ pc' = "done" => code' # "none"
         /\ pc' # "done" => code' = code
         /\ pc' = "done" /\ code' = "OK" => pc = "access"
BY DEF IInv, MomentInv, InSidecar, CallStep, getDefaultServiceAccount,
   getSnapshotMetadataServiceCR, createSecurityToken, getGRPCClient, Connect, Arrives,
   authenticateRequest, getAudienceForDriver, Authenticate, Authorize, RequestFails,
   Return, IteratorRequest, SidecarRequest

LEMMA OrderStep ==
  ASSUME IInv, Reads!IInv, Reads!IInv', OrderInv, [RequestNext]_requestVars
  PROVE  OrderInv'
<1> USE DEF OrderInv
<1>0. /\ pc \in Points /\ (pc # "done" => code = "none")
      /\ read # "done" => readCode = "none"
      /\ read \in {"idle", "done"} \cup DriverReads \cup BaseReads \cup TargetReads
  BY DEF IInv, TypeOK, MomentInv, Reads!IInv, Reads!TypeOK, Reads!CallInv,
     DriverReads, BaseReads, TargetReads
<1>1. ASSUME Lookup!Begin, pc = "idle", UNCHANGED readinessVars,
             \/ pc' \in {"account", "service"}
             \/ pc' = "done" /\ code' # "OK"
             \/ pc' = "audience" /\ read' = "target"
      PROVE  OrderInv'
  <2>1. read' \in {"driver", "base", "target"} /\ found' = found
    BY <1>1 DEF Lookup!Begin
  <2> QED
    BY <1>0, <1>1, <2>1 DEF readinessVars, Admitted, DriverReads, BaseReads, TargetReads, InSidecar
<1>2. ASSUME NEW g \in {"neither", "both", "name", "namespace"}, NEW s \in Accounts, BeginRequest(g, s)
      PROVE  OrderInv'
  BY <1>1, <1>2 DEF BeginRequest, Begin, Return
<1>3. ASSUME NEW t, OtherRequest(t)
      PROVE  OrderInv'
  <2>1. read' = "target"
    BY <1>3 DEF OtherRequest, Lookup!Begin
  <2> QED
    BY <1>1, <1>3, <2>1 DEF OtherRequest, OtherClient, Arrives
<1>4. CASE AuthStep
  <2>1. /\ UNCHANGED lookupVars /\ UNCHANGED readinessVars /\ MayAuthenticate /\ ~Over /\ CallStep
    BY <1>4 DEF AuthStep
  <2>2. read # "done" /\ ~Admitted
    BY <1>0, <2>1, AuthMoves DEF Over, Outcome, Admitted
  <2> QED
    BY <1>0, <2>1, <2>2, AuthMoves DEF MayAuthenticate, Admitted, lookupVars, readinessVars,
       DriverReads, BaseReads, TargetReads, InSidecar
<1>5. CASE ReadStep
  <2>1. /\ UNCHANGED vars /\ UNCHANGED readinessVars /\ MayRead /\ ~Over /\ Reads!CallStep
    BY <1>5, SameCallStep DEF ReadStep
  <2>2. UNCHANGED <<pc, code, smsCR, checked, health>>
    BY <2>1 DEF vars, callVars, readinessVars
  <2>3. read # "idle"
    BY <2>1 DEF MayRead, DriverReads, BaseReads, TargetReads
  <2> QED
    BY <1>0, <2>1, <2>2, <2>3, ReadMoves DEF MayRead, Admitted,
       DriverReads, BaseReads, TargetReads, InSidecar
<1>6. CASE isCSIDriverReady
  BY <1>0, <1>6 DEF isCSIDriverReady, Admitted, vars, callVars, lookupVars, Readiness, TargetReads
<1>7. CASE ChangesOfAccess
  BY <1>7 DEF ChangesOfAccess, Environment, Change, callVars, Admitted, lookupVars, readinessVars
<1>8. CASE ChangesOfSnapshots
  BY <1>8 DEF ChangesOfSnapshots, Lookup!Change, Lookup!callVars, Admitted, vars, callVars, readinessVars
<1>9. CASE ChangesOfHealth
  BY <1>9 DEF ChangesOfHealth, Admitted, vars, callVars, lookupVars
<1>10. CASE UNCHANGED requestVars
  BY <1>10 DEF requestVars, Admitted, vars, callVars, lookupVars, readinessVars
<1> QED
  BY <1>2, <1>3, <1>4, <1>5, <1>6, <1>7, <1>8, <1>9, <1>10 DEF RequestNext, RequestEnded

\* The invariant of the order is inductive: the handlers ask for the admission
\* (get_metadata_allocated.go:55), for the readiness (:59) and for the target (:63)
\* in turn, and the iterator's reads end where its part does (iter.go:218-270).
THEOREM OrderKept == RequestSpec => []OrderInv
<1>1. RequestInit => OrderInv
  BY DEF RequestInit, Init, Lookup!Init, OrderInv, Admitted, Readiness, InSidecar,
     DriverReads, BaseReads, TargetReads
<1> QED
  BY <1>1, OrderStep, HalvesKeep, PTL DEF RequestSpec

----------------------------------------------------------------------------
(* Who learns what of a snapshot.                                          *)

\* The sidecar reads the target only after authenticateAndAuthorize has admitted
\* the call (get_metadata_allocated.go, get_metadata_delta.go), so whatever it
\* says of a snapshot it says to a user entitled to it.  A request that it sends to
\* the driver is a true one besides, in the sense of RequestIsTrue: of a target that
\* was ready, and of a base that did not deny being so.
THEOREM ForTheEntitled == RequestSpec => []ReadForTheEntitled
<1>1. ASSUME IInv, Reads!IInv, OrderInv PROVE ReadForTheEntitled
  <2>1. Admitted => Entitled
    BY <1>1 DEF IInv, AdmittedWasEntitled, Admitted, Entitled
  <2>2. found # 0 \/ (read = "done" /\ readCode # "ClientError") => Admitted
    BY <1>1 DEF OrderInv
  <2>3. Outcome = "OK" => read = "done" /\ readCode = "OK"
    BY DEF Outcome
  <2>4. Lookup!RequestWasTrue
    BY <1>1, SameTruth DEF Reads!IInv, Reads!CallInv, Reads!RequestWasTrue, Reads!BaseKnown, Reads!BaseRead,
       Reads!TargetKnown, Reads!OwnerKnown, Reads!ClassKnown, Reads!RefusalHasCause
  <2> QED
    BY <2>1, <2>2, <2>3, <2>4 DEF ReadForTheEntitled
<1> QED
  BY <1>1, HalvesKeep, OrderKept, PTL

----------------------------------------------------------------------------
(* A call that nothing disturbs.                                           *)

\* What one look at everything depends on.
ObstacleVars == <<clusterVars, vs, content, origin, class, secrets, given, sa, namespace,
                  driverGiven, delta, own, health>>

LEMMA SameExpected == UNCHANGED ObstacleVars => ExpectedOutcome' = ExpectedOutcome
BY DEF ObstacleVars, clusterVars, ExpectedOutcome, Lookup!ExpectedTarget, Lookup!RightClass,
   Lookup!Defaults, Lookup!BaseIsUsable

\* The obstacles of the iterator's call, one by one.
NoArguments == given \in {"name", "namespace"} \/ (given = "neither" /\ self \notin Accounts)
NoDriver    == ~driverGiven /\ vs["target"].stage \notin Lookup!Bound
NoToken     == sms = None \/ account[sa] = 0
NoBase      == delta /\ ~Lookup!BaseIsUsable

LEMMA SameBase == Lookup!BaseIsUsable <=> Reads!BaseIsUsable
BY DEF Lookup!BaseIsUsable, Reads!BaseIsUsable

\* The parts of the invariants that a step relies on.
Known == IInv /\ Reads!IInv /\ Reads!ExactInv /\ OrderInv

LEMMA Undisturbed ==
  ASSUME Known, quiet, calm, given # "token", pc # "idle"
  PROVE  /\ pc \notin {"account", "done"} => ~NoArguments
         /\ pc = "account" => given = "neither"
         /\ read \notin DriverReads \cup {"done"} => ~NoDriver
         /\ read \in DriverReads => ~driverGiven
         /\ pc \in {"token", "client", "connect"} \cup InSidecar => smsCR = sms /\ sms # None
         /\ pc \in {"client", "connect"} \cup InSidecar => ~NoToken
         /\ pc = "connect" => sms.ca # BadCA
         /\ read \in TargetReads => ~NoBase
         /\ pc \in InSidecar => sms.ca = cert /\ cert # BadCA
<1>1. /\ QuietInv /\ TypeOK /\ OrderInv /\ cert # BadCA
  BY AuthAssumption DEF Known, IInv, TypeOK
<1>2. Reads!QuietDriver /\ Reads!QuietBase
  BY DEF Known, Reads!ExactInv, Reads!QuietInv, OrderInv
<1>3. read \in {"idle", "done"} \cup DriverReads \cup BaseReads \cup TargetReads
  BY DEF Known, Reads!IInv, Reads!TypeOK, DriverReads, BaseReads, TargetReads
<1>4. /\ read \notin DriverReads \cup {"done"} => ~NoDriver
      /\ read \in DriverReads => ~driverGiven
      /\ read \in TargetReads => ~NoBase
  BY <1>1, <1>2, <1>3, SameBase DEF OrderInv, Reads!QuietDriver, Reads!QuietBase, Reads!DriverKnown,
     NoDriver, NoBase, DriverReads, BaseReads, TargetReads
<1>5. /\ pc \notin {"account", "done"} => ~NoArguments
      /\ pc = "account" => given = "neither"
      /\ pc \in {"token", "client", "connect"} \cup InSidecar => smsCR = sms /\ sms # None
      /\ pc \in {"client", "connect"} \cup InSidecar => ~NoToken
      /\ pc \in InSidecar => sms.ca = cert
  BY <1>1 DEF QuietInv, TypeOK, Points, InSidecar, NoArguments, NoToken
<1> QED
  BY <1>1, <1>4, <1>5 DEF OrderInv

\* Where the request that ends the call is one by which it is admitted.
LEMMA AuthObstacle ==
  ASSUME Known, IInv', quiet, calm, quiet', given # "token", AuthStep, pc' = "done", code' # "OK"
  PROVE  code' = ExpectedOutcome
<1> USE DEF ExpectedOutcome
<1>1. /\ CallStep /\ MayAuthenticate /\ ~RequestFails
  BY DEF AuthStep, RequestFails
<1>2. pc # "idle" /\ read # "done" /\ pc # "done"
  BY <1>1, AuthMoves DEF Known, AuthStep, Over, Outcome, OrderInv
<1>3. CASE pc = "account"
  <2>1. code' = "ErrInvalidArgs" /\ self \notin Accounts
    BY <1>1, <1>3 DEF CallStep, getDefaultServiceAccount, getSnapshotMetadataServiceCR,
       createSecurityToken, getGRPCClient, Connect, authenticateRequest,
       getAudienceForDriver, Authenticate, Authorize, Return
  <2> QED
    BY <1>2, <1>3, <2>1, Undisturbed DEF NoArguments
<1>4. CASE pc = "service"
  <2>1. code' = "Error" /\ sms = None /\ read \notin DriverReads
    BY <1>1, <1>4 DEF CallStep, getDefaultServiceAccount, getSnapshotMetadataServiceCR,
       createSecurityToken, getGRPCClient, Connect, authenticateRequest,
       getAudienceForDriver, Authenticate, Authorize, Return, MayAuthenticate
  <2> QED
    BY <1>2, <1>4, <2>1, Undisturbed DEF NoArguments, NoDriver
<1>5. CASE pc = "token"
  <2>1. code' = "Error" /\ account[sa] = 0 /\ read \notin DriverReads
    BY <1>1, <1>5 DEF CallStep, getDefaultServiceAccount, getSnapshotMetadataServiceCR,
       createSecurityToken, getGRPCClient, Connect, authenticateRequest,
       getAudienceForDriver, Authenticate, Authorize, Return, MayAuthenticate
  <2> QED
    BY <1>2, <1>5, <2>1, Undisturbed DEF NoArguments, NoDriver
<1>6. CASE pc = "client"
  <2>1. code' = "ErrCACert" /\ smsCR.ca = BadCA /\ read \notin DriverReads
    BY <1>1, <1>6 DEF CallStep, getDefaultServiceAccount, getSnapshotMetadataServiceCR,
       createSecurityToken, getGRPCClient, Connect, authenticateRequest,
       getAudienceForDriver, Authenticate, Authorize, Return, MayAuthenticate
  <2> QED
    BY <1>2, <1>6, <2>1, Undisturbed DEF NoArguments, NoDriver, NoToken
<1>7. CASE pc = "connect"
  <2>1. code' = "Unavailable" /\ smsCR.ca # cert /\ read = "target"
    BY <1>1, <1>7 DEF CallStep, getDefaultServiceAccount, getSnapshotMetadataServiceCR,
       createSecurityToken, getGRPCClient, Connect, Arrives, authenticateRequest,
       getAudienceForDriver, Authenticate, Authorize, Return, MayAuthenticate
  <2>2. read \in TargetReads /\ read \notin DriverReads
    BY <2>1 DEF TargetReads, DriverReads
  <2> QED
    BY <1>2, <1>7, <2>1, <2>2, Undisturbed DEF NoArguments, NoDriver, NoToken, NoBase
<1>8. ASSUME pc \in InSidecar
      PROVE  /\ ~NoArguments /\ ~NoDriver /\ ~NoToken /\ ~NoBase
             /\ sms.ca = cert /\ cert # BadCA /\ sms # None
  <2>1. read \in TargetReads /\ read \notin DriverReads
    BY <1>8 DEF Known, OrderInv, TargetReads, DriverReads
  <2> QED
    BY <1>2, <1>8, <2>1, Undisturbed DEF InSidecar
<1>9. CASE pc = "audience"
  <2>1. sms = None
    BY <1>1, <1>9 DEF CallStep, getDefaultServiceAccount, getSnapshotMetadataServiceCR,
       createSecurityToken, getGRPCClient, Connect, authenticateRequest,
       getAudienceForDriver, Authenticate, Authorize, Return
  <2> QED
    BY <1>8, <1>9, <2>1 DEF InSidecar
<1>10. CASE pc = "review"
  <2>1. /\ code' = "Unauthenticated"
        /\ ~aware \/ ~Valid \/ token.audience # audience
    BY <1>1, <1>10 DEF CallStep, getDefaultServiceAccount, getSnapshotMetadataServiceCR,
       createSecurityToken, getGRPCClient, Connect, authenticateRequest, TokenReview,
       getAudienceForDriver, Authenticate, Authorize, Return
  <2>2. /\ ~expired /\ account[sa] # 0 /\ token # None /\ audience = Audience
        /\ token = [sa |-> sa, uid |-> account[sa], audience |-> sms.audience]
    BY <1>10 DEF Known, IInv, QuietInv, InSidecar
  <2>3. Valid /\ token.audience = sms.audience
    BY <2>2 DEF Valid
  <2>4. ~aware \/ flag \notin {None, sms.audience}
    BY <1>8, <1>10, <2>1, <2>2, <2>3 DEF Audience, InSidecar
  <2> QED
    BY <1>8, <1>10, <2>1, <2>4 DEF InSidecar, NoArguments, NoDriver, NoToken, NoBase
<1>11. CASE pc = "access"
  <2>1. code' = "PermissionDenied" /\ ~Granted
    BY <1>1, <1>11 DEF CallStep, getDefaultServiceAccount, getSnapshotMetadataServiceCR,
       createSecurityToken, getGRPCClient, Connect, authenticateRequest,
       getAudienceForDriver, Authenticate, Authorize, Return
  <2>2. /\ token # None /\ audience = Audience /\ aware /\ audience = sms.audience
        /\ token = [sa |-> sa, uid |-> account[sa], audience |-> sms.audience]
    BY <1>11 DEF Known, IInv, QuietInv, InSidecar
  <2>3. <<sa, namespace>> \notin grants /\ flag \in {None, sms.audience}
    BY <2>1, <2>2 DEF Granted, Audience
  <2> QED
    BY <1>8, <1>11, <2>1, <2>2, <2>3 DEF InSidecar, NoArguments, NoDriver, NoToken, NoBase
<1> QED
  BY <1>2, <1>3, <1>4, <1>5, <1>6, <1>7, <1>9, <1>10, <1>11 DEF Known, IInv, TypeOK, Points

\* Where it is one of the iterator's own reads.
LEMMA ClientObstacle ==
  ASSUME Known, quiet, calm, calm', given # "token", ReadStep,
         read \in DriverReads \cup BaseReads, read' = "done"
  PROVE  readCode' = ExpectedOutcome
<1>1. /\ Reads!CallStep /\ MayRead /\ read # "idle"
      /\ pc = IF read \in DriverReads THEN "service" ELSE "connect"
  BY SameCallStep DEF ReadStep, MayRead, DriverReads, BaseReads, TargetReads
<1>2. readCode' = "ClientError"
  BY <1>1, ReadMoves DEF Known, DriverReads, BaseReads
<1>3. /\ read \in DriverReads => ~driverGiven
      /\ read \in BaseReads => ~NoDriver /\ ~NoToken /\ sms.ca # BadCA
      /\ ~NoArguments
  BY <1>1, Undisturbed DEF DriverReads, BaseReads
<1>4. ~Reads!Begin /\ ~Reads!ReadFails
  BY <1>1 DEF Reads!Begin, Reads!ReadFails
<1>5. CASE read = "driver"
  <2>1. NoDriver
    BY <1>1, <1>3, <1>4, <1>5 DEF DriverReads, Reads!CallStep, Reads!GetDriverSnapshot, Reads!GetDriverContent,
       Reads!GetPrevSnapshot, Reads!GetPrevContent, Reads!GetVolumeSnapshot,
       Reads!GetVolumeSnapshotContent, Reads!GetVolumeSnapshotClass,
       Reads!GetDefaultVolumeSnapshotClassForDriver, Reads!GetCredentials, NoDriver
  <2> QED
    BY <1>2, <1>3, <2>1 DEF ExpectedOutcome, NoDriver, NoArguments
<1>6. CASE read = "driverContent"
  <2>1. seen = vs["target"].uid /\ vs["target"].stage \in Reads!Bound /\ "target" \in Names
    BY <1>6, RequestAssumption DEF Known, Reads!ExactInv, Reads!QuietInv, Reads!QuietDriver
  <2>2. content[seen] \in {"new", "unknown", "ready"}
    BY <2>1 DEF Known, Reads!IInv, Reads!TypeOK, Reads!ClusterInv, Reads!ExactInv,
       Reads!ContentInv, Reads!Contents, Reads!Uids, Reads!Made
  <2> QED
    BY <1>1, <1>4, <1>6, <2>2 DEF Reads!CallStep, Reads!GetDriverSnapshot, Reads!GetDriverContent,
       Reads!GetPrevSnapshot, Reads!GetPrevContent, Reads!GetVolumeSnapshot,
       Reads!GetVolumeSnapshotContent, Reads!GetVolumeSnapshotClass,
       Reads!GetDefaultVolumeSnapshotClassForDriver, Reads!GetCredentials
<1>a. read \in BaseReads => delta /\ "base" \in Names
  BY DEF Known, Reads!IInv, Reads!CallInv, BaseReads
<1>7. CASE read = "base"
  <2>1. vs["base"].stage \notin Reads!Undenied
    BY <1>1, <1>4, <1>7 DEF BaseReads, Reads!CallStep, Reads!GetDriverSnapshot,
       Reads!GetDriverContent, Reads!GetPrevSnapshot, Reads!GetPrevContent,
       Reads!GetVolumeSnapshot, Reads!GetVolumeSnapshotContent, Reads!GetVolumeSnapshotClass,
       Reads!GetDefaultVolumeSnapshotClassForDriver, Reads!GetCredentials
  <2>2. NoBase
    BY <1>7, <1>a, <2>1 DEF BaseReads, NoBase, Lookup!BaseIsUsable
  <2> QED
    BY <1>2, <1>3, <1>7, <2>2 DEF ExpectedOutcome, BaseReads, NoDriver, NoToken, NoBase, NoArguments
<1>8. CASE read = "baseContent"
  <2>1. base = vs["base"].uid
    BY <1>8, <1>a DEF Known, Reads!ExactInv, Reads!QuietInv, Reads!QuietBase, BaseReads
  <2>2. content[base] \notin Reads!Undenied
    BY <1>1, <1>4, <1>8 DEF Reads!CallStep, Reads!GetDriverSnapshot, Reads!GetDriverContent,
       Reads!GetPrevSnapshot, Reads!GetPrevContent, Reads!GetVolumeSnapshot,
       Reads!GetVolumeSnapshotContent, Reads!GetVolumeSnapshotClass,
       Reads!GetDefaultVolumeSnapshotClassForDriver, Reads!GetCredentials
  <2>3. NoBase
    BY <1>8, <1>a, <2>1, <2>2 DEF BaseReads, NoBase, Lookup!BaseIsUsable
  <2> QED
    BY <1>2, <1>3, <1>8, <2>3 DEF ExpectedOutcome, BaseReads, NoDriver, NoToken, NoBase, NoArguments
<1> QED
  BY <1>5, <1>6, <1>7, <1>8 DEF DriverReads, BaseReads

\* What a call that is admitted has passed.
LEMMA AdmittedPassed ==
  ASSUME Known, quiet, calm, given # "token", Admitted, read \in TargetReads
  PROVE  /\ ~NoArguments /\ ~NoDriver /\ ~NoToken /\ ~NoBase
         /\ sms.ca = cert /\ cert # BadCA
         /\ aware /\ flag \in {None, sms.audience} /\ <<sa, namespace>> \in grants
<1>1. SetUp /\ cert # BadCA /\ pc # "idle"
  BY AuthAssumption DEF Known, IInv, TypeOK, QuietMeansExact, Admitted
<1>2. ~NoDriver /\ ~NoBase
  BY <1>1, Undisturbed DEF TargetReads, DriverReads
<1> QED
  BY <1>1, <1>2 DEF SetUp, NoArguments, NoToken

\* Where it is the sidecar's look at its own readiness.
LEMMA ReadinessObstacle ==
  ASSUME Known, quiet, calm, given # "token", isCSIDriverReady, checked' # "ready"
  PROVE  ExpectedOutcome = "Unavailable"
<1>1. Admitted /\ read = "target" /\ health # "ready"
  BY DEF Known, OrderInv, isCSIDriverReady, Admitted, TargetReads
<1> QED
  BY <1>1, AdmittedPassed DEF TargetReads, ExpectedOutcome, NoArguments, NoDriver, NoToken, NoBase

\* Where it is one of the sidecar's reads.
LEMMA TargetObstacle ==
  ASSUME Known, Reads!QuietMeansExact', quiet, calm, calm', given # "token", ReadStep,
         read \in TargetReads, read' = "done"
  PROVE  readCode' = ExpectedOutcome'
<1>1. Admitted /\ checked = "ready" /\ health = "ready" /\ UNCHANGED <<vars, health>>
  BY DEF Known, OrderInv, ReadStep, MayRead, TargetReads, DriverReads, BaseReads, readinessVars
<1>2. UNCHANGED <<delta, driverGiven, vs, content>> /\ Reads!CallStep
  BY SameCallStep, ReadMoves DEF Known, ReadStep, TargetReads
<1>3. ~NoDriver' /\ ~NoBase'
  BY <1>1, <1>2, AdmittedPassed DEF NoDriver, NoBase, Lookup!BaseIsUsable
<1>4. readCode' = Reads!ExpectedTarget(IF driverGiven THEN own ELSE origin[vs["target"].uid].driver)'
  <2>1. Reads!BaseIsUsable' <=> Lookup!BaseIsUsable'
    BY DEF Lookup!BaseIsUsable, Reads!BaseIsUsable
  <2> QED
    BY <1>3, <2>1 DEF Reads!QuietMeansExact, Reads!Expected, NoDriver, NoBase
<1>5. UNCHANGED <<given, self, sms, account, sa, cert, aware, flag, namespace, grants>>
  BY <1>1 DEF vars, clusterVars, callVars
<1>6. ExpectedOutcome' = Lookup!ExpectedTarget(IF driverGiven THEN own ELSE origin[vs["target"].uid].driver)'
  BY <1>1, <1>3, <1>5, AdmittedPassed DEF ExpectedOutcome, NoArguments, NoDriver, NoToken, NoBase
<1>7. Lookup!ExpectedTarget(IF driverGiven THEN own ELSE origin[vs["target"].uid].driver)'
        = Reads!ExpectedTarget(IF driverGiven THEN own ELSE origin[vs["target"].uid].driver)'
  BY DEF Lookup!ExpectedTarget, Lookup!RightClass, Lookup!Defaults,
         Reads!ExpectedTarget, Reads!RightClass, Reads!Defaults
<1> QED
  BY <1>4, <1>6, <1>7

LEMMA ObstacleStep ==
  ASSUME Known, Known', FirstObstacleDecides, [RequestNext]_requestVars
  PROVE  FirstObstacleDecides'
<1> SUFFICES ASSUME Over', given' # "token", quiet', calm', steady'
             PROVE  Outcome' = ExpectedOutcome'
  BY DEF FirstObstacleDecides
<1>0. /\ checked # "none" => Admitted
      /\ read = "done" => readCode # "none"
      /\ pc = "idle" => read = "idle"
      /\ Admitted /\ checked = "none" => read = "target"
      /\ quiet \in BOOLEAN /\ calm \in BOOLEAN /\ code' # "none" /\ pc # "done" => pc' = "done"
  BY DEF Known, OrderInv, Admitted, TargetReads, IInv, TypeOK, MomentInv, Reads!IInv, Reads!TypeOK
<1>1. CASE UNCHANGED requestVars
  <2>1. Outcome' = Outcome /\ UNCHANGED <<given, quiet, calm, steady>> /\ UNCHANGED ObstacleVars
    BY <1>1 DEF requestVars, vars, clusterVars, callVars, lookupVars, readinessVars, ObstacleVars,
       Outcome
  <2> QED
    BY <2>1, SameExpected DEF FirstObstacleDecides, Over
<1>2. ASSUME NEW g \in {"neither", "both", "name", "namespace"}, NEW s \in Accounts, BeginRequest(g, s)
      PROVE  Outcome' = ExpectedOutcome'
  <2>1. /\ read' # "done" /\ pc = "idle" /\ checked' = checked /\ given' = g
        /\ pc' = "done" => g \in {"name", "namespace"} /\ code' = "ErrInvalidArgs"
    BY <1>2 DEF BeginRequest, Begin, Lookup!Begin, Return, readinessVars
  <2>2. checked = "none"
    BY <1>0, <2>1 DEF Admitted
  <2> QED
    BY <2>1, <2>2 DEF Over, Outcome, ExpectedOutcome
<1>3. ASSUME NEW t, OtherRequest(t) PROVE FALSE
  BY <1>3 DEF OtherRequest, OtherClient
<1>4. CASE AuthStep
  <2>1. /\ CallStep /\ ~Over /\ UNCHANGED lookupVars /\ UNCHANGED readinessVars
    BY <1>4 DEF AuthStep
  <2>2. pc # "idle" /\ pc # "done" /\ read # "done" /\ checked = "none"
    BY <1>0, <2>1, AuthMoves DEF Known, Over, Outcome, Admitted
  <2>3. Outcome' = code' /\ pc' = "done" /\ code' # "OK"
    BY <2>1, <2>2 DEF Over, Outcome, lookupVars, readinessVars
  <2>4. quiet /\ UNCHANGED <<clusterVars, given, sa, namespace>>
    BY <1>0, <2>1, <2>3 DEF CallStep, getDefaultServiceAccount, getSnapshotMetadataServiceCR,
       createSecurityToken, getGRPCClient, Connect, Arrives, authenticateRequest,
       getAudienceForDriver, Authenticate, Authorize, RequestFails, Return,
       IteratorRequest, SidecarRequest
  <2>5. calm /\ UNCHANGED ObstacleVars
    BY <2>1, <2>4 DEF ObstacleVars, lookupVars, readinessVars
  <2>6. code' = ExpectedOutcome
    BY <1>4, <2>3, <2>4, <2>5, AuthObstacle DEF Known
  <2> QED
    BY <2>3, <2>5, <2>6, SameExpected
<1>5. CASE ReadStep
  <2>1. /\ Reads!CallStep /\ MayRead /\ ~Over /\ UNCHANGED vars /\ UNCHANGED readinessVars
    BY <1>5, SameCallStep DEF ReadStep
  <2>2. read' = "done" /\ Outcome' = readCode' /\ UNCHANGED <<pc, code, given, quiet>>
    BY <1>0, <2>1 DEF Over, Outcome, vars, callVars, readinessVars
  <2>3. read # "idle"
    BY <2>1 DEF MayRead, DriverReads, BaseReads, TargetReads
  <2>4. calm /\ own' = own
    BY <1>0, <2>1, <2>2, <2>3 DEF Reads!CallStep, Reads!Begin, Reads!GetDriverSnapshot,
       Reads!GetDriverContent, Reads!GetPrevSnapshot, Reads!GetPrevContent,
       Reads!GetVolumeSnapshot, Reads!GetVolumeSnapshotContent, Reads!GetVolumeSnapshotClass,
       Reads!GetDefaultVolumeSnapshotClassForDriver, Reads!GetSecretReference,
       Reads!GetCredentials, Reads!ReadFails, Reads!End, Reads!historyVars
  <2>5. UNCHANGED ObstacleVars
    BY <2>1, <2>3, <2>4, ReadMoves DEF Known, ObstacleVars, vars, callVars, readinessVars
  <2>6. CASE read \in TargetReads
    <3>1. Reads!QuietMeansExact'
      BY DEF Known, Reads!ExactInv, Reads!QuietInv
    <3> QED
      BY <1>5, <2>2, <2>4, <2>6, <3>1, TargetObstacle
  <2>7. CASE read \in DriverReads \cup BaseReads
    BY <1>5, <2>2, <2>4, <2>5, <2>7, ClientObstacle, SameExpected
  <2> QED
    BY <2>1, <2>6, <2>7 DEF MayRead
<1>6. CASE isCSIDriverReady
  <2>1. UNCHANGED vars /\ UNCHANGED lookupVars /\ health' = health /\ Admitted /\ read = "target"
    BY <1>0, <1>6 DEF isCSIDriverReady
  <2>2. UNCHANGED <<quiet, calm, given, pc, code, read>> /\ UNCHANGED ObstacleVars
    BY <2>1 DEF vars, callVars, lookupVars, ObstacleVars
  <2>3. Outcome' = "Unavailable" /\ checked' # "ready"
    BY <2>1, <2>2 DEF Over, Outcome, Admitted
  <2> QED
    BY <1>6, <2>2, <2>3, ReadinessObstacle, SameExpected
<1>7. CASE ChangesOfAccess \/ ChangesOfSnapshots \/ ChangesOfHealth
  <2>1. ~Over /\ Outcome' = Outcome
    BY <1>7 DEF ChangesOfAccess, Environment, Change, ChangesOfSnapshots, Lookup!Change,
       Lookup!callVars, ChangesOfHealth, vars, callVars, lookupVars, readinessVars, Outcome
  <2> QED
    BY <2>1 DEF Over
<1> QED
  BY <1>1, <1>2, <1>3, <1>4, <1>5, <1>6, <1>7 DEF RequestNext, RequestEnded

\* In a cluster that does not change during the call, all the requests and
\* reads of the iterator and the sidecar (iter.go:218-277, auth.go:34-84,
\* health.go:67-74, snapshot.go:47-184) give what one look at everything would:
\* the first obstacle, in the order of the code, decides.
THEOREM FirstObstacle == RequestSpec => []FirstObstacleDecides
<1>1. RequestInit => FirstObstacleDecides
  BY DEF RequestInit, Init, Lookup!Init, FirstObstacleDecides, Over, Outcome
<1>2. Known /\ Known' /\ FirstObstacleDecides /\ [RequestNext]_requestVars => FirstObstacleDecides'
  BY ObstacleStep
<1>3. RequestSpec => []Known
  BY HalvesKeep, OrderKept, PTL DEF Known
<1> QED
  BY <1>1, <1>2, <1>3, PTL DEF RequestSpec
=============================================================================
