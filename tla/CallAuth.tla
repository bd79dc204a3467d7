------------------------------ MODULE CallAuth ------------------------------
(***************************************************************************)
(* How a call is admitted.  The iterator settles on a service account,     *)
(* reads the driver's SnapshotMetadataService object, asks for a token     *)
(* with the audience that the object names, and connects to a sidecar that *)
(* the object's CA vouches for.  The sidecar finds the audience again, has *)
(* the token reviewed for it, and asks whether the token's user may get    *)
(* VolumeSnapshots in the namespace of the request.  Each is a request of  *)
(* its own to the Kubernetes API, and between any two of them objects,     *)
(* accounts, roles and certificates change and the token may expire.       *)
(*                                                                         *)
(* Other clients send the sidecar whatever token they have.                *)
(***************************************************************************)
EXTENDS Naturals

CONSTANTS
  Accounts,    \* service accounts
  Audiences, CAs, Namespaces,
  MaxUid,      \* bound: incarnations of service accounts
  None,        \* no object, no flag, no token
  Human,       \* a user that is not a service account
  BadCA        \* bytes that hold no certificate

Services == [audience : Audiences, ca : CAs \cup {BadCA}]
Tokens == [sa : Accounts, uid : 1..MaxUid, audience : Audiences]

ASSUME AuthAssumption ==
  /\ MaxUid \in Nat \ {0}
  /\ None \notin Audiences /\ None \notin Tokens
  /\ Human \notin Accounts /\ BadCA \notin CAs

VARIABLES
  \* The cluster.
  sms,         \* the SnapshotMetadataService object of the driver
  account,     \* account[s]: the UID of a service account, 0 if there is none
  last,        \* the last UID given
  grants,      \* who may get VolumeSnapshots, where
  cert,        \* the CA that signed the certificate the sidecar presents
  expired,     \* the token of the call has expired
  aware,       \* does the reviewer of tokens look at audiences?
  flag,        \* the sidecar's flag --audience, or None
  self,        \* who runs the iterator
  \* The call.
  pc,          \* the next request
  given,       \* which of SAName and SANamespace were given to the iterator
  sa,          \* the service account of the iterator
  smsCR,       \* what the iterator read
  token,
  namespace,   \* of the request
  audience,    \* what the sidecar found
  code,        \* the outcome; "OK": admitted
  \* History, from the beginning of the call.
  quiet,       \* nothing has changed and nothing has failed
  \* History, since the sidecar got the call.
  wasAudience, \* the audiences that were right
  wasValid,    \* whether the token was valid
  wasGranted,  \* whether its user was allowed
  wasFailing   \* a request has failed

clusterVars == <<sms, account, last, grants, cert, expired, aware, flag, self>>
callVars    == <<pc, given, sa, smsCR, token, namespace, audience, code>>
momentVars  == <<wasAudience, wasValid, wasGranted, wasFailing>>
vars == <<clusterVars, callVars, quiet, momentVars>>

\* Any cluster that a call may find.
Init ==
  /\ sms \in Services \cup {None}
  /\ account \in [Accounts -> {0, 1}] /\ last = 1
  /\ grants \in SUBSET (Accounts \X Namespaces)
  /\ cert \in CAs /\ expired = FALSE
  /\ aware \in BOOLEAN /\ flag \in Audiences \cup {None}
  /\ self \in Accounts \cup {Human}
  /\ pc = "idle" /\ given = "none" /\ sa = None /\ smsCR = None
  /\ token = None /\ namespace \in Namespaces /\ audience = None /\ code = "none"
  /\ quiet = TRUE
  /\ wasAudience = {} /\ wasValid = {} /\ wasGranted = {} /\ wasFailing = FALSE

----------------------------------------------------------------------------
(* What is so at an instant.                                               *)

Audience ==
  IF flag # None THEN flag ELSE IF sms = None THEN None ELSE sms.audience

\* A token is bound to the incarnation of its service account.
Valid == token # None /\ ~expired /\ account[token.sa] = token.uid

Granted == token # None /\ <<token.sa, namespace>> \in grants

\* The answer to a TokenReview.  A reviewer that does not know of audiences
\* leaves them out of its answer.
TokenReview ==
  IF aware
    THEN [authenticated |-> Valid /\ token.audience = audience, audiences |-> {audience}]
    ELSE [authenticated |-> Valid, audiences |-> {}]

----------------------------------------------------------------------------
(* The cluster.  It is of no interest before the call nor after it.        *)

Change ==
  /\ pc \notin {"idle", "done"}
  /\ UNCHANGED <<callVars, aware, flag, self, wasFailing>>
  /\ quiet' = FALSE
  /\ IF pc \in {"audience", "review", "access"}
       THEN /\ wasAudience' = wasAudience \cup {Audience'}
            /\ wasValid' = wasValid \cup {Valid'}
            /\ wasGranted' = wasGranted \cup {Granted'}
       ELSE UNCHANGED <<wasAudience, wasValid, wasGranted>>

ChangeService(v) ==
  /\ sms' = v
  /\ UNCHANGED <<account, last, grants, cert, expired>>

DeleteAccount(s) ==
  /\ account' = [account EXCEPT ![s] = 0]
  /\ UNCHANGED <<sms, last, grants, cert, expired>>

CreateAccount(s) ==
  /\ account[s] = 0 /\ last < MaxUid
  /\ account' = [account EXCEPT ![s] = last + 1] /\ last' = last + 1
  /\ UNCHANGED <<sms, grants, cert, expired>>

ChangeGrant(s, n) ==
  /\ grants' = IF <<s, n>> \in grants THEN grants \ {<<s, n>>} ELSE grants \cup {<<s, n>>}
  /\ UNCHANGED <<sms, account, last, cert, expired>>

RotateCertificate(c) ==
  /\ cert' = c
  /\ UNCHANGED <<sms, account, last, grants, expired>>

TokenExpires ==
  /\ token # None /\ expired' = TRUE
  /\ UNCHANGED <<sms, account, last, grants, cert>>

Environment ==
  /\ \/ \E v \in Services \cup {None} : ChangeService(v)
     \/ \E s \in Accounts : DeleteAccount(s) \/ CreateAccount(s)
     \/ \E s \in Accounts, n \in Namespaces : ChangeGrant(s, n)
     \/ \E c \in CAs : RotateCertificate(c)
     \/ TokenExpires
  /\ Change

----------------------------------------------------------------------------
(* The iterator.                                                           *)

Return(c) == pc' = "done" /\ code' = c

IteratorRequest ==
  UNCHANGED <<clusterVars, given, namespace, audience, quiet, momentVars>>

\* Validate, and the service account if it was given.
Begin(g, s) ==
  /\ pc = "idle" /\ given' = g
  /\ CASE g \in {"name", "namespace"} -> Return("ErrInvalidArgs") /\ UNCHANGED sa
       [] g = "both"    -> pc' = "service" /\ sa' = s /\ UNCHANGED code
       [] g = "neither" -> pc' = "account" /\ UNCHANGED <<sa, code>>
  /\ UNCHANGED <<clusterVars, smsCR, token, namespace, audience, quiet, momentVars>>

getDefaultServiceAccount ==
  /\ pc = "account"
  /\ IF self \in Accounts
       THEN pc' = "service" /\ sa' = self /\ UNCHANGED code
       ELSE Return("ErrInvalidArgs") /\ UNCHANGED sa
  /\ IteratorRequest /\ UNCHANGED <<smsCR, token>>

getSnapshotMetadataServiceCR ==
  /\ pc = "service"
  /\ IF sms = None
       THEN Return("Error") /\ UNCHANGED smsCR
       ELSE pc' = "token" /\ smsCR' = sms /\ UNCHANGED code
  /\ IteratorRequest /\ UNCHANGED <<sa, token>>

createSecurityToken ==
  /\ pc = "token"
  /\ IF account[sa] = 0
       THEN Return("Error") /\ UNCHANGED token
       ELSE /\ pc' = "client" /\ UNCHANGED code
            /\ token' = [sa |-> sa, uid |-> account[sa], audience |-> smsCR.audience]
  /\ IteratorRequest /\ UNCHANGED <<sa, smsCR>>

getGRPCClient ==
  /\ pc = "client"
  /\ IF smsCR.ca = BadCA THEN Return("ErrCACert") ELSE pc' = "connect" /\ UNCHANGED code
  /\ IteratorRequest /\ UNCHANGED <<sa, smsCR, token>>

----------------------------------------------------------------------------
(* The sidecar.                                                            *)

\* The sidecar gets a call with the token t.
Arrives(t) ==
  /\ pc' = "audience" /\ token' = t
  /\ wasAudience' = {Audience} /\ wasValid' = {Valid'} /\ wasGranted' = {Granted'}
  /\ UNCHANGED <<code, wasFailing>>

\* The first use of the gRPC client makes the connection.
Connect ==
  /\ pc = "connect"
  /\ UNCHANGED <<clusterVars, given, sa, smsCR, namespace, audience, quiet>>
  /\ IF cert = smsCR.ca THEN Arrives(token)
                        ELSE Return("Unavailable") /\ UNCHANGED <<token, momentVars>>

\* A client of its own making; None: no token of this cluster.
OtherClient(t) ==
  /\ pc = "idle" /\ given' = "token"
  /\ UNCHANGED <<clusterVars, sa, smsCR, namespace, audience, quiet>>
  /\ Arrives(t)

SidecarRequest ==
  UNCHANGED <<clusterVars, given, sa, smsCR, token, namespace, quiet, momentVars>>

\* (Mutant: the object is looked at first.)
getAudienceFromObject ==
  /\ pc = "audience"
  /\ IF sms = None
       THEN Return("Internal") /\ UNCHANGED audience
       ELSE audience' = sms.audience /\ pc' = "review" /\ UNCHANGED code
  /\ SidecarRequest

getAudienceForDriver ==
  /\ pc = "audience"
  /\ CASE flag # None -> audience' = flag /\ pc' = "review" /\ UNCHANGED code
       [] flag = None /\ sms = None -> Return("Internal") /\ UNCHANGED audience
       [] OTHER -> audience' = sms.audience /\ pc' = "review" /\ UNCHANGED code
  /\ SidecarRequest

\* (Mutant: the audiences of the answer are only looked at if there are any.)
AuthenticateUnaware ==
  /\ pc = "review"
  /\ LET r == TokenReview IN
     IF r.authenticated /\ (r.audiences = {} \/ audience \in r.audiences)
       THEN pc' = "access" /\ UNCHANGED code
       ELSE Return("Unauthenticated")
  /\ SidecarRequest /\ UNCHANGED audience

Authenticate ==
  /\ pc = "review"
  /\ LET r == TokenReview IN
     IF r.authenticated /\ r.audiences # {} /\ audience \in r.audiences
       THEN pc' = "access" /\ UNCHANGED code
       ELSE Return("Unauthenticated")
  /\ SidecarRequest /\ UNCHANGED audience

Authorize ==
  /\ pc = "access"
  /\ IF Granted THEN Return("OK") ELSE Return("PermissionDenied")
  /\ SidecarRequest /\ UNCHANGED audience

\* A request to the Kubernetes API fails, or grpc.NewClient does not take the
\* address.  (Mutant: as if the token were bad.)
RequestFailsAsUnauthenticated ==
  /\ \/ pc \in {"account", "service", "token"} /\ Return("Error") /\ UNCHANGED wasFailing
     \/ pc = "client" /\ smsCR.ca # BadCA /\ Return("Error") /\ UNCHANGED wasFailing
     \/ pc = "audience" /\ flag = None /\ Return("Internal") /\ wasFailing' = TRUE
     \/ pc \in {"review", "access"} /\ Return("Unauthenticated") /\ wasFailing' = TRUE
  /\ quiet' = FALSE
  /\ UNCHANGED <<clusterVars, given, sa, smsCR, token, namespace, audience,
                 wasAudience, wasValid, wasGranted>>

RequestFails ==
  /\ \/ pc \in {"account", "service", "token"} /\ Return("Error") /\ UNCHANGED wasFailing
     \/ pc = "client" /\ smsCR.ca # BadCA /\ Return("Error") /\ UNCHANGED wasFailing
     \/ pc = "audience" /\ flag = None /\ Return("Internal") /\ wasFailing' = TRUE
     \/ pc \in {"review", "access"} /\ Return("Internal") /\ wasFailing' = TRUE
  /\ quiet' = FALSE
  /\ UNCHANGED <<clusterVars, given, sa, smsCR, token, namespace, audience,
                 wasAudience, wasValid, wasGranted>>

authenticateRequest == getAudienceForDriver \/ Authenticate

CallStep ==
  \/ getDefaultServiceAccount \/ getSnapshotMetadataServiceCR
  \/ createSecurityToken \/ getGRPCClient \/ Connect
  \/ authenticateRequest \/ Authorize \/ RequestFails

Ended == pc = "done" /\ UNCHANGED vars

Next ==
  \/ \E g \in {"neither", "both", "name", "namespace"}, s \in Accounts : Begin(g, s)
  \/ \E t \in {u \in Tokens : u.uid <= last} \cup {None} : OtherClient(t)
  \/ CallStep \/ Environment \/ Ended

Spec == Init /\ [][Next]_vars

----------------------------------------------------------------------------
(* Properties.                                                             *)

Points == {"idle", "account", "service", "token", "client", "connect",
           "audience", "review", "access", "done"}
Codes == {"none", "OK", "Error", "ErrInvalidArgs", "ErrCACert", "Unavailable",
          "Internal", "Unauthenticated", "PermissionDenied"}

\* Type invariant; and where an iterator is, it has what it needs there.
TypeOK ==
  /\ sms \in Services \cup {None}
  /\ account \in [Accounts -> 0..MaxUid] /\ last \in 1..MaxUid
  /\ grants \subseteq Accounts \X Namespaces
  /\ cert \in CAs /\ {expired, aware, quiet, wasFailing} \subseteq BOOLEAN
  /\ flag \in Audiences \cup {None} /\ self \in Accounts \cup {Human}
  /\ pc \in Points /\ code \in Codes
  /\ given \in {"none", "neither", "both", "name", "namespace", "token"}
  /\ pc \in {"service", "token", "client", "connect"} => sa \in Accounts
  /\ pc \in {"token", "client", "connect"} => smsCR \in Services
  /\ pc \in {"client", "connect"} => token \in Tokens
  /\ token \in Tokens \cup {None}
  /\ namespace \in Namespaces /\ audience \in Audiences \cup {None}
  /\ pc \in {"review", "access"} => audience \in Audiences
  /\ wasAudience \subseteq Audiences \cup {None}
  /\ wasValid \subseteq BOOLEAN /\ wasGranted \subseteq BOOLEAN

\* A call that is admitted was entitled: while the sidecar was at it the token
\* was valid, its audience was the right one, and its user was allowed to get
\* VolumeSnapshots in the namespace of the request, each at an instant, and
\* the reviewer had looked at the audience.
AdmittedWasEntitled ==
  code = "OK" =>
    /\ token # None /\ aware
    /\ token.audience \in wasAudience
    /\ TRUE \in wasValid /\ TRUE \in wasGranted

\* The code of a refusal is true: the sidecar says Unauthenticated only of a
\* token that at an instant was not valid or not for the right audience,
\* PermissionDenied only of a user who at an instant was not allowed, and
\* Internal only of a failure or a missing object.
RefusalIsTrue ==
  /\ code = "Unauthenticated" =>
       \/ ~aware \/ FALSE \in wasValid
       \/ \E a \in wasAudience : token = None \/ a # token.audience
  /\ code = "PermissionDenied" => FALSE \in wasGranted /\ TRUE \in wasValid
  /\ code = "Internal" => wasFailing \/ (flag = None /\ None \in wasAudience)

\* An iterator that nothing disturbs is admitted if and only if everything is
\* set up for it.
SetUp ==
  /\ given = "both" \/ (given = "neither" /\ self \in Accounts)
  /\ account[sa] # 0 /\ <<sa, namespace>> \in grants
  /\ sms # None /\ sms.ca = cert
  /\ aware /\ flag \in {None, sms.audience}
QuietMeansExact ==
  pc = "done" /\ quiet /\ given # "token" => (code = "OK" <=> SetUp)
=============================================================================
