--------------------------- MODULE CallAuth_proofs ---------------------------
(***************************************************************************)
(* Proofs about CallAuth: whatever changes while it is decided, a call     *)
(* that is admitted was entitled, a refusal is true, and an iterator that  *)
(* nothing disturbs is admitted if and only if all is set up for it.       *)
(***************************************************************************)
EXTENDS CallAuth, TLAPS

InSidecar == {"audience", "review", "access"}

\* What is so is among what was so since the sidecar got the call, and so is
\* what it has found.
MomentInv ==
  /\ pc \in InSidecar =>
       Audience \in wasAudience /\ Valid \in wasValid /\ Granted \in wasGranted
  /\ pc = "review" => audience \in wasAudience
  /\ pc = "access" =>
       /\ token # None /\ aware
       /\ token.audience \in wasAudience /\ TRUE \in wasValid
  /\ pc # "done" => code = "none"

\* Where an iterator is that nothing has disturbed, so far is it set up.
QuietInv ==
  quiet =>
    /\ ~expired
    /\ pc = "idle" => given = "none"
    /\ given # "token" =>
         /\ pc = "account" => given = "neither"
         /\ pc \in {"service", "token", "client", "connect"} \cup InSidecar =>
              given = "both" \/ (given = "neither" /\ self \in Accounts)
         /\ pc \in {"token", "client", "connect"} \cup InSidecar =>
              smsCR = sms /\ sms # None
         /\ pc \in {"client", "connect"} \cup InSidecar =>
              /\ account[sa] # 0 /\ token # None
              /\ token = [sa |-> sa, uid |-> account[sa], audience |-> sms.audience]
         /\ pc \in InSidecar => sms.ca = cert
         /\ pc \in {"review", "access"} => audience = Audience
         /\ pc = "access" => aware /\ audience = sms.audience

IInv ==
  /\ TypeOK
  /\ MomentInv /\ AdmittedWasEntitled /\ RefusalIsTrue
  /\ QuietInv /\ QuietMeansExact

----------------------------------------------------------------------------
(* Types.                                                                  *)

LEMMA InitTypeOK == Init => TypeOK
<1> SUFFICES ASSUME Init PROVE TypeOK
  OBVIOUS
<1>1. account \in [Accounts -> 0..MaxUid] /\ last \in 1..MaxUid
  BY AuthAssumption DEF Init
<1>2. grants \subseteq Accounts \X Namespaces
  BY DEF Init
<1>3. {expired, aware, quiet, wasFailing} \subseteq BOOLEAN
  BY Zenon DEF Init
<1> QED
  BY <1>1, <1>2, <1>3 DEF Init, TypeOK, Points, Codes

LEMMA EnvironmentType == ASSUME TypeOK, Environment PROVE TypeOK'
<1> USE AuthAssumption DEF TypeOK
<1>1. UNCHANGED <<pc, given, sa, smsCR, token, namespace, audience, code, aware, flag, self, wasFailing>>
  BY DEF Environment, Change, callVars
<1>2. sms' \in Services \cup {None}
  BY DEF Environment, ChangeService, DeleteAccount, CreateAccount, ChangeGrant,
         RotateCertificate, TokenExpires
<1>3. account' \in [Accounts -> 0..MaxUid] /\ last' \in 1..MaxUid
  <2>1. ASSUME NEW s \in Accounts, CreateAccount(s)
        PROVE  account' \in [Accounts -> 0..MaxUid] /\ last' \in 1..MaxUid
    <3>1. last + 1 \in 1..MaxUid
      BY <2>1 DEF CreateAccount
    <3> QED
      BY <2>1, <3>1 DEF CreateAccount
  <2>2. ASSUME NEW s \in Accounts, DeleteAccount(s)
        PROVE  account' \in [Accounts -> 0..MaxUid] /\ last' \in 1..MaxUid
    BY <2>2 DEF DeleteAccount
  <2> QED
    BY <2>1, <2>2 DEF Environment, ChangeService, ChangeGrant, RotateCertificate, TokenExpires
<1>4. grants' \subseteq Accounts \X Namespaces
  <2>1. ASSUME NEW s \in Accounts, NEW n \in Namespaces, ChangeGrant(s, n)
        PROVE  grants' \subseteq Accounts \X Namespaces
    BY <2>1 DEF ChangeGrant
  <2> QED
    BY <2>1 DEF Environment, ChangeService, DeleteAccount, CreateAccount,
                RotateCertificate, TokenExpires
<1>5. cert' \in CAs /\ expired' \in BOOLEAN
  BY DEF Environment, ChangeService, DeleteAccount, CreateAccount, ChangeGrant,
         RotateCertificate, TokenExpires
<1>6. quiet' \in BOOLEAN
  BY DEF Environment, Change
<1>7. /\ Audience' \in Audiences \cup {None}
      /\ Valid' \in BOOLEAN /\ Granted' \in BOOLEAN
  BY <1>1, <1>2 DEF Audience, Valid, Granted, Services
<1>8. wasAudience' \subseteq Audiences \cup {None} /\ wasValid' \subseteq BOOLEAN /\ wasGranted' \subseteq BOOLEAN
  <2>1. CASE pc \in {"audience", "review", "access"}
    BY <1>7, <2>1 DEF Environment, Change
  <2>2. CASE pc \notin {"audience", "review", "access"}
    BY <2>2 DEF Environment, Change
  <2> QED
    BY <2>1, <2>2
<1> QED
  BY <1>1, <1>2, <1>3, <1>4, <1>5, <1>6, <1>8

LEMMA CallType ==
  ASSUME TypeOK,
         \/ \E g \in {"neither", "both", "name", "namespace"}, s \in Accounts : Begin(g, s)
         \/ \E t \in {u \in Tokens : u.uid <= last} \cup {None} : OtherClient(t)
         \/ CallStep
  PROVE  TypeOK'
<1> USE AuthAssumption DEF TypeOK, Points, Codes
<1>0. /\ Audience \in Audiences \cup {None}
      /\ Valid \in BOOLEAN /\ Granted \in BOOLEAN
  BY DEF Audience, Valid, Granted, Services
<1>1. ASSUME NEW g \in {"neither", "both", "name", "namespace"}, NEW s \in Accounts, Begin(g, s)
      PROVE  TypeOK'
  <2>1. CASE g = "both"
    BY <1>1, <2>1 DEF Begin, Return, clusterVars, momentVars
  <2>2. CASE g = "neither"
    BY <1>1, <2>2 DEF Begin, Return, clusterVars, momentVars
  <2>3. CASE g \in {"name", "namespace"}
    BY <1>1, <2>3 DEF Begin, Return, clusterVars, momentVars
  <2> QED BY <2>1, <2>2, <2>3
<1>2. ASSUME NEW t \in Tokens \cup {None}, OtherClient(t)
      PROVE  TypeOK'
  <2>1. Valid' \in BOOLEAN /\ Granted' \in BOOLEAN
    BY <1>2 DEF OtherClient, Arrives, Valid, Granted
  <2> QED
    BY <1>0, <1>2, <2>1 DEF OtherClient, Arrives, clusterVars
<1>3. CASE getDefaultServiceAccount
  BY <1>3 DEF getDefaultServiceAccount, Return, IteratorRequest, clusterVars, momentVars
<1>4. CASE getSnapshotMetadataServiceCR
  BY <1>4 DEF getSnapshotMetadataServiceCR, Return, IteratorRequest, clusterVars, momentVars
<1>5. CASE createSecurityToken
  <2>1. account[sa] # 0 => [sa |-> sa, uid |-> account[sa], audience |-> smsCR.audience] \in Tokens
    BY <1>5 DEF createSecurityToken, Tokens, Services
  <2> QED
    BY <1>5, <2>1 DEF createSecurityToken, Return, IteratorRequest, clusterVars, momentVars
<1>6. CASE getGRPCClient
  BY <1>6 DEF getGRPCClient, Return, IteratorRequest, clusterVars, momentVars
<1>7. CASE Connect
  <2>1. Valid' \in BOOLEAN /\ Granted' \in BOOLEAN
    BY <1>7 DEF Connect, Valid, Granted
  <2> QED
    BY <1>0, <1>7, <2>1 DEF Connect, Arrives, Return, clusterVars, momentVars
<1>8. CASE getAudienceForDriver
  <2>1. sms # None => sms.audience \in Audiences
    BY DEF Services
  <2> QED
    BY <1>8, <2>1 DEF getAudienceForDriver, Return, SidecarRequest, clusterVars, momentVars
<1>9. CASE Authenticate
  BY <1>9 DEF Authenticate, Return, SidecarRequest, clusterVars, momentVars
<1>10. CASE Authorize
  BY <1>10 DEF Authorize, Return, SidecarRequest, clusterVars, momentVars
<1>11. CASE RequestFails
  BY <1>11 DEF RequestFails, Return, clusterVars
<1> QED
  BY <1>1, <1>2, <1>3, <1>4, <1>5, <1>6, <1>7, <1>8, <1>9, <1>10, <1>11 DEF CallStep, authenticateRequest

----------------------------------------------------------------------------
(* What the sidecar knows.                                                 *)

LEMMA MomentStep ==
  ASSUME IInv, Next
  PROVE  MomentInv' /\ AdmittedWasEntitled' /\ RefusalIsTrue'
<1> USE DEF InSidecar
<1>0. TypeOK /\ MomentInv /\ AdmittedWasEntitled /\ RefusalIsTrue
  BY DEF IInv
<1>1. ASSUME NEW g \in {"neither", "both", "name", "namespace"}, NEW s \in Accounts, Begin(g, s)
      PROVE  MomentInv' /\ AdmittedWasEntitled' /\ RefusalIsTrue'
  BY <1>0, <1>1 DEF Begin, Return, MomentInv, AdmittedWasEntitled, RefusalIsTrue
<1>2. ASSUME NEW t \in Tokens \cup {None}, OtherClient(t)
      PROVE  MomentInv' /\ AdmittedWasEntitled' /\ RefusalIsTrue'
  <2>1. Audience' = Audience
    BY <1>2 DEF OtherClient, clusterVars, Audience
  <2> QED
    BY <1>0, <1>2, <2>1 DEF OtherClient, Arrives, MomentInv, AdmittedWasEntitled, RefusalIsTrue
<1>3. CASE getDefaultServiceAccount \/ getSnapshotMetadataServiceCR
           \/ createSecurityToken \/ getGRPCClient
  BY <1>0, <1>3 DEF getDefaultServiceAccount, getSnapshotMetadataServiceCR,
       createSecurityToken, getGRPCClient, Return, MomentInv, AdmittedWasEntitled, RefusalIsTrue
<1>4. CASE Connect
  <2>1. Audience' = Audience
    BY <1>4 DEF Connect, clusterVars, Audience
  <2> QED
    BY <1>0, <1>4, <2>1 DEF Connect, Arrives, Return, MomentInv, AdmittedWasEntitled, RefusalIsTrue
<1>5. ASSUME UNCHANGED <<clusterVars, token, namespace, momentVars>>, pc \in InSidecar
      PROVE  /\ Audience' \in wasAudience' /\ Valid' \in wasValid' /\ Granted' \in wasGranted'
             /\ UNCHANGED <<wasAudience, wasValid, wasGranted, wasFailing, token, aware, flag>>
  BY <1>0, <1>5 DEF clusterVars, momentVars, Audience, Valid, Granted, MomentInv
<1>6. CASE getAudienceForDriver
  <2>1. UNCHANGED <<clusterVars, token, namespace, momentVars>> /\ pc = "audience"
    BY <1>6 DEF getAudienceForDriver, SidecarRequest
  <2>2. \/ audience' = Audience /\ pc' = "review" /\ UNCHANGED code
        \/ Return("Internal") /\ flag = None /\ Audience = None
    BY <1>6 DEF getAudienceForDriver, Audience
  <2> QED
    BY <1>0, <1>5, <2>1, <2>2 DEF Return, MomentInv, AdmittedWasEntitled, RefusalIsTrue
<1>7. CASE Authenticate
  <2>1. /\ UNCHANGED <<clusterVars, token, namespace, momentVars>>
        /\ pc = "review" /\ audience' = audience
    BY <1>7 DEF Authenticate, SidecarRequest
  <2>2. \/ pc' = "access" /\ UNCHANGED code /\ aware /\ Valid /\ token.audience = audience
        \/ Return("Unauthenticated") /\ (~aware \/ ~Valid \/ token.audience # audience)
    BY <1>7 DEF Authenticate, TokenReview
  <2>3. /\ Valid => token # None /\ TRUE \in wasValid
        /\ ~Valid => FALSE \in wasValid
    <3>1. Valid \in wasValid /\ Valid \in BOOLEAN /\ (Valid => token # None)
      BY <1>0, <2>1 DEF MomentInv, Valid
    <3> QED
      BY <3>1, Zenon
  <2>4. audience \in wasAudience /\ code = "none"
    BY <1>0, <2>1 DEF MomentInv
  <2>a. /\ Audience' \in wasAudience' /\ Valid' \in wasValid' /\ Granted' \in wasGranted'
        /\ UNCHANGED <<wasAudience, wasValid, wasGranted, wasFailing, token, aware, flag>>
    BY <1>5, <2>1
  <2>5. CASE pc' = "access" /\ UNCHANGED code /\ aware /\ Valid /\ token.audience = audience
    <3>1. MomentInv'
      BY <2>3, <2>4, <2>5, <2>a DEF MomentInv
    <3> QED
      BY <2>4, <2>5, <3>1 DEF AdmittedWasEntitled, RefusalIsTrue
  <2>6. CASE Return("Unauthenticated") /\ (~aware \/ ~Valid \/ token.audience # audience)
    <3>1. ~aware \/ FALSE \in wasValid \/ token.audience # audience
      BY <2>3, <2>6
    <3>2. MomentInv' /\ AdmittedWasEntitled'
      BY <2>6 DEF Return, MomentInv, AdmittedWasEntitled
    <3>3. RefusalIsTrue'
      BY <2>4, <2>6, <2>a, <3>1 DEF Return, RefusalIsTrue
    <3> QED
      BY <3>2, <3>3
  <2> QED
    BY <2>2, <2>5, <2>6
<1>8. CASE Authorize
  <2>1. UNCHANGED <<clusterVars, token, namespace, momentVars>> /\ pc = "access"
    BY <1>8 DEF Authorize, SidecarRequest
  <2>2. (Granted /\ Return("OK")) \/ (~Granted /\ Return("PermissionDenied"))
    BY <1>8 DEF Authorize
  <2>3. (Granted => TRUE \in wasGranted) /\ (~Granted => FALSE \in wasGranted)
    <3>1. Granted \in wasGranted /\ Granted \in BOOLEAN
      BY <1>0, <2>1 DEF MomentInv, Granted
    <3> QED
      BY <3>1, Zenon
  <2>4. UNCHANGED <<wasAudience, wasValid, wasGranted, wasFailing, token, aware, flag>>
    BY <1>5, <2>1
  <2>5. token # None /\ aware /\ token.audience \in wasAudience /\ TRUE \in wasValid
    BY <1>0, <2>1 DEF MomentInv
  <2> QED
    BY <2>2, <2>3, <2>4, <2>5 DEF Return, MomentInv, AdmittedWasEntitled, RefusalIsTrue
<1>9. CASE RequestFails
  BY <1>0, <1>9 DEF RequestFails, Return, MomentInv, AdmittedWasEntitled, RefusalIsTrue
<1>10. CASE Environment
  <2>1. UNCHANGED <<pc, token, audience, code, aware, flag, wasFailing>> /\ pc # "done"
    BY <1>10 DEF Environment, Change, callVars
  <2>2. CASE pc \in InSidecar
    <3>1. /\ wasAudience' = wasAudience \cup {Audience'}
          /\ wasValid' = wasValid \cup {Valid'}
          /\ wasGranted' = wasGranted \cup {Granted'}
      BY <1>10, <2>2 DEF Environment, Change
    <3> QED
      BY <1>0, <2>1, <2>2, <3>1 DEF MomentInv, AdmittedWasEntitled, RefusalIsTrue
  <2>3. CASE pc \notin InSidecar
    BY <1>0, <2>1, <2>3 DEF MomentInv, AdmittedWasEntitled, RefusalIsTrue
  <2> QED
    BY <2>2, <2>3
<1>11. CASE Ended
  <2>1. UNCHANGED <<pc, token, aware, flag, code, momentVars>> /\ pc = "done"
    BY <1>11 DEF Ended, vars, clusterVars, callVars
  <2> QED
    BY <1>0, <2>1 DEF momentVars, MomentInv, AdmittedWasEntitled, RefusalIsTrue
<1> QED
  BY <1>1, <1>2, <1>3, <1>4, <1>6, <1>7, <1>8, <1>9, <1>10, <1>11 DEF Next, CallStep, authenticateRequest

----------------------------------------------------------------------------
(* The undisturbed call.                                                   *)

LEMMA QuietStep ==
  ASSUME IInv, Next
  PROVE  QuietInv' /\ QuietMeansExact'
<1> USE DEF InSidecar
<1>0. TypeOK /\ MomentInv /\ QuietInv /\ QuietMeansExact
  BY DEF IInv
<1>a. quiet' => quiet
  BY <1>0 DEF TypeOK, Next, Begin, OtherClient, CallStep, authenticateRequest,
       getDefaultServiceAccount,
       getSnapshotMetadataServiceCR, createSecurityToken, getGRPCClient, Connect,
       getAudienceForDriver, Authenticate, Authorize, RequestFails, Ended, Environment, Change,
       IteratorRequest, SidecarRequest, vars
<1> SUFFICES ASSUME quiet', quiet PROVE QuietInv' /\ QuietMeansExact'
  BY <1>a DEF QuietInv, QuietMeansExact
<1>1. ASSUME NEW g \in {"neither", "both", "name", "namespace"}, NEW s \in Accounts, Begin(g, s)
      PROVE  QuietInv' /\ QuietMeansExact'
  BY <1>0, <1>1 DEF Begin, Return, MomentInv, QuietInv, QuietMeansExact, SetUp, clusterVars
<1>2. ASSUME NEW t \in Tokens \cup {None}, OtherClient(t)
      PROVE  QuietInv' /\ QuietMeansExact'
  BY <1>0, <1>2 DEF OtherClient, Arrives, QuietInv, QuietMeansExact, clusterVars
<1>3. CASE getDefaultServiceAccount
  BY <1>0, <1>3 DEF getDefaultServiceAccount, Return, IteratorRequest,
       QuietInv, QuietMeansExact, SetUp, clusterVars
<1>4. CASE getSnapshotMetadataServiceCR
  BY <1>0, <1>4 DEF getSnapshotMetadataServiceCR, Return, IteratorRequest,
       QuietInv, QuietMeansExact, SetUp, clusterVars
<1>5. CASE createSecurityToken
  <2>1. account[sa] # 0 => [sa |-> sa, uid |-> account[sa], audience |-> smsCR.audience] # None
    BY <1>0, <1>5, AuthAssumption DEF createSecurityToken, TypeOK, Tokens, Services
  <2> QED
    BY <1>0, <1>5, <2>1 DEF createSecurityToken, Return, IteratorRequest,
         QuietInv, QuietMeansExact, SetUp, clusterVars
<1>6. CASE getGRPCClient
  BY <1>0, <1>6, AuthAssumption DEF getGRPCClient, Return, IteratorRequest, TypeOK,
       QuietInv, QuietMeansExact, SetUp, clusterVars
<1>7. CASE Connect
  BY <1>0, <1>7 DEF Connect, Arrives, Return,
       QuietInv, QuietMeansExact, SetUp, clusterVars
<1>8. CASE getAudienceForDriver
  BY <1>0, <1>8 DEF getAudienceForDriver, Return, SidecarRequest, Audience,
       QuietInv, QuietMeansExact, SetUp, clusterVars
<1>b. ASSUME pc \in {"review", "access"}, given # "token"
      PROVE  /\ ~expired /\ (given = "both" \/ (given = "neither" /\ self \in Accounts))
             /\ smsCR = sms /\ sms # None /\ account[sa] # 0
             /\ token.sa = sa /\ token.uid = account[sa] /\ token.audience = sms.audience
             /\ token # None /\ sms.ca = cert
             /\ audience = Audience /\ (flag = None \/ audience = flag)
             /\ flag = None => audience = sms.audience
             /\ pc = "access" => aware /\ audience = sms.audience
  <2>1. /\ ~expired /\ (given = "both" \/ (given = "neither" /\ self \in Accounts))
        /\ smsCR = sms /\ sms # None /\ account[sa] # 0
        /\ token = [sa |-> sa, uid |-> account[sa], audience |-> sms.audience]
        /\ sms.ca = cert /\ audience = Audience
        /\ pc = "access" => aware /\ audience = sms.audience
    BY <1>0, <1>b DEF QuietInv
  <2>2. token.sa = sa /\ token.uid = account[sa] /\ token.audience = sms.audience
    BY <2>1
  <2>3. (flag = None \/ audience = flag) /\ (flag = None => audience = sms.audience)
    BY <2>1 DEF Audience
  <2>4. token # None
    BY <1>0, <1>b DEF QuietInv
  <2> QED
    BY <2>1, <2>2, <2>3, <2>4
<1>9. CASE Authenticate
  <2>1. /\ UNCHANGED <<clusterVars, given, sa, smsCR, token, namespace, audience>> /\ pc = "review"
        /\ \/ pc' = "access" /\ UNCHANGED code /\ aware /\ Valid /\ token.audience = audience
           \/ pc' = "done" /\ code' = "Unauthenticated" /\ (~aware \/ ~Valid \/ token.audience # audience)
    BY <1>9 DEF Authenticate, TokenReview, Return, SidecarRequest
  <2>2. CASE given = "token"
    BY <1>0, <2>1, <2>2 DEF QuietInv, QuietMeansExact, clusterVars
  <2>3. CASE given # "token" /\ pc' = "access"
    BY <1>0, <1>b, <2>1, <2>3 DEF QuietInv, QuietMeansExact, Audience, clusterVars
  <2>4. CASE given # "token" /\ pc' = "done"
    <3>1. Valid
      BY <1>b, <2>1, <2>4 DEF Valid
    <3>2. ~aware \/ flag \notin {None, sms.audience}
      BY <1>b, <2>1, <2>4, <3>1
    <3>3. ~SetUp'
      BY <2>1, <3>2 DEF SetUp, clusterVars
    <3> QED
      BY <1>0, <2>1, <2>4, <3>3 DEF QuietInv, QuietMeansExact, clusterVars
  <2> QED
    BY <2>1, <2>2, <2>3, <2>4
<1>10. CASE Authorize
  <2>1. /\ UNCHANGED <<clusterVars, given, sa, smsCR, token, namespace, audience>> /\ pc = "access"
        /\ pc' = "done" /\ (code' = "OK" <=> Granted)
    BY <1>10 DEF Authorize, Return, SidecarRequest
  <2>2. CASE given = "token"
    BY <1>0, <2>1, <2>2 DEF QuietInv, QuietMeansExact, clusterVars
  <2>3. CASE given # "token"
    <3>1. Granted <=> <<sa, namespace>> \in grants
      BY <1>b, <2>1, <2>3 DEF Granted
    <3>2. Granted <=> SetUp'
      BY <1>b, <2>1, <2>3, <3>1 DEF SetUp, clusterVars
    <3> QED
      BY <1>0, <2>1, <2>3, <3>2 DEF QuietInv, QuietMeansExact, clusterVars
  <2> QED
    BY <2>2, <2>3
<1>11. CASE RequestFails \/ Environment
  BY <1>11 DEF RequestFails, Environment, Change
<1>12. CASE Ended
  BY <1>0, <1>12 DEF Ended, vars, clusterVars, callVars, Audience,
       QuietInv, QuietMeansExact, SetUp
<1> QED
  BY <1>1, <1>2, <1>3, <1>4, <1>5, <1>6, <1>7, <1>8, <1>9, <1>10, <1>11, <1>12 DEF Next, CallStep, authenticateRequest

----------------------------------------------------------------------------
(* Theorems.                                                               *)

\* The invariant of the call is inductive: what the sidecar has found was so
\* while it was at the call (auth.go:34-84), and how far an undisturbed
\* iterator is set up (iter.go:218-250).
THEOREM AuthInvariant == Spec => []IInv
<1>1. Init => IInv
  BY InitTypeOK DEF Init, IInv, MomentInv, InSidecar, AdmittedWasEntitled, RefusalIsTrue,
                    QuietInv, QuietMeansExact
<1>2. IInv /\ [Next]_vars => IInv'
  <2> SUFFICES ASSUME IInv, [Next]_vars PROVE IInv'
    OBVIOUS
  <2>1. CASE Next
    <3>1. TypeOK'
      <4>1. CASE Environment
        BY <4>1, EnvironmentType DEF IInv
      <4>2. CASE Ended
        BY <4>2 DEF IInv, TypeOK, Ended, vars, clusterVars, callVars, momentVars
      <4> QED
        BY <2>1, <4>1, <4>2, CallType DEF IInv, Next
    <3> QED
      BY <2>1, <3>1, MomentStep, QuietStep DEF IInv
  <2>2. CASE UNCHANGED vars
    <3>1. UNCHANGED <<clusterVars, callVars, quiet, momentVars>>
      BY <2>2 DEF vars
    <3>a. TypeOK'
      BY <3>1 DEF IInv, TypeOK, clusterVars, callVars, momentVars
    <3>b. MomentInv'
      BY <3>1 DEF IInv, MomentInv, InSidecar, Audience, Valid, Granted,
                  clusterVars, callVars, momentVars
    <3>2. AdmittedWasEntitled' /\ RefusalIsTrue'
      BY <3>1 DEF IInv, AdmittedWasEntitled, RefusalIsTrue, clusterVars, callVars, momentVars
    <3>3. QuietInv' /\ QuietMeansExact'
      BY <3>1 DEF IInv, QuietInv, QuietMeansExact, SetUp, InSidecar, Audience,
                  clusterVars, callVars
    <3> QED
      BY <3>a, <3>b, <3>2, <3>3 DEF IInv
  <2> QED
    BY <2>1, <2>2
<1> QED
  BY <1>1, <1>2, PTL DEF Spec

\* Every variable of the call keeps its type.
THEOREM TypeCorrect == Spec => []TypeOK
BY AuthInvariant, PTL DEF IInv

\* A call that authenticateAndAuthorize admits (auth.go:34-57) was entitled.
THEOREM AdmittedEntitled == Spec => []AdmittedWasEntitled
BY AuthInvariant, PTL DEF IInv

\* The code that it returns for another (auth.go:38, 42, 49, 53) is true.
THEOREM RefusalTrue == Spec => []RefusalIsTrue
BY AuthInvariant, PTL DEF IInv

\* An iterator that nothing disturbs is admitted if and only if its account,
\* the object, the certificate, the audience and the role are set up.
THEOREM QuietExact == Spec => []QuietMeansExact
BY AuthInvariant, PTL DEF IInv
=============================================================================
