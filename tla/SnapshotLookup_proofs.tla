----------------------- MODULE SnapshotLookup_proofs -----------------------
(***************************************************************************)
(* Proofs about SnapshotLookup, for any drivers, classes, secrets and      *)
(* number of incarnations.                                                 *)
(***************************************************************************)
EXTENDS SnapshotLookup, TLAPS

USE DEF Stages, Contents, Bound, Undenied

----------------------------------------------------------------------------
(* The inductive invariant.                                                *)

Made == 1..last

\* A VolumeSnapshot is an incarnation of its name, and its content is ready
\* before it is.
ClusterInv ==
  \A n \in Names :
    /\ vs[n].stage # "absent" =>
         /\ vs[n].uid \in Made
         /\ origin[vs[n].uid].name = n /\ origin[vs[n].uid].driver \in Drivers
    /\ vs[n].stage = "ready" => content[vs[n].uid] = "ready"

\* What the reads made so far have shown.
DriverKnown == pc \in {"base", "baseContent", "target", "content", "class", "secret"}
BaseKnown   == pc \in {"baseContent", "target", "content", "class", "secret"} \/ code = "OK"
BaseRead    == pc \in {"target", "content", "class", "secret"} \/ code = "OK"
TargetKnown == pc \in {"content", "class", "secret"} \/ code = "OK"
OwnerKnown  == pc \in {"class", "secret"} \/ code = "OK"
ClassKnown  == pc = "secret" \/ code = "OK"

CallInv ==
  /\ pc # "done" => code = "none"
  /\ pc = "driverContent" => seen \in Made
  /\ DriverKnown /\ ~given => seen \in Made /\ own = origin[seen].driver
  /\ BaseKnown /\ delta => base \in wasOpen /\ origin[base].name = "base"
  /\ BaseRead /\ delta => base \in wasUsable
  /\ pc \in {"base", "baseContent"} => delta
  /\ delta => "base" \in Names
  /\ TargetKnown => found \in wasReady /\ origin[found].name = "target"
  /\ OwnerKnown => origin[found].driver = own
  /\ ClassKnown => chosen \in wasRight
  /\ RefusalHasCause

\* The history holds what is so now, as far as the call will rely on it.
HistoryInv ==
  /\ wasReady \subseteq Made /\ wasOpen \subseteq Made
  /\ wasUsable \subseteq wasOpen
  /\ pc \notin {"idle", "done"} =>
       /\ Ready \subseteq wasReady /\ Open \subseteq wasOpen
       /\ wasOpen \cap Usable \subseteq wasUsable
  /\ pc = "idle" => wasUsable = {}
  /\ pc \in {"content", "class", "secret"} => Right(found) \subseteq wasRight

IInv == TypeOK /\ ClusterInv /\ CallInv /\ HistoryInv

LEMMA InitIInv == Init => IInv
<1> SUFFICES ASSUME Init PROVE IInv
  OBVIOUS
<1>1. TypeOK
  <2>1. vs \in [Names -> [uid : 0..MaxUid, stage : Stages]]
    BY LookupAssumption DEF Init, Absent
  <2>2. origin \in [Uids -> [name : Names, driver : Drivers \cup {None},
                             class : Classes \cup {None}]]
    BY LookupAssumption DEF Init, Unmade
  <2>3. /\ content \in [Uids -> Contents]
        /\ class \in [Classes -> {"absent", "plain", "default"}]
        /\ 0 \in 0..MaxUid
    BY LookupAssumption DEF Init
  <2> QED BY <2>1, <2>2, <2>3 DEF Init, TypeOK
<1>2. ClusterInv
  BY DEF Init, ClusterInv, Absent
<1>3. CallInv /\ HistoryInv
  BY DEF Init, CallInv, HistoryInv, DriverKnown, BaseKnown, BaseRead, TargetKnown,
     OwnerKnown, ClassKnown, RefusalHasCause
<1> QED
  BY <1>1, <1>2, <1>3 DEF IInv

----------------------------------------------------------------------------
(* Steps of the cluster.                                                   *)

LEMMA TypeChange == TypeOK /\ Change =>
  /\ wasReady' \subseteq Uids /\ wasOpen' \subseteq Uids /\ wasUsable' \subseteq Uids
  /\ wasRight' \subseteq Classes /\ quiet' \in BOOLEAN
  /\ UNCHANGED callVars
BY DEF TypeOK, Change, Ready, Open, Usable, Right, callVars

\* A cluster step keeps the cluster's invariant and every incarnation made.
LEMMA ClusterKeeps ==
  ASSUME TypeOK, ClusterInv, ClusterStep, Change
  PROVE  /\ TypeOK' /\ ClusterInv'
         /\ Made \subseteq Made'
         /\ \A u \in Made : origin'[u] = origin[u]
<1> USE LookupAssumption DEF Uids, Made
<1>1. /\ wasReady' \subseteq Uids /\ wasOpen' \subseteq Uids /\ wasUsable' \subseteq Uids
      /\ wasRight' \subseteq Classes /\ quiet' \in BOOLEAN
      /\ UNCHANGED callVars
  BY TypeChange
<1>2. ASSUME NEW n \in Names, NEW from, NEW to \in {"error", "bound", "unknown", "ready"},
             Stage(n, from, to), "absent" \notin from,
             to = "ready" => content[vs[n].uid] = "ready"
      PROVE  TypeOK' /\ ClusterInv' /\ UNCHANGED <<last, origin>>
  <2>1. TypeOK'
    BY <1>1, <1>2 DEF TypeOK, Stage, callVars
  <2>2. /\ vs[n].stage # "absent" /\ vs'[n].uid = vs[n].uid /\ vs'[n].stage = to
        /\ \A m \in Names \ {n} : vs'[m] = vs[m]
    BY <1>2 DEF TypeOK, Stage
  <2> QED BY <1>2, <2>1, <2>2 DEF ClusterInv, Stage
<1>3. ASSUME NEW n \in Names, NEW d \in Drivers, NEW k \in Classes \cup {None},
             CreateSnapshot(n, d, k)
      PROVE  TypeOK' /\ ClusterInv' /\ last' = last + 1
             /\ \A u \in 1..last : origin'[u] = origin[u]
  <2>1. last + 1 \in 1..MaxUid /\ last' = last + 1 /\ last \in Nat
    BY <1>3 DEF TypeOK, CreateSnapshot
  <2>2. /\ vs'[n] = [uid |-> last + 1, stage |-> "new"]
        /\ \A m \in Names \ {n} : vs'[m] = vs[m]
        /\ origin'[last + 1] = [name |-> n, driver |-> d, class |-> k]
        /\ \A u \in 1..last : origin'[u] = origin[u]
    BY <1>3, <2>1 DEF TypeOK, CreateSnapshot
  <2>3. vs' \in [Names -> [uid : 0..MaxUid, stage : Stages]]
    BY <1>3, <2>1 DEF TypeOK, CreateSnapshot
  <2>4. origin' \in [Uids -> [name : Names, driver : Drivers \cup {None},
                              class : Classes \cup {None}]]
    BY <1>3, <2>1 DEF TypeOK, CreateSnapshot
  <2>5. TypeOK'
    BY <1>1, <1>3, <2>1, <2>3, <2>4 DEF TypeOK, CreateSnapshot, callVars
  <2> QED BY <1>3, <2>1, <2>2, <2>5 DEF ClusterInv, CreateSnapshot
<1>4. ASSUME NEW n \in Names, DeleteSnapshot(n)
      PROVE  TypeOK' /\ ClusterInv' /\ UNCHANGED <<last, origin>>
  <2>1. vs'[n] = Absent /\ \A m \in Names \ {n} : vs'[m] = vs[m]
    BY <1>4 DEF TypeOK, DeleteSnapshot
  <2>2. TypeOK'
    BY <1>1, <1>4 DEF TypeOK, DeleteSnapshot, Absent, callVars
  <2>3. vs'[n].stage = "absent" /\ UNCHANGED <<content, origin, last>>
    BY <1>4, <2>1 DEF DeleteSnapshot, Absent
  <2>4. ClusterInv'
    BY <2>1, <2>3 DEF ClusterInv
  <2> QED BY <2>2, <2>3, <2>4
<1>5. ASSUME NEW u \in 0..MaxUid, NEW to \in {"new", "unknown", "ready", "deleted"},
             content' = [content EXCEPT ![u] = to],
             UNCHANGED <<vs, origin, last, class, secrets>>,
             to # "ready" => \A n \in Names : vs[n].stage = "ready" => vs[n].uid # u
      PROVE  TypeOK' /\ ClusterInv'
  <2>1. TypeOK'
    <3>1. content' \in [Uids -> Contents]
      BY <1>5 DEF TypeOK
    <3> QED BY <1>1, <1>5, <3>1 DEF TypeOK, callVars
  <2>2. ASSUME NEW m \in Names, vs[m].stage = "ready" PROVE content'[vs[m].uid] = "ready"
    BY <1>5, <2>2 DEF TypeOK, ClusterInv
  <2> QED BY <1>5, <2>1, <2>2 DEF TypeOK, ClusterInv
<1>6. ASSUME NEW n \in Names, CreateContent(n)
      PROVE  TypeOK' /\ ClusterInv' /\ UNCHANGED <<last, origin>>
  <2>1. vs[n].uid \in 0..MaxUid
    BY DEF TypeOK
  <2>2. \A m \in Names : vs[m].stage = "ready" => vs[m].uid # vs[n].uid
    BY <1>6 DEF CreateContent, ClusterInv
  <2> QED BY <1>5, <1>6, <2>1, <2>2 DEF CreateContent
<1>7. ASSUME NEW u \in Uids,
             (\E to \in {"new", "unknown", "ready"} : TakeSnapshot(u, to)) \/ DeleteContent(u)
      PROVE  TypeOK' /\ ClusterInv' /\ UNCHANGED <<last, origin>>
  <2>1. u \in 0..MaxUid
    OBVIOUS
  <2>2. ASSUME NEW to \in {"new", "unknown", "ready"}, TakeSnapshot(u, to)
        PROVE  TypeOK' /\ ClusterInv' /\ UNCHANGED <<last, origin>>
    <3>1. \A n \in Names : vs[n].stage = "ready" => vs[n].uid # u
      BY <2>2 DEF TakeSnapshot, ClusterInv
    <3> QED BY <1>5, <2>1, <2>2, <3>1 DEF TakeSnapshot
  <2>3. CASE DeleteContent(u)
    BY <1>5, <2>1, <2>3 DEF DeleteContent
  <2> QED BY <1>7, <2>2, <2>3
<1>8. ASSUME NEW k \in Classes, NEW to \in {"absent", "plain", "default"},
             ChangeClass(k, to)
      PROVE  TypeOK' /\ ClusterInv' /\ UNCHANGED <<last, origin>>
  BY <1>1, <1>8 DEF TypeOK, ClusterInv, ChangeClass, callVars
<1>9. ASSUME NEW s \in Secrets, ChangeSecret(s)
      PROVE  TypeOK' /\ ClusterInv' /\ UNCHANGED <<last, origin>>
  BY <1>1, <1>9 DEF TypeOK, ClusterInv, ChangeSecret, callVars
<1>10. ASSUME NEW n \in Names,
              \/ ReportError(n) \/ ReportUnready(n) \/ ReportReady(n)
              \/ \E to \in {"bound", "unknown"} : Bind(n, to)
       PROVE  TypeOK' /\ ClusterInv' /\ UNCHANGED <<last, origin>>
  <2>1. CASE ReportError(n)
    BY <1>2, <2>1 DEF ReportError
  <2>2. CASE ReportUnready(n)
    BY <1>2, <2>2 DEF ReportUnready
  <2>3. CASE ReportReady(n)
    BY <1>2, <2>3 DEF ReportReady
  <2>4. CASE \E to \in {"bound", "unknown"} : Bind(n, to)
    BY <1>2, <2>4 DEF Bind
  <2> QED BY <1>10, <2>1, <2>2, <2>3, <2>4
<1>11. last \in Nat
  BY DEF TypeOK
<1> QED
  BY <1>3, <1>4, <1>6, <1>7, <1>8, <1>9, <1>10, <1>11 DEF ClusterStep

LEMMA ReadyIsMade == TypeOK /\ ClusterInv => Ready \subseteq Made /\ Open \subseteq Made
BY DEF TypeOK, ClusterInv, Ready, Open, Made

LEMMA ClusterPreserves == IInv /\ ClusterStep /\ Change => IInv'
<1> SUFFICES ASSUME IInv, ClusterStep, Change PROVE IInv'
  OBVIOUS
<1> USE DEF IInv
<1>1. /\ TypeOK' /\ ClusterInv' /\ Made \subseteq Made'
      /\ \A u \in Made : origin'[u] = origin[u]
  BY ClusterKeeps
<1>2. UNCHANGED callVars
  BY DEF Change
<1>3. Ready' \subseteq Made' /\ Open' \subseteq Made'
  BY <1>1 DEF TypeOK, ClusterInv, Ready, Open, Made
<1>4. pc # "idle" => /\ wasReady \subseteq wasReady' /\ Ready' \subseteq wasReady'
                     /\ wasOpen \subseteq wasOpen' /\ Open' \subseteq wasOpen'
                     /\ wasUsable \subseteq wasUsable'
                     /\ wasOpen' \cap Usable' \subseteq wasUsable'
                     /\ wasUsable' \subseteq wasOpen'
  BY DEF Change, HistoryInv
<1>5. pc = "idle" => wasReady' = {} /\ wasOpen' = {} /\ wasUsable' = {} /\ code = "none"
  BY DEF Change, CallInv, HistoryInv
<1>6. found # 0 => wasRight \subseteq wasRight' /\ Right(found)' \subseteq wasRight'
  BY DEF Change
<1>7. TargetKnown => found # 0
  BY DEF CallInv, HistoryInv, Made
<1>8. HistoryInv'
  <2>1. wasReady' \subseteq Made' /\ wasOpen' \subseteq Made'
    BY <1>1, <1>3 DEF Change, HistoryInv
  <2> QED BY <1>2, <1>4, <1>5, <1>6, <1>7, <2>1 DEF HistoryInv, TargetKnown, callVars, Right
<1>9. CallInv'
  <2>1. wasReady \subseteq Made /\ wasOpen \subseteq Made
    BY DEF HistoryInv
  <2> QED
    BY <1>1, <1>2, <1>4, <1>5, <1>6, <1>7, <2>1 DEF CallInv, callVars, DriverKnown,
       BaseKnown, BaseRead, TargetKnown, OwnerKnown, ClassKnown, RefusalHasCause
<1> QED
  BY <1>1, <1>8, <1>9

----------------------------------------------------------------------------
(* Steps of the call.                                                      *)

LEMMA ClusterUnchanged ==
  ASSUME ClusterInv, UNCHANGED clusterVars
  PROVE  ClusterInv' /\ Made' = Made /\ Ready' = Ready /\ Open' = Open /\ Usable' = Usable
BY DEF ClusterInv, clusterVars, Made, Ready, Open, Usable

\* The end of a call that does not lead to a request.
LEMMA Refusal ==
  ASSUME IInv, UNCHANGED clusterVars, UNCHANGED <<wasReady, wasOpen, wasUsable, wasRight>>,
         UNCHANGED <<delta, given, own, seen, base, found>>,
         chosen' \in Classes \cup {None},
         pc' = "done", quiet' \in BOOLEAN,
         code' \in {"ClientError", "Unavailable", "InvalidArgument", "Panic"},
         code' = "InvalidArgument" => given \/ found # seen
  PROVE  IInv'
<1>1. ClusterInv' /\ Made' = Made /\ Ready' = Ready /\ Open' = Open /\ Usable' = Usable
  BY ClusterUnchanged DEF IInv
<1>2. TypeOK'
  BY DEF IInv, TypeOK, clusterVars
<1>3. HistoryInv' /\ CallInv'
  BY <1>1 DEF IInv, HistoryInv, CallInv, DriverKnown, BaseKnown, BaseRead, TargetKnown,
     OwnerKnown, ClassKnown, RefusalHasCause
<1> QED BY <1>1, <1>2, <1>3 DEF IInv

LEMMA CallPreserves == IInv /\ CallStep => IInv'
<1> SUFFICES ASSUME IInv, CallStep PROVE IInv'
  OBVIOUS
<1> USE DEF IInv
<1>1. UNCHANGED clusterVars
  BY DEF CallStep, Begin, GetDriverSnapshot, GetDriverContent, GetPrevSnapshot,
     GetPrevContent, GetVolumeSnapshot, GetVolumeSnapshotContent,
     GetVolumeSnapshotClass, GetDefaultVolumeSnapshotClassForDriver,
     GetSecretReference, GetCredentials, ReadFails, End
<1>2. ClusterInv' /\ Made' = Made /\ Ready' = Ready /\ Open' = Open /\ Usable' = Usable
  BY <1>1, ClusterUnchanged
<1>3. \A u : Right(u)' = Right(u)
  BY <1>1 DEF Right, RightClass, Defaults, clusterVars
<1>4. Made \subseteq 0..MaxUid /\ Made \subseteq Uids
  BY LookupAssumption DEF TypeOK, Made, Uids
<1>5. \A n \in Names : vs[n].stage # "absent" =>
        vs[n].uid \in Made /\ origin[vs[n].uid].name = n
  BY DEF ClusterInv
<1>6. "target" \in Names
  BY LookupAssumption
<1>7. ASSUME NEW c \in {"ClientError", "Unavailable", "InvalidArgument", "Panic"},
             End(c), found' = found, chosen' \in Classes \cup {None},
             c = "InvalidArgument" => given \/ found # seen
      PROVE  IInv'
  BY <1>7, Refusal DEF End, historyVars, TypeOK
<1>8. chosen \in Classes \cup {None} /\ quiet \in BOOLEAN
  BY DEF TypeOK
<1> USE DEF DriverKnown, BaseKnown, BaseRead, TargetKnown, OwnerKnown, ClassKnown, RefusalHasCause
<1>10. CASE Begin
  <2>3. wasReady' \subseteq Uids /\ wasOpen' \subseteq Uids /\ wasUsable' \subseteq Uids
    BY <1>4, <1>10, ReadyIsMade DEF Begin
  <2>4. delta' \in BOOLEAN /\ given' \in BOOLEAN /\ own' \in Drivers \cup {None}
        /\ pc' \in {"base", "target", "driver"}
    BY <1>10 DEF Begin
  <2>1. TypeOK'
    BY <1>1, <1>10, <2>3, <2>4 DEF TypeOK, Begin, clusterVars
  <2>2. CallInv' /\ HistoryInv'
    BY <1>2, <1>10, ReadyIsMade DEF CallInv, HistoryInv, Begin
  <2> QED BY <1>2, <2>1, <2>2
<1>11. CASE GetDriverSnapshot
  <2>1. CASE vs["target"].stage \in Bound
    <3>1. seen' \in Made
      BY <1>5, <1>6, <1>11, <2>1 DEF GetDriverSnapshot
    <3>2. TypeOK'
      BY <1>1, <1>4, <1>11, <2>1, <3>1 DEF TypeOK, GetDriverSnapshot, clusterVars, historyVars
    <3>3. CallInv' /\ HistoryInv'
      BY <1>2, <1>11, <2>1, <3>1 DEF CallInv, HistoryInv, GetDriverSnapshot, historyVars
    <3> QED BY <1>2, <3>2, <3>3
  <2> QED BY <1>7, <1>8, <1>11, <2>1 DEF GetDriverSnapshot
<1>12. CASE GetDriverContent
  <2>1. CASE content[seen] \in {"new", "unknown", "ready"}
    <3>1. seen \in Made /\ own' = origin[seen].driver
      BY <1>12, <2>1 DEF GetDriverContent, CallInv
    <3>2. own' \in Drivers \cup {None}
      BY <1>4, <3>1 DEF TypeOK
    <3>3. TypeOK'
      BY <1>1, <1>12, <2>1, <3>2 DEF TypeOK, GetDriverContent, clusterVars, historyVars
    <3>4. CallInv' /\ HistoryInv'
      BY <1>1, <1>2, <1>12, <2>1, <3>1 DEF CallInv, HistoryInv, GetDriverContent,
         historyVars, clusterVars
    <3> QED BY <1>2, <3>3, <3>4
  <2> QED BY <1>7, <1>8, <1>12, <2>1 DEF GetDriverContent
<1>13. CASE GetPrevSnapshot
  <2>1. CASE vs["base"].stage \in Undenied
    <3>1. "base" \in Names /\ base' = vs["base"].uid
      BY <1>13, <2>1 DEF GetPrevSnapshot, CallInv
    <3>2. base' \in Made /\ origin[base'].name = "base"
      BY <1>5, <2>1, <3>1
    <3>3. base' \in Open
      BY <1>4, <2>1, <3>1, <3>2 DEF Open
    <3>4. base' \in wasOpen
      BY <1>13, <3>3 DEF HistoryInv, GetPrevSnapshot
    <3>5. TypeOK'
      BY <1>1, <1>4, <1>13, <2>1, <3>2 DEF TypeOK, GetPrevSnapshot, clusterVars, historyVars
    <3>6. CallInv' /\ HistoryInv'
      BY <1>1, <1>2, <1>13, <2>1, <3>2, <3>4 DEF CallInv, HistoryInv, GetPrevSnapshot,
         historyVars, clusterVars
    <3> QED BY <1>2, <3>5, <3>6
  <2> QED BY <1>7, <1>8, <1>13, <2>1 DEF GetPrevSnapshot
<1>14. CASE GetPrevContent
  <2>1. CASE content[base] \in Undenied
    <3>3. base \in wasOpen /\ base \in Usable
      BY <1>4, <1>14, <2>1 DEF GetPrevContent, CallInv, HistoryInv, Usable
    <3>4. base \in wasUsable
      BY <1>14, <3>3 DEF GetPrevContent, HistoryInv
    <3>1. TypeOK'
      BY <1>1, <1>14, <2>1 DEF TypeOK, GetPrevContent, clusterVars, historyVars
    <3>2. CallInv' /\ HistoryInv'
      BY <1>1, <1>2, <1>14, <2>1, <3>4 DEF CallInv, HistoryInv, GetPrevContent, historyVars,
         clusterVars
    <3> QED BY <1>2, <3>1, <3>2
  <2> QED BY <1>7, <1>8, <1>14, <2>1 DEF GetPrevContent
<1>15. CASE GetVolumeSnapshot
  <2>1. CASE vs["target"].stage = "ready"
    <3>1. found' = vs["target"].uid /\ pc = "target" /\ pc' = "content"
          /\ wasRight' = Right(found')
          /\ UNCHANGED <<delta, given, own, seen, base, chosen, code, clusterVars,
                         quiet, wasReady, wasOpen, wasUsable>>
      BY <1>15, <2>1 DEF GetVolumeSnapshot
    <3>2. found' \in Made /\ origin[found'].name = "target"
      BY <1>5, <1>6, <2>1, <3>1
    <3>3. found' \in Ready
      BY <1>4, <1>6, <2>1, <3>1, <3>2 DEF Ready, ClusterInv, TypeOK
    <3>4. found' \in wasReady
      BY <3>1, <3>3 DEF HistoryInv
    <3>5. TypeOK'
      BY <1>4, <3>1, <3>2 DEF TypeOK, clusterVars, Right
    <3>6. Right(found)' \subseteq wasRight'
      BY <3>1 DEF Right, RightClass, Defaults, clusterVars
    <3>7. CallInv'
      BY <1>2, <3>1, <3>2, <3>4 DEF CallInv, clusterVars
    <3>8. HistoryInv'
      BY <1>2, <3>1, <3>6 DEF HistoryInv
    <3> QED BY <1>2, <3>5, <3>7, <3>8
  <2>2. CASE vs["target"].stage # "ready"
    <3>1. \E c \in {"Panic", "Unavailable"} : End(c) /\ UNCHANGED <<found, chosen>>
      BY <1>15, <2>2 DEF GetVolumeSnapshot
    <3> QED BY <1>7, <1>8, <3>1
  <2> QED BY <2>1, <2>2
<1>16. CASE GetVolumeSnapshotContent
  <2>1. CASE content[found] = "ready" /\ origin[found].driver = own
    <3>1. /\ pc = "content" /\ pc' = "class"
          /\ UNCHANGED <<delta, given, own, seen, base, found, chosen, code,
                         clusterVars, historyVars>>
      BY <1>16, <2>1 DEF GetVolumeSnapshotContent
    <3>2. TypeOK'
      BY <3>1 DEF TypeOK, clusterVars, historyVars
    <3>3. CallInv' /\ HistoryInv'
      BY <1>2, <1>3, <2>1, <3>1 DEF CallInv, HistoryInv, clusterVars, historyVars
    <3> QED BY <1>2, <3>2, <3>3
  <2>2. CASE ~(content[found] = "ready" /\ origin[found].driver = own)
    <3>1. \E c \in {"InvalidArgument", "Unavailable"} :
            /\ End(c) /\ UNCHANGED <<found, chosen>>
            /\ c = "InvalidArgument" => origin[found].driver # own
      BY <1>16, <2>2 DEF GetVolumeSnapshotContent
    <3>2. origin[found].driver # own => given \/ found # seen
      BY <1>16 DEF GetVolumeSnapshotContent, CallInv
    <3> QED BY <1>7, <1>8, <3>1, <3>2
  <2> QED BY <2>1, <2>2
<1>17. ASSUME NEW k \in Classes, pc = "class", GetSecretReference(k), RightClass(found, k)
       PROVE  IInv'
  <2>1. k \in wasRight
    BY <1>17 DEF HistoryInv, Right
  <2>2. CASE ClassSecret[k] = Invalid
    <3>1. End("Unavailable") /\ chosen' = k /\ found' = found
      BY <1>17, <2>2, LookupAssumption DEF GetSecretReference
    <3> QED BY <1>7, <3>1
  <2>3. CASE ClassSecret[k] # Invalid
    <3>1. /\ chosen' = k
          /\ UNCHANGED <<delta, given, own, seen, base, found, clusterVars, historyVars>>
          /\ \/ pc' = "done" /\ code' = "OK"
             \/ pc' = "secret" /\ code' = code
      BY <1>17, <2>3 DEF GetSecretReference, End
    <3>2. TypeOK'
      BY <3>1 DEF TypeOK, clusterVars, historyVars
    <3>3. CallInv' /\ HistoryInv'
      BY <1>2, <1>3, <1>17, <2>1, <3>1 DEF CallInv, HistoryInv, clusterVars, historyVars
    <3> QED BY <1>2, <3>2, <3>3
  <2> QED BY <2>2, <2>3
<1>18. CASE GetVolumeSnapshotClass
  <2>1. found \in Uids
    BY <1>4, <1>18 DEF GetVolumeSnapshotClass, CallInv, HistoryInv
  <2>2. origin[found].class \in Classes \cup {None}
    BY <2>1 DEF TypeOK
  <2>3. CASE End("Unavailable") /\ UNCHANGED <<found, chosen>>
    BY <1>7, <1>8, <2>3
  <2>4. CASE ~(End("Unavailable") /\ UNCHANGED <<found, chosen>>)
    BY <1>17, <1>18, <2>2, <2>4 DEF GetVolumeSnapshotClass, RightClass
  <2> QED BY <2>3, <2>4
<1>19. CASE GetDefaultVolumeSnapshotClassForDriver
  <2>1. CASE End("Unavailable") /\ UNCHANGED <<found, chosen>>
    BY <1>7, <1>8, <2>1
  <2>2. CASE \E k \in Defaults(origin[found].driver) :
               Defaults(origin[found].driver) = {k} /\ GetSecretReference(k)
    BY <1>17, <1>19, <2>2
    DEF GetDefaultVolumeSnapshotClassForDriver, RightClass, Defaults
  <2> QED BY <1>19, <2>1, <2>2 DEF GetDefaultVolumeSnapshotClassForDriver
<1>20. CASE GetCredentials
  <2>1. CASE ClassSecret[chosen] \in secrets
    <3>1. /\ pc = "secret" /\ pc' = "done" /\ code' = "OK"
          /\ UNCHANGED <<delta, given, own, seen, base, found, chosen, clusterVars,
                         historyVars>>
      BY <1>20, <2>1 DEF GetCredentials, End
    <3>2. TypeOK'
      BY <3>1 DEF TypeOK, clusterVars, historyVars
    <3>3. CallInv' /\ HistoryInv'
      BY <1>2, <3>1 DEF CallInv, HistoryInv, clusterVars, historyVars
    <3> QED BY <1>2, <3>2, <3>3
  <2> QED BY <1>7, <1>8, <1>20, <2>1 DEF GetCredentials
<1>21. CASE ReadFails
  BY <1>1, <1>8, <1>21, Refusal DEF ReadFails
<1> QED
  BY <1>10, <1>11, <1>12, <1>13, <1>14, <1>15, <1>16, <1>18, <1>19, <1>20, <1>21
  DEF CallStep

\* Whatever users, administrators and the snapshot controller change between two
\* reads of a call, each read keeps what the earlier ones have established.
THEOREM LookupInvariant == Spec => []IInv
<1>1. ASSUME IInv, [Next]_vars PROVE IInv'
  <2>1. CASE UNCHANGED vars
    <3>1. UNCHANGED clusterVars /\ UNCHANGED callVars /\ UNCHANGED historyVars
      BY <2>1 DEF vars
    <3>2. \A u : Right(u)' = Right(u)
      BY <3>1 DEF Right, RightClass, Defaults, clusterVars
    <3> QED
      BY <1>1, <3>1, <3>2, ClusterUnchanged DEF IInv, TypeOK, CallInv, HistoryInv,
         clusterVars, callVars, historyVars, DriverKnown, BaseKnown, BaseRead, TargetKnown,
         OwnerKnown, ClassKnown, RefusalHasCause
  <2> QED
    BY <1>1, <2>1, ClusterPreserves, CallPreserves DEF Next, Ended
<1> QED
  BY <1>1, InitIInv, PTL DEF Spec

\* The variables keep their types: a call that ends has a code, for one.
THEOREM TypeCorrect == Spec => []TypeOK
BY LookupInvariant, PTL DEF IInv

\* However the cluster changes between the reads, a request that is sent to the
\* driver was true of it at instants of the call: its target was ready to use; its
\* base was bound, and neither its VolumeSnapshot nor its content, when it had the
\* handle that is sent, denied being ready, which is all that getPrevSnapshotID
\* (iter.go) establishes; and class and driver were the target's.
THEOREM RequestIsTrue == Spec => []RequestWasTrue
<1>1. IInv => RequestWasTrue
  BY DEF IInv, CallInv, RequestWasTrue, BaseKnown, BaseRead, TargetKnown, OwnerKnown, ClassKnown, RefusalHasCause
<1> QED
  BY <1>1, LookupInvariant, PTL

\* The sidecar takes a snapshot for another driver's only if the caller named the
\* driver, or the snapshot was made again after the iterator had looked at it.
THEOREM RefusalCaused == Spec => []RefusalHasCause
BY LookupInvariant, PTL DEF IInv, CallInv

----------------------------------------------------------------------------
(* A call in a cluster that is left alone.                                 *)

\* A content is made after its VolumeSnapshot, and is not deleted before it.
ContentInv ==
  /\ \A u \in Uids : u > last => content[u] = "none"
  /\ \A n \in Names :
       /\ vs[n].stage # "absent" => content[vs[n].uid] # "deleted"
       /\ vs[n].stage \in Bound => content[vs[n].uid] # "none"

\* What an undisturbed call has found at each read is still what is there.
QuietDriver ==
  /\ pc \in {"driver", "driverContent"} => ~given
  /\ pc = "driverContent" \/ (DriverKnown /\ ~given) =>
       vs["target"].stage \in Bound
  /\ pc = "driverContent" => seen = vs["target"].uid
  /\ DriverKnown /\ ~given => own = origin[vs["target"].uid].driver
QuietBase ==
  /\ pc = "baseContent" => base = vs["base"].uid
  /\ pc = "baseContent" => vs["base"].stage \in Undenied
  /\ pc \in {"target", "content", "class", "secret"} /\ delta => BaseIsUsable
QuietTarget ==
  /\ pc \in {"content", "class", "secret"} =>
       vs["target"].stage = "ready" /\ found = vs["target"].uid
  /\ pc \in {"class", "secret"} => origin[found].driver = own
  /\ pc = "secret" => RightClass(found, chosen) /\ ClassSecret[chosen] \notin {None, Invalid}

QuietInv ==
  /\ pc # "idle" /\ quiet => QuietDriver /\ QuietBase /\ QuietTarget
  /\ QuietMeansExact

ExactInv == ContentInv /\ QuietInv

LEMMA InitExact == Init => ExactInv
BY LookupAssumption DEF Init, Absent, ExactInv, ContentInv, QuietInv, QuietMeansExact

LEMMA ContentChanges == IInv /\ ContentInv /\ ClusterStep /\ Change => ContentInv'
<1> SUFFICES ASSUME IInv, ContentInv, ClusterStep, Change PROVE ContentInv'
  OBVIOUS
<1> USE LookupAssumption DEF IInv, Uids, Made
<1>1. ASSUME NEW n \in Names, NEW from, NEW to \in {"error", "bound", "unknown", "ready"},
             Stage(n, from, to), "absent" \notin from,
             to # "error" => content[vs[n].uid] # "none"
      PROVE  ContentInv'
  <2>1. /\ vs[n].stage # "absent" /\ vs'[n].uid = vs[n].uid /\ vs'[n].stage = to
        /\ \A m \in Names \ {n} : vs'[m] = vs[m]
    BY <1>1 DEF TypeOK, Stage
  <2> QED BY <1>1, <2>1 DEF ContentInv, Stage
<1>2. ASSUME NEW n \in Names,
             \/ ReportError(n) \/ ReportUnready(n) \/ ReportReady(n)
             \/ \E to \in {"bound", "unknown"} : Bind(n, to)
      PROVE  ContentInv'
  <2>1. vs[n].stage = "unknown" => content[vs[n].uid] # "none"
    BY DEF ContentInv
  <2>2. CASE \E to \in {"bound", "unknown"} : Bind(n, to)
    BY <1>1, <2>2 DEF Bind
  <2>3. CASE ReportError(n) \/ ReportUnready(n) \/ ReportReady(n)
    BY <1>1, <2>1, <2>3 DEF ReportError, ReportUnready, ReportReady, Stage
  <2> QED BY <1>2, <2>2, <2>3
<1>3. ASSUME NEW n \in Names, NEW d \in Drivers, NEW k \in Classes \cup {None},
             CreateSnapshot(n, d, k)
      PROVE  ContentInv'
  <2>1. last + 1 \in 1..MaxUid /\ last' = last + 1 /\ last \in Nat /\ content' = content
    BY <1>3 DEF TypeOK, CreateSnapshot
  <2>2. /\ vs'[n].uid = last + 1 /\ vs'[n].stage = "new"
        /\ \A m \in Names \ {n} : vs'[m] = vs[m]
    BY <1>3, <2>1 DEF TypeOK, CreateSnapshot
  <2>3. content[last + 1] = "none"
    BY <2>1 DEF ContentInv
  <2> QED BY <2>1, <2>2, <2>3 DEF ContentInv
<1>4. ASSUME NEW n \in Names, DeleteSnapshot(n)
      PROVE  ContentInv'
  <2>1. vs'[n].stage = "absent" /\ \A m \in Names \ {n} : vs'[m] = vs[m]
    BY <1>4 DEF TypeOK, DeleteSnapshot, Absent
  <2> QED BY <1>4, <2>1 DEF ContentInv, DeleteSnapshot
<1>5. ASSUME NEW u \in 1..last, NEW to \in {"new", "unknown", "ready", "deleted"},
             content' = [content EXCEPT ![u] = to], UNCHANGED <<vs, last>>,
             to = "deleted" => \A n \in Names : vs[n].uid # u
      PROVE  ContentInv'
  <2>1. u \in 1..MaxUid /\ content'[u] = to /\ \A w \in (1..MaxUid) \ {u} : content'[w] = content[w]
    BY <1>5 DEF TypeOK
  <2>2. \A n \in Names : vs[n].stage # "absent" => vs[n].uid \in 1..MaxUid
    BY DEF ClusterInv, TypeOK
  <2>3. \A w \in 1..MaxUid : w > last' => content'[w] = "none"
    BY <1>5, <2>1 DEF ContentInv, TypeOK
  <2>4. ASSUME NEW n \in Names, vs[n].stage # "absent"
        PROVE  /\ content'[vs[n].uid] # "deleted"
               /\ vs[n].stage \in Bound => content'[vs[n].uid] # "none"
    <3>1. CASE vs[n].uid = u
      BY <1>5, <2>1, <3>1
    <3>2. CASE vs[n].uid # u
      BY <2>1, <2>2, <2>4, <3>2 DEF ContentInv
    <3> QED BY <3>1, <3>2
  <2> QED BY <1>5, <2>3, <2>4 DEF ContentInv
<1>6. ASSUME NEW n \in Names, CreateContent(n)
      PROVE  ContentInv'
  <2>1. vs[n].uid \in 1..last
    BY <1>6 DEF CreateContent, ClusterInv
  <2> QED BY <1>5, <1>6, <2>1 DEF CreateContent
<1>7. ASSUME NEW u \in Uids,
             (\E to \in {"new", "unknown", "ready"} : TakeSnapshot(u, to)) \/ DeleteContent(u)
      PROVE  ContentInv'
  <2>1. content[u] # "none"
    BY <1>7 DEF TakeSnapshot, DeleteContent
  <2>2. u \in 1..last
    BY <2>1 DEF ContentInv, TypeOK
  <2>3. ASSUME NEW to \in {"new", "unknown", "ready"}, TakeSnapshot(u, to)
        PROVE  ContentInv'
    BY <1>5, <2>2, <2>3 DEF TakeSnapshot
  <2>4. CASE DeleteContent(u)
    BY <1>5, <2>2, <2>4 DEF DeleteContent
  <2> QED BY <1>7, <2>3, <2>4
<1>8. ASSUME NEW k \in Classes, NEW to \in {"absent", "plain", "default"}, ChangeClass(k, to)
      PROVE  ContentInv'
  BY <1>8 DEF ContentInv, ChangeClass
<1>9. ASSUME NEW s \in Secrets, ChangeSecret(s)
      PROVE  ContentInv'
  BY <1>9 DEF ContentInv, ChangeSecret
<1> QED
  BY <1>2, <1>3, <1>4, <1>6, <1>7, <1>8, <1>9 DEF ClusterStep

\* Whatever changes during the call disturbs it.
LEMMA ChangeIsNotQuiet == IInv /\ Change => QuietInv'
BY DEF Change, callVars, QuietInv, QuietMeansExact, IInv, TypeOK

\* One look at a cluster that does not change sees the same before and after.
LEMMA OneLook ==
  ASSUME UNCHANGED clusterVars
  PROVE  /\ \A u, k : RightClass(u, k)' = RightClass(u, k)
         /\ \A d : ExpectedTarget(d)' = ExpectedTarget(d)
         /\ BaseIsUsable' = BaseIsUsable
BY DEF clusterVars, RightClass, Defaults, ExpectedTarget, BaseIsUsable

\* The class is determined by the cluster.
LEMMA OneRightClass ==
  ASSUME NEW u, NEW k, NEW l, RightClass(u, k), RightClass(u, l)
  PROVE  k = l
BY DEF RightClass

\* The call ends at one of the sidecar's reads, with what ExpectedTarget says.
LEMMA EndAtTarget ==
  ASSUME IInv, QuietInv, quiet, pc \in {"target", "content", "class", "secret"},
         NEW c, End(c), c = ExpectedTarget(own)
  PROVE  QuietInv'
<1>1. /\ ~given => vs["target"].stage \in Bound /\ own = origin[vs["target"].uid].driver
      /\ delta => BaseIsUsable
  BY DEF QuietInv, QuietDriver, QuietBase, DriverKnown
<1>2. /\ UNCHANGED clusterVars /\ pc' = "done" /\ code' = c
      /\ given' = given /\ own' = own /\ delta' = delta
  BY DEF End
<1>3. Expected' = ExpectedTarget(own)
  BY <1>1, <1>2, OneLook DEF Expected, clusterVars
<1> QED
  BY <1>2, <1>3 DEF QuietInv, QuietDriver, QuietBase, QuietTarget, QuietMeansExact, DriverKnown

\* It ends before that because the iterator did not find what it looked for.
LEMMA EndAtClient ==
  ASSUME IInv, UNCHANGED clusterVars, UNCHANGED <<given, delta, own>>,
         pc' = "done", code' = "ClientError",
         \/ ~given /\ vs["target"].stage \notin Bound
         \/ delta /\ ~BaseIsUsable
  PROVE  QuietInv'
BY OneLook DEF clusterVars, Expected, QuietInv, QuietDriver, QuietBase, QuietTarget,
   QuietMeansExact, DriverKnown

LEMMA SecretReferenceExact ==
  ASSUME IInv, QuietInv, quiet, pc = "class", NEW k \in Classes,
         RightClass(found, k), GetSecretReference(k)
  PROVE  QuietInv'
<1> USE LookupAssumption
<1>1. /\ vs["target"].stage = "ready" /\ found = vs["target"].uid
      /\ origin[found].driver = own
  BY DEF QuietInv, QuietTarget
<1>2. \A l \in Classes : RightClass(found, l) => l = k
  BY OneRightClass
<1>3. ExpectedTarget(own) = IF ClassSecret[k] \in secrets \cup {None} THEN "OK" ELSE "Unavailable"
  BY <1>1, <1>2 DEF ExpectedTarget
<1>4. secrets \subseteq Secrets
  BY DEF IInv, TypeOK
<1>5. CASE ClassSecret[k] = None
  BY <1>3, <1>5, EndAtTarget DEF GetSecretReference
<1>6. CASE ClassSecret[k] = Invalid
  BY <1>3, <1>4, <1>6, EndAtTarget DEF GetSecretReference
<1>7. CASE ClassSecret[k] \notin {None, Invalid}
  <2>1. /\ pc' = "secret" /\ chosen' = k
        /\ UNCHANGED <<clusterVars, historyVars, delta, given, own, found>>
    BY <1>7 DEF GetSecretReference
  <2>2. RightClass(found, chosen)'
    BY <2>1 DEF clusterVars, RightClass, Defaults
  <2> QED
    BY <1>1, <1>7, <2>1, <2>2 DEF QuietInv, QuietDriver, QuietBase, BaseIsUsable,
       QuietTarget, QuietMeansExact, DriverKnown, clusterVars, historyVars
<1> QED BY <1>5, <1>6, <1>7

LEMMA CallExact == IInv /\ ContentInv /\ QuietInv /\ CallStep => QuietInv'
<1> SUFFICES ASSUME IInv, ContentInv, QuietInv, CallStep PROVE QuietInv'
  OBVIOUS
<1> USE LookupAssumption DEF DriverKnown
<1>1. CASE Begin
  BY <1>1 DEF Begin, QuietInv, QuietDriver, QuietBase, QuietTarget, QuietMeansExact
<1>2. CASE ReadFails
  BY <1>2 DEF ReadFails, QuietInv, QuietMeansExact
<1>3. ASSUME ~quiet, CallStep, ~Begin, ~ReadFails
      PROVE  QuietInv'
  <2>1. quiet' = quiet
    BY <1>3 DEF CallStep, GetDriverSnapshot, GetDriverContent, GetPrevSnapshot,
       GetPrevContent, GetVolumeSnapshot, GetVolumeSnapshotContent,
       GetVolumeSnapshotClass, GetDefaultVolumeSnapshotClassForDriver,
       GetSecretReference, GetCredentials, End, historyVars
  <2> QED BY <1>3, <2>1 DEF QuietInv, QuietMeansExact
<1>4. CASE quiet /\ GetDriverSnapshot
  <2>1. ~given
    BY <1>4 DEF GetDriverSnapshot, QuietInv, QuietDriver
  <2>2. CASE vs["target"].stage \in Bound
    BY <1>4, <2>1, <2>2 DEF GetDriverSnapshot, QuietInv, QuietDriver, QuietBase, QuietTarget,
       QuietMeansExact, clusterVars
  <2> QED
    BY <1>4, <2>1, <2>2, EndAtClient DEF GetDriverSnapshot, End
<1>5. CASE quiet /\ GetDriverContent
  <2>1. /\ ~given /\ seen = vs["target"].uid
        /\ vs["target"].stage \in Bound
    BY <1>5 DEF GetDriverContent, QuietInv, QuietDriver
  <2>2. content[seen] \in {"new", "unknown", "ready"}
    BY <2>1 DEF IInv, TypeOK, ClusterInv, ContentInv, Uids, Made
  <2>3. /\ own' = origin[seen].driver /\ pc' \in {"base", "target"}
        /\ pc' = "target" => ~delta
        /\ UNCHANGED <<given, delta, clusterVars, historyVars>>
    BY <1>5, <2>2 DEF GetDriverContent
  <2> QED
    BY <2>1, <2>3 DEF QuietInv, QuietDriver, QuietBase, QuietTarget, QuietMeansExact, clusterVars
<1>6. CASE quiet /\ GetPrevSnapshot
  <2>1. delta /\ pc = "base"
    BY <1>6 DEF GetPrevSnapshot, IInv, CallInv
  <2>2. CASE vs["base"].stage \in Undenied
    BY <1>6, <2>1, <2>2 DEF GetPrevSnapshot, QuietInv, QuietDriver, QuietBase, QuietTarget,
       QuietMeansExact, clusterVars
  <2>3. CASE vs["base"].stage \notin Undenied
    BY <1>6, <2>1, <2>3, EndAtClient DEF GetPrevSnapshot, End, BaseIsUsable
  <2> QED BY <2>2, <2>3
<1>7. CASE quiet /\ GetPrevContent
  <2>1. delta /\ base = vs["base"].uid /\ vs["base"].stage \in Undenied
    BY <1>7 DEF GetPrevContent, QuietInv, QuietBase, IInv, CallInv
  <2>2. CASE content[base] \in Undenied
    <3>1. /\ pc' = "target" /\ UNCHANGED <<delta, given, own, clusterVars, quiet>>
          /\ BaseIsUsable'
      BY <1>7, <2>1, <2>2 DEF GetPrevContent, historyVars, clusterVars, BaseIsUsable
    <3> QED
      BY <1>7, <3>1 DEF GetPrevContent, QuietInv, QuietDriver, QuietBase, QuietTarget,
         QuietMeansExact, clusterVars
  <2>3. CASE content[base] \notin Undenied
    BY <1>7, <2>1, <2>3, EndAtClient DEF GetPrevContent, End, BaseIsUsable
  <2> QED BY <2>2, <2>3
<1>8. CASE quiet /\ GetVolumeSnapshot
  <2>1. CASE vs["target"].stage = "ready"
    BY <1>8, <2>1 DEF GetVolumeSnapshot, QuietInv, QuietDriver, QuietBase, BaseIsUsable,
       QuietTarget, QuietMeansExact, clusterVars
  <2>2. CASE vs["target"].stage = "new"
    <3>1. End("Panic")
      BY <1>8, <2>2 DEF GetVolumeSnapshot
    <3>2. ExpectedTarget(own) = "Panic"
      BY <2>2 DEF ExpectedTarget
    <3> QED BY <1>8, <3>1, <3>2, EndAtTarget DEF GetVolumeSnapshot
  <2>3. CASE vs["target"].stage \notin {"new", "ready"}
    <3>1. End("Unavailable")
      BY <1>8, <2>3 DEF GetVolumeSnapshot
    <3>2. ExpectedTarget(own) = "Unavailable"
      BY <2>3 DEF ExpectedTarget, IInv, TypeOK
    <3> QED BY <1>8, <3>1, <3>2, EndAtTarget DEF GetVolumeSnapshot
  <2> QED BY <2>1, <2>2, <2>3
<1>9. CASE quiet /\ GetVolumeSnapshotContent
  <2>1. vs["target"].stage = "ready" /\ found = vs["target"].uid
    BY <1>9 DEF GetVolumeSnapshotContent, QuietInv, QuietTarget
  <2>2. content[found] = "ready"
    BY <2>1 DEF IInv, ClusterInv
  <2>3. CASE origin[found].driver = own
    BY <1>9, <2>1, <2>2, <2>3 DEF GetVolumeSnapshotContent, QuietInv, QuietDriver, QuietBase,
       BaseIsUsable, QuietTarget, QuietMeansExact, clusterVars
  <2>4. CASE origin[found].driver # own
    <3>1. End("InvalidArgument")
      BY <1>9, <2>2, <2>4 DEF GetVolumeSnapshotContent
    <3>2. ExpectedTarget(own) = "InvalidArgument"
      BY <2>1, <2>4 DEF ExpectedTarget
    <3> QED BY <1>9, <3>1, <3>2, EndAtTarget DEF GetVolumeSnapshotContent
  <2> QED BY <2>3, <2>4
<1>10. ASSUME quiet, pc = "class", \A k \in Classes : ~RightClass(found, k), End("Unavailable")
       PROVE  QuietInv'
  <2>1. /\ vs["target"].stage = "ready" /\ found = vs["target"].uid
        /\ origin[found].driver = own
    BY <1>10 DEF QuietInv, QuietTarget
  <2>2. ExpectedTarget(own) = "Unavailable"
    BY <1>10, <2>1 DEF ExpectedTarget
  <2> QED BY <1>10, <2>2, EndAtTarget
<1>11. CASE quiet /\ GetVolumeSnapshotClass
  <2>1. /\ pc = "class" /\ origin[found].class # None
        /\ \/ class[origin[found].class] # "absent" /\ GetSecretReference(origin[found].class)
           \/ class[origin[found].class] = "absent" /\ End("Unavailable")
    BY <1>11 DEF GetVolumeSnapshotClass
  <2>2. origin[found].class \in Classes
    BY <2>1 DEF IInv, TypeOK, CallInv, HistoryInv, TargetKnown, Uids, Made
  <2>3. CASE class[origin[found].class] # "absent"
    BY <1>11, <2>1, <2>2, <2>3, SecretReferenceExact DEF RightClass
  <2>4. CASE class[origin[found].class] = "absent"
    BY <1>10, <1>11, <2>1, <2>4 DEF RightClass
  <2> QED BY <2>3, <2>4
<1>12. CASE quiet /\ GetDefaultVolumeSnapshotClassForDriver
  <2>1. pc = "class" /\ origin[found].class = None
    BY <1>12 DEF GetDefaultVolumeSnapshotClassForDriver
  <2>2. CASE \E k \in Defaults(origin[found].driver) :
               Defaults(origin[found].driver) = {k} /\ GetSecretReference(k)
    BY <1>12, <2>1, <2>2, SecretReferenceExact DEF RightClass, Defaults
  <2>3. CASE /\ \A k \in Defaults(origin[found].driver) : Defaults(origin[found].driver) # {k}
             /\ End("Unavailable")
    BY <1>10, <1>12, <2>1, <2>3 DEF RightClass
  <2> QED BY <1>12, <2>2, <2>3 DEF GetDefaultVolumeSnapshotClassForDriver
<1>13. CASE quiet /\ GetCredentials
  <2>1. /\ pc = "secret" /\ vs["target"].stage = "ready" /\ found = vs["target"].uid
        /\ origin[found].driver = own
        /\ RightClass(found, chosen) /\ ClassSecret[chosen] \notin {None, Invalid}
    BY <1>13 DEF GetCredentials, QuietInv, QuietTarget
  <2>2. chosen \in Classes
    BY <2>1 DEF IInv, CallInv, ClassKnown, TypeOK
  <2>3. ExpectedTarget(own) = IF ClassSecret[chosen] \in secrets THEN "OK" ELSE "Unavailable"
    BY <2>1, <2>2, OneRightClass DEF ExpectedTarget
  <2> QED BY <1>13, <2>1, <2>3, EndAtTarget DEF GetCredentials
<1> QED
  BY <1>1, <1>2, <1>3, <1>4, <1>5, <1>6, <1>7, <1>8, <1>9, <1>11, <1>12, <1>13 DEF CallStep

\* And in a cluster that is left alone they decide step by step as one look at it
\* would: the driver's name, the base, the target and its class.
THEOREM QuietCalls == Spec => [](IInv /\ ExactInv)
<1>1. Init => IInv /\ ExactInv
  BY InitIInv, InitExact
<1>2. ASSUME IInv, IInv', ExactInv, [Next]_vars PROVE ExactInv'
  <2>1. CASE UNCHANGED vars
    <3>1. UNCHANGED clusterVars /\ UNCHANGED callVars /\ UNCHANGED historyVars
      BY <2>1 DEF vars
    <3>2. ContentInv' /\ Expected' = Expected
      BY <1>2, <3>1, OneLook DEF ExactInv, ContentInv, Expected, clusterVars, callVars
    <3> QED
      BY <1>2, <3>1, <3>2, OneLook DEF ExactInv, QuietInv, QuietDriver, QuietBase, QuietTarget,
         QuietMeansExact, DriverKnown, clusterVars, callVars, historyVars
  <2>2. CASE ClusterStep /\ Change
    BY <1>2, <2>2, ContentChanges, ChangeIsNotQuiet DEF ExactInv
  <2>3. CASE CallStep
    <3>1. UNCHANGED clusterVars
      BY <2>3 DEF CallStep, Begin, GetDriverSnapshot, GetDriverContent, GetPrevSnapshot,
         GetPrevContent, GetVolumeSnapshot, GetVolumeSnapshotContent,
         GetVolumeSnapshotClass, GetDefaultVolumeSnapshotClassForDriver,
         GetSecretReference, GetCredentials, ReadFails, End
    <3>2. ContentInv'
      BY <1>2, <3>1 DEF ExactInv, ContentInv, clusterVars
    <3> QED BY <1>2, <2>3, <3>2, CallExact DEF ExactInv
  <2> QED BY <1>2, <2>1, <2>2, <2>3 DEF Next, Ended
<1> QED
  BY <1>1, <1>2, LookupInvariant, PTL DEF Spec

\* In a cluster that is left alone during the call, its eight reads together
\* give what one look at the cluster would.
THEOREM QuietIsExact == Spec => []QuietMeansExact
BY QuietCalls, PTL DEF ExactInv, QuietInv
=============================================================================
