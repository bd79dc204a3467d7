--------------------------- MODULE SnapshotLookup ---------------------------
(***************************************************************************)
(* How a call finds the snapshot it is about.  The iterator reads the      *)
(* driver of the target snapshot, to know which sidecar to call, and the   *)
(* handle of the base snapshot; the sidecar reads the target snapshot      *)
(* again, its content, its class and the class's secret, and makes of them *)
(* the request that it sends to the CSI driver.  Each is a read of its own *)
(* of the Kubernetes API, and between any two of them the users, the       *)
(* administrators and the snapshot controller change what was read.        *)
(*                                                                         *)
(* A snapshot that is deleted and made again under its name is another     *)
(* incarnation, with its own UID, content and handle; the content of an    *)
(* incarnation and its handle are identified by its UID here.              *)
(*                                                                         *)
(* ReadyToUse of a status may be nil: whether the snapshot is ready is not *)
(* known then.  To the sidecar, which looks at the target, that is not     *)
(* ready; the iterator, which looks at the base, lets it pass.             *)
(*                                                                         *)
(* Authentication and authorization are left out: Request puts the reads   *)
(* between them.                                                           *)
(***************************************************************************)
EXTENDS Naturals

CONSTANTS
  Drivers, Classes, Secrets,
  Names,        \* "target" and, for deltas, "base"
  MaxUid,       \* bound: incarnations of snapshots
  None,         \* no class named, no secret needed
  Invalid,      \* class parameters that do not name a secret
  ClassDriver,  \* the driver of a class
  ClassSecret   \* the snapshotter secret of a class

ASSUME LookupAssumption ==
  /\ MaxUid \in Nat
  /\ "target" \in Names /\ Names \subseteq {"target", "base"}
  /\ None \notin Classes \cup Secrets \cup Drivers
  /\ Invalid \notin Secrets \cup {None}
  /\ ClassDriver \in [Classes -> Drivers]
  /\ ClassSecret \in [Classes -> Secrets \cup {None, Invalid}]

Uids == 1..MaxUid

VARIABLES
  \* The cluster.
  vs,          \* vs[n]: the VolumeSnapshot of that name: its UID, and how far it is
  content,     \* content[u]: the VolumeSnapshotContent of an incarnation
  origin,      \* origin[u]: the name, the driver and the class of an incarnation
  last,        \* the last UID given
  class,       \* class[k]: "absent", "plain" or "default"
  secrets,     \* the secrets there are
  \* The call.
  pc,          \* the next read
  delta,       \* GetMetadataDelta for a base known by name?
  given,       \* the driver was given to the iterator
  own,         \* the driver whose sidecar is called
  seen,        \* the incarnation in which the iterator found the driver
  base,        \* the incarnation found for the base
  found,       \* the incarnation that the sidecar found for the target
  chosen,      \* the class that the sidecar chose
  code,        \* the outcome; "OK": the request is sent to the driver
  \* History, from the beginning of the call.
  quiet,       \* nothing has changed and no read has failed
  wasReady,    \* incarnations that were ready to use at an instant
  wasOpen,     \* incarnations of the base that were Open at an instant
  wasUsable,   \* those whose content was Usable then or at a later instant
  wasRight     \* classes that were right for found at an instant since it was found

clusterVars == <<vs, content, origin, last, class, secrets>>
callVars    == <<pc, delta, given, own, seen, base, found, chosen, code>>
historyVars == <<quiet, wasReady, wasOpen, wasUsable, wasRight>>
vars == <<clusterVars, callVars, historyVars>>

\* How far a VolumeSnapshot is: its status is nil in "new" and names no content in
\* "error"; ReadyToUse is false in "bound", nil in "unknown", true in "ready".
Stages == {"absent", "new", "error", "bound", "unknown", "ready"}

\* How far a content is: it has no handle, or ReadyToUse is false, in "new";
\* ReadyToUse is nil in "unknown".
Contents == {"none", "new", "unknown", "ready", "deleted"}

Bound    == {"bound", "unknown", "ready"}
Undenied == {"unknown", "ready"}  \* ReadyToUse is not false

Absent == [uid |-> 0, stage |-> "absent"]
Unmade == [name |-> "target", driver |-> None, class |-> None]

Init ==
  /\ vs = [n \in Names |-> Absent]
  /\ content = [u \in Uids |-> "none"]
  /\ origin = [u \in Uids |-> Unmade]
  /\ last = 0
  /\ class = [k \in Classes |-> "absent"]
  /\ secrets = {}
  /\ pc = "idle" /\ delta = FALSE /\ given = FALSE
  /\ own = None /\ seen = 0 /\ base = 0 /\ found = 0 /\ chosen = None
  /\ code = "none"
  /\ quiet = TRUE /\ wasReady = {} /\ wasOpen = {} /\ wasUsable = {} /\ wasRight = {}

----------------------------------------------------------------------------
(* What is so at an instant.                                               *)

Ready == {u \in Uids : \E n \in Names :
            vs[n] = [uid |-> u, stage |-> "ready"] /\ content[u] = "ready"}

\* What the iterator looks for in the VolumeSnapshot of the base and in its content.
Open == {u \in Uids : \E n \in Names \ {"target"} :
           vs[n].uid = u /\ vs[n].stage \in Undenied}
Usable == {u \in Uids : content[u] \in Undenied}

Defaults(d) == {k \in Classes : class[k] = "default" /\ ClassDriver[k] = d}

\* The class named by an incarnation; or else the only default one of its driver.
RightClass(u, k) ==
  IF origin[u].class # None
    THEN k = origin[u].class /\ class[k] # "absent"
    ELSE Defaults(origin[u].driver) = {k}

Right(u) == {k \in Classes : RightClass(u, k)}

----------------------------------------------------------------------------
(* The cluster.  It is of no interest once the call has ended.             *)

Change ==
  /\ pc # "done"
  /\ UNCHANGED callVars
  /\ quiet' = (quiet /\ pc = "idle")
  /\ wasReady' = IF pc = "idle" THEN {} ELSE wasReady \cup Ready'
  /\ wasOpen' = IF pc = "idle" THEN {} ELSE wasOpen \cup Open'
  /\ wasUsable' = wasUsable \cup (wasOpen' \cap Usable')
  /\ wasRight' = IF found = 0 THEN {} ELSE wasRight \cup Right(found)'

Stage(n, from, to) ==
  /\ vs[n].stage \in from
  /\ vs' = [vs EXCEPT ![n].stage = to]
  /\ UNCHANGED <<content, origin, last, class, secrets>>

\* The status of a new VolumeSnapshot is nil.
CreateSnapshot(n, d, k) ==
  /\ vs[n] = Absent
  /\ k # None => ClassDriver[k] = d
  /\ last < MaxUid /\ last' = last + 1
  /\ vs' = [vs EXCEPT ![n] = [uid |-> last + 1, stage |-> "new"]]
  /\ origin' = [origin EXCEPT ![last + 1] = [name |-> n, driver |-> d, class |-> k]]
  /\ UNCHANGED <<content, class, secrets>>

CreateContent(n) ==
  /\ vs[n].stage \in {"new", "error"}
  /\ content[vs[n].uid] = "none"
  /\ content' = [content EXCEPT ![vs[n].uid] = "new"]
  /\ UNCHANGED <<vs, origin, last, class, secrets>>

ReportError(n) == Stage(n, {"new"}, "error")

Bind(n, to) ==
  /\ vs[n].stage \in {"new", "error"} /\ content[vs[n].uid] # "none"
  /\ Stage(n, {"new", "error"}, to)

TakeSnapshot(u, to) ==
  /\ content[u] \in {"new", "unknown"} \ {to}
  /\ content' = [content EXCEPT ![u] = to]
  /\ UNCHANGED <<vs, origin, last, class, secrets>>

ReportUnready(n) == Stage(n, {"unknown"}, "bound")

ReportReady(n) ==
  /\ vs[n].stage \in {"bound", "unknown"} /\ content[vs[n].uid] = "ready"
  /\ Stage(n, {"bound", "unknown"}, "ready")

DeleteSnapshot(n) ==
  /\ vs[n] # Absent
  /\ vs' = [vs EXCEPT ![n] = Absent]
  /\ UNCHANGED <<content, origin, last, class, secrets>>

\* A content is kept as long as its VolumeSnapshot is there.
DeleteContent(u) ==
  /\ content[u] \in {"new", "unknown", "ready"}
  /\ \A n \in Names : vs[n].uid # u
  /\ content' = [content EXCEPT ![u] = "deleted"]
  /\ UNCHANGED <<vs, origin, last, class, secrets>>

ChangeClass(k, to) ==
  /\ class' = [class EXCEPT ![k] = to]
  /\ UNCHANGED <<vs, content, origin, last, secrets>>

ChangeSecret(s) ==
  /\ secrets' = IF s \in secrets THEN secrets \ {s} ELSE secrets \cup {s}
  /\ UNCHANGED <<vs, content, origin, last, class>>

ClusterStep ==
  \/ \E n \in Names :
       \/ \E d \in Drivers, k \in Classes \cup {None} : CreateSnapshot(n, d, k)
       \/ \E to \in {"bound", "unknown"} : Bind(n, to)
       \/ CreateContent(n) \/ ReportError(n) \/ ReportUnready(n) \/ ReportReady(n)
       \/ DeleteSnapshot(n)
  \/ \E u \in Uids :
       \/ \E to \in {"new", "unknown", "ready"} : TakeSnapshot(u, to)
       \/ DeleteContent(u)
  \/ \E k \in Classes, to \in {"absent", "plain", "default"} : ChangeClass(k, to)
  \/ \E s \in Secrets : ChangeSecret(s)

----------------------------------------------------------------------------
(* The iterator.                                                           *)

\* The call begins.  The driver may be given; the base, if there is one, may be
\* given as a handle, which is then passed on as it is: that case needs no
\* lookup, and is like a call without a base.
Begin ==
  /\ pc = "idle"
  /\ delta' \in BOOLEAN /\ (delta' => "base" \in Names)
  /\ \/ /\ given' = TRUE /\ own' \in Drivers
        /\ pc' = IF delta' THEN "base" ELSE "target"
     \/ given' = FALSE /\ own' = None /\ pc' = "driver"
  /\ wasReady' = Ready
  /\ wasOpen' = Open /\ wasUsable' = Open \cap Usable
  /\ UNCHANGED <<seen, base, found, chosen, code, clusterVars, quiet, wasRight>>

End(c) ==
  /\ pc' = "done" /\ code' = c
  /\ UNCHANGED <<delta, given, own, seen, base, clusterVars, historyVars>>

GetDriverSnapshot ==
  /\ pc = "driver"
  /\ IF vs["target"].stage \in Bound
       THEN /\ pc' = "driverContent" /\ seen' = vs["target"].uid
            /\ UNCHANGED <<delta, given, own, base, found, chosen, code,
                           clusterVars, historyVars>>
       ELSE End("ClientError") /\ UNCHANGED <<found, chosen>>

\* The content need not be ready for its driver to be known.
GetDriverContent ==
  /\ pc = "driverContent"
  /\ IF content[seen] \in {"new", "unknown", "ready"}
       THEN /\ own' = origin[seen].driver
            /\ pc' = IF delta THEN "base" ELSE "target"
            /\ UNCHANGED <<delta, given, seen, base, found, chosen, code,
                           clusterVars, historyVars>>
       ELSE End("ClientError") /\ UNCHANGED <<found, chosen>>

\* (Mutant: the target's name is used.)
GetPrevSnapshotOfTarget ==
  /\ pc = "base"
  /\ IF vs["target"].stage \in Undenied
       THEN /\ pc' = "baseContent" /\ base' = vs["target"].uid
            /\ UNCHANGED <<delta, given, own, seen, found, chosen, code,
                           clusterVars, historyVars>>
       ELSE End("ClientError") /\ UNCHANGED <<found, chosen>>

\* "Check ready-to-use if set, otherwise ignore": a base that does not say whether it
\* is ready is taken.  The sidecar gets its handle and never looks at it.
GetPrevSnapshot ==
  /\ pc = "base"
  /\ IF vs["base"].stage \in Undenied
       THEN /\ pc' = "baseContent" /\ base' = vs["base"].uid
            /\ UNCHANGED <<delta, given, own, seen, found, chosen, code,
                           clusterVars, historyVars>>
       ELSE End("ClientError") /\ UNCHANGED <<found, chosen>>

\* (Mutant: neither ReadyToUse nor the handle is looked at.)
GetPrevContentUnchecked ==
  /\ pc = "baseContent"
  /\ IF content[base] \in {"new", "unknown", "ready"}
       THEN /\ pc' = "target"
            /\ UNCHANGED <<delta, given, own, seen, base, found, chosen, code,
                           clusterVars, historyVars>>
       ELSE End("ClientError") /\ UNCHANGED <<found, chosen>>

\* And so is a content that does not, if it has the handle.
GetPrevContent ==
  /\ pc = "baseContent"
  /\ IF content[base] \in Undenied
       THEN /\ pc' = "target"
            /\ UNCHANGED <<delta, given, own, seen, base, found, chosen, code,
                           clusterVars, historyVars>>
       ELSE End("ClientError") /\ UNCHANGED <<found, chosen>>

----------------------------------------------------------------------------
(* The sidecar.                                                            *)

\* The status is dereferenced without a check for nil.  ReadyToUse must be true.
GetVolumeSnapshot ==
  /\ pc = "target"
  /\ CASE vs["target"].stage = "ready" ->
            /\ pc' = "content" /\ found' = vs["target"].uid
            /\ wasRight' = Right(vs["target"].uid)
            /\ UNCHANGED <<delta, given, own, seen, base, chosen, code,
                           clusterVars, quiet, wasReady, wasOpen, wasUsable>>
       [] vs["target"].stage = "new" -> End("Panic") /\ UNCHANGED <<found, chosen>>
       [] OTHER -> End("Unavailable") /\ UNCHANGED <<found, chosen>>

\* (Mutant: the same code for every refusal.)
GetVolumeSnapshotContentInvalid ==
  /\ pc = "content"
  /\ IF content[found] # "ready" \/ origin[found].driver # own
       THEN End("InvalidArgument")
       ELSE /\ pc' = "class"
            /\ UNCHANGED <<delta, given, own, seen, base, code, clusterVars,
                           historyVars>>
  /\ UNCHANGED <<found, chosen>>

\* The content, and whose it is.
GetVolumeSnapshotContent ==
  /\ pc = "content"
  /\ CASE content[found] # "ready" -> End("Unavailable")
       [] content[found] = "ready" /\ origin[found].driver # own -> End("InvalidArgument")
       [] OTHER -> /\ pc' = "class"
                   /\ UNCHANGED <<delta, given, own, seen, base, code,
                                  clusterVars, historyVars>>
  /\ UNCHANGED <<found, chosen>>

\* What the parameters of the class say of the secret.
GetSecretReference(k) ==
  /\ chosen' = k
  /\ CASE ClassSecret[k] = None -> End("OK")
       [] ClassSecret[k] = Invalid -> End("Unavailable")
       [] OTHER -> /\ pc' = "secret"
                   /\ UNCHANGED <<delta, given, own, seen, base, code,
                                  clusterVars, historyVars>>
  /\ UNCHANGED found

GetVolumeSnapshotClass ==
  /\ pc = "class"
  /\ LET k == origin[found].class IN
     /\ k # None
     /\ \/ class[k] # "absent" /\ GetSecretReference(k)
        \/ class[k] = "absent" /\ End("Unavailable") /\ UNCHANGED <<found, chosen>>

\* (Mutant: the first of several default classes is taken.)
GetFirstDefaultClass ==
  /\ pc = "class" /\ origin[found].class = None
  /\ LET ds == Defaults(origin[found].driver) IN
     \/ \E k \in ds : GetSecretReference(k)
     \/ ds = {} /\ End("Unavailable") /\ UNCHANGED <<found, chosen>>

GetDefaultVolumeSnapshotClassForDriver ==
  /\ pc = "class" /\ origin[found].class = None
  /\ LET ds == Defaults(origin[found].driver) IN
     \/ \E k \in ds : ds = {k} /\ GetSecretReference(k)
     \/ (\A k \in ds : ds # {k}) /\ End("Unavailable") /\ UNCHANGED <<found, chosen>>

GetCredentials ==
  /\ pc = "secret"
  /\ End(IF ClassSecret[chosen] \in secrets THEN "OK" ELSE "Unavailable")
  /\ UNCHANGED <<found, chosen>>

\* A read fails, or the call's context is done before it is answered.
ReadFails ==
  /\ pc \notin {"idle", "done"}
  /\ pc' = "done"
  /\ code' = IF pc \in {"driver", "driverContent", "base", "baseContent"}
               THEN "ClientError" ELSE "Unavailable"
  /\ quiet' = FALSE
  /\ UNCHANGED <<delta, given, own, seen, base, found, chosen, clusterVars,
                 wasReady, wasOpen, wasUsable, wasRight>>

CallStep ==
  \/ Begin \/ GetDriverSnapshot \/ GetDriverContent \/ GetPrevSnapshot
  \/ GetPrevContent \/ GetVolumeSnapshot \/ GetVolumeSnapshotContent
  \/ GetVolumeSnapshotClass \/ GetDefaultVolumeSnapshotClassForDriver
  \/ GetCredentials \/ ReadFails

Ended == pc = "done" /\ UNCHANGED vars

Next == (ClusterStep /\ Change) \/ CallStep \/ Ended

Spec == Init /\ [][Next]_vars

----------------------------------------------------------------------------
(* Properties.                                                             *)

\* Type invariant.
TypeOK ==
  /\ vs \in [Names -> [uid : 0..MaxUid, stage : Stages]]
  /\ content \in [Uids -> Contents]
  /\ origin \in [Uids -> [name : Names, driver : Drivers \cup {None},
                          class : Classes \cup {None}]]
  /\ last \in 0..MaxUid
  /\ class \in [Classes -> {"absent", "plain", "default"}]
  /\ secrets \subseteq Secrets
  /\ pc \in {"idle", "driver", "driverContent", "base", "baseContent", "target",
             "content", "class", "secret", "done"}
  /\ delta \in BOOLEAN /\ given \in BOOLEAN
  /\ own \in Drivers \cup {None}
  /\ seen \in 0..MaxUid /\ base \in 0..MaxUid /\ found \in 0..MaxUid
  /\ chosen \in Classes \cup {None}
  /\ code \in {"none", "OK", "ClientError", "Unavailable", "InvalidArgument", "Panic"}
  /\ quiet \in BOOLEAN /\ wasReady \subseteq Uids
  /\ wasOpen \subseteq Uids /\ wasUsable \subseteq Uids
  /\ wasRight \subseteq Classes

\* A request that is sent to the driver was true, although no two of its parts
\* were read together: at an instant of the call its target was the snapshot of
\* that name, was ready to use and had the handle that is sent; its base was the
\* snapshot of its name and did not say that it was not ready, and then, or at a
\* later instant, its content had the handle that is sent and did not say so either
\* (that it was ready is more than the code asks of a base); at an instant the class
\* whose secret is sent was the right one; and the driver is the target's own.
RequestWasTrue ==
  code = "OK" =>
    /\ found \in wasReady /\ origin[found].name = "target"
    /\ origin[found].driver = own
    /\ delta => base \in wasUsable /\ origin[base].name = "base"
    /\ chosen \in wasRight

\* A snapshot is refused as that of another driver only if the caller named the
\* driver, or if the snapshot was made again since the iterator looked at it.
RefusalHasCause ==
  code = "InvalidArgument" => given \/ found # seen

\* In a cluster that does not change during the call, all the reads together are
\* as good as one look at it.
ExpectedTarget(d) ==
  LET u == vs["target"].uid IN
  CASE vs["target"].stage = "new" -> "Panic"
    [] vs["target"].stage \in {"absent", "error", "bound", "unknown"} -> "Unavailable"
    [] vs["target"].stage = "ready" /\ origin[u].driver # d -> "InvalidArgument"
    [] OTHER ->
         IF \E k \in Classes : RightClass(u, k) /\ ClassSecret[k] \in secrets \cup {None}
           THEN "OK" ELSE "Unavailable"
BaseIsUsable == vs["base"].stage \in Undenied /\ content[vs["base"].uid] \in Undenied
Expected ==
  IF \/ ~given /\ vs["target"].stage \notin Bound
     \/ delta /\ ~BaseIsUsable
    THEN "ClientError"
    ELSE ExpectedTarget(IF given THEN own ELSE origin[vs["target"].uid].driver)
QuietMeansExact == pc = "done" /\ quiet => code = Expected

\* "the VolumeSnapshot is not yet ready": that is what the sidecar answers when
\* it is not.
UnreadyIsUnavailable == code # "Panic"
=============================================================================
