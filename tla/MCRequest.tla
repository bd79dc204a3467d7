------------------------------- MODULE MCRequest -------------------------------
(* Instances of Request for TLC: one class, with a secret.                      *)
EXTENDS Request, TLC

CONSTANTS d1, k1, s1

Symmetry == Permutations(Audiences) \cup Permutations(CAs)

MCClassDriver == [k \in Classes |-> d1]
MCClassSecret == [k \in Classes |-> s1]

(* The bound of the run, as two instances.  One has all of what admits a call,  *)
(* and no snapshots.  The other has both halves, but one audience, one CA and   *)
(* an iterator with a service account; the class is set up before the snapshots *)
(* are made, none of which names it or is deleted before the call, of a target  *)
(* and a base the base is made first, only the base may not say whether it is   *)
(* ready, a content is ready only once its VolumeSnapshot is bound, and the     *)
(* sidecar is not stopping before the call.                                     *)
(* While nothing disturbs the call, both halves may be in its way, that of the  *)
(* snapshots by how far they are.  What disturbs it does so in one half, and    *)
(* the other is then as a call needs it that is to succeed.                     *)
WholeAdmission ==
  /\ made = 0 /\ class[k1] = "absent" /\ secrets = {}
  /\ calm /\ steady /\ health = "ready" /\ (pc = "idle" \/ (driverGiven /\ ~delta))

OneOfEach ==
  /\ last = 1 /\ flag = None /\ self \in Accounts
  /\ \A v \in {sms, smsCR} \ {None} : v.ca \in {cert, BadCA}
  /\ \A v, w \in {sms, smsCR, token} \ {None} : v.audience = w.audience
AccessIsSetUp ==
  /\ aware /\ sms # None /\ sms.ca = cert
  /\ \A s \in Accounts : account[s] # 0 /\ \A n \in Namespaces : <<s, n>> \in grants
ClassIsSetUp == class[k1] = "default" /\ secrets = {s1}
SnapshotsAreReady == \A n \in Names : vs[n].stage = "ready"
BothHalves ==
  /\ OneOfEach /\ (pc = "idle" => health # "stopping")
  /\ \A u \in 1..made : origin[u].class = None
  /\ class[k1] # "plain"
  /\ calm => \A u \in 1..made : \E n \in Names : vs[n].uid = u
  /\ calm => \A n \in Names : vs[n].stage \in {"new", "error"} =>
               content[vs[n].uid] \in {"none", "new"}
  /\ made = 2 /\ origin[1].name = "target" => origin[2].name = "target"
  /\ vs["target"].stage # "unknown"
  /\ \A u \in 1..made : content[u] = "unknown" => origin[u].name = "base"
  /\ \/ pc = "idle" /\ (made = 0 \/ ClassIsSetUp)
     \/ calm /\ quiet /\ ClassIsSetUp
     \/ quiet /\ steady /\ health = "ready" /\ AccessIsSetUp
     \/ calm /\ steady /\ health = "ready" /\ ClassIsSetUp /\ SnapshotsAreReady

InstanceBound == WholeAdmission \/ BothHalves
=============================================================================
