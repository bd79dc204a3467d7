-------------------------- MODULE MCSnapshotLookup --------------------------
(* Instances of SnapshotLookup for TLC: two drivers; class k1 of driver d1 has a *)
(* secret, k2 of the same driver has none, and k3 of d2 does not name it well.   *)
EXTENDS SnapshotLookup

CONSTANTS d1, d2, k1, k2, k3, s1

MCClassDriver == [k \in Classes |-> IF k = k3 THEN d2 ELSE d1]
MCClassSecret == [k \in Classes |->
  CASE k = k1 -> s1 [] k = k2 -> None [] OTHER -> Invalid]

(* The bound of the run: either no base is ever made, and a target twice at     *)
(* most, with all the drivers, classes and secrets, where no snapshot names k2, *)
(* only k1 is ever there without being a default and every content says whether *)
(* it is ready; or three incarnations of targets and bases, of one driver with  *)
(* one default class, for a delta.                                              *)
OneClass ==
  /\ class = [k \in Classes |-> IF k = k2 THEN "default" ELSE "absent"]
  /\ secrets = {} /\ own # d2 /\ (pc = "idle" \/ delta)
  /\ \A u \in 1..last : origin[u].driver = d1 /\ origin[u].class = None
NoBase ==
  /\ ~delta /\ last <= 2
  /\ \A u \in 1..last : origin[u].name = "target" /\ origin[u].class # k2
  /\ \A k \in {k2, k3} : class[k] # "plain"
  /\ \A u \in Uids : content[u] # "unknown"
InstanceBound == NoBase \/ OneClass
=============================================================================
