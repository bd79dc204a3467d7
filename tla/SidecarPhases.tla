--------------------------- MODULE SidecarPhases ---------------------------
(***************************************************************************)
(* What the life of the sidecar promises to the calls made of it: a call   *)
(* is served only if it was admitted between the validation of the CSI     *)
(* driver and the beginning of the stop, and a process that exits on       *)
(* request serves every call it admitted to its end.  A process that       *)
(* crashes takes its calls with it.                                        *)
(***************************************************************************)
CONSTANT Calls

VARIABLES phase,   \* "starting", "running", "stopping", "exited" or "crashed"
          served   \* the calls that were admitted and have not returned

phaseVars == <<phase, served>>

Init == phase = "starting" /\ served = {}

\* The CSI driver is known to be ready and to support the service.
Validated == phase = "starting" /\ phase' = "running" /\ UNCHANGED served

Admit(c) ==
  /\ phase = "running"
  /\ c \notin served
  /\ served' = served \cup {c}
  /\ UNCHANGED phase

Leave(c) ==
  /\ c \in served
  /\ served' = served \ {c}
  /\ UNCHANGED phase

\* From here on no call is admitted.
Retire == phase = "running" /\ phase' = "stopping" /\ UNCHANGED served

Exit ==
  /\ phase = "stopping"
  /\ served = {}
  /\ phase' = "exited"
  /\ UNCHANGED served

Crash ==
  /\ phase \notin {"exited", "crashed"}
  /\ phase' = "crashed"
  /\ served' = {}

Next ==
  \/ Validated \/ Retire \/ Exit \/ Crash
  \/ \E c \in Calls : Admit(c) \/ Leave(c)

Spec == Init /\ [][Next]_phaseVars
=============================================================================
