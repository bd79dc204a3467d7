---------------------------- MODULE Enumeration ----------------------------
(***************************************************************************)
(* What the snapshot metadata service promises a backup application, with  *)
(* every mechanism left out.  The CSI driver produces the records of an    *)
(* enumeration one after the other and ends it, well or badly.  The        *)
(* application's emitter is given the records one at a time, each once, in *)
(* the order in which they were produced, and the enumeration is reported  *)
(* complete only when the driver ended it well and every record has been   *)
(* given.  It may fail at any time before that.                            *)
(***************************************************************************)
EXTENDS Naturals, Sequences

CONSTANTS Sessions,   \* the enumerations
          Records     \* what a record of block metadata may hold

VARIABLES source,     \* source[s]: the records the driver has produced
          sourceEnd,  \* "open", "whole" (ended well) or "broken"
          given,      \* given[s]: the records the emitter has accepted
          outcome     \* "running", "complete" or "failed"

abstractVars == <<source, sourceEnd, given, outcome>>

Init ==
  /\ source = [s \in Sessions |-> <<>>]
  /\ sourceEnd = [s \in Sessions |-> "open"]
  /\ given = [s \in Sessions |-> <<>>]
  /\ outcome = [s \in Sessions |-> "running"]

\* The driver produces one more record.
Produce(s) ==
  /\ sourceEnd[s] = "open"
  /\ \E r \in Records : source' = [source EXCEPT ![s] = Append(@, r)]
  /\ UNCHANGED <<sourceEnd, given, outcome>>

\* The driver ends the enumeration.
End(s) ==
  /\ sourceEnd[s] = "open"
  /\ \E e \in {"whole", "broken"} : sourceEnd' = [sourceEnd EXCEPT ![s] = e]
  /\ UNCHANGED <<source, given, outcome>>

\* The emitter accepts the next record.
Give(s) ==
  /\ outcome[s] = "running"
  /\ Len(given[s]) < Len(source[s])
  /\ given' = [given EXCEPT ![s] = Append(@, source[s][Len(@) + 1])]
  /\ UNCHANGED <<source, sourceEnd, outcome>>

\* The application is told that it has everything.
Complete(s) ==
  /\ outcome[s] = "running"
  /\ sourceEnd[s] = "whole"
  /\ given[s] = source[s]
  /\ outcome' = [outcome EXCEPT ![s] = "complete"]
  /\ UNCHANGED <<source, sourceEnd, given>>

\* The application is told that the enumeration failed.
Fail(s) ==
  /\ outcome[s] = "running"
  /\ outcome' = [outcome EXCEPT ![s] = "failed"]
  /\ UNCHANGED <<source, sourceEnd, given>>

Next == \E s \in Sessions :
          Produce(s) \/ End(s) \/ Give(s) \/ Complete(s) \/ Fail(s)

Spec == Init /\ [][Next]_abstractVars
=============================================================================
