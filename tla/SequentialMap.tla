---------------------------- MODULE SequentialMap ----------------------------
(***************************************************************************)
(* What running a list of fallible jobs means: they run one after the      *)
(* other, the outputs are in the order of the jobs, and the first job that *)
(* fails ends the run with its error.  Job j returns the value j.          *)
(***************************************************************************)
EXTENDS Integers, Sequences

CONSTANT JobCount
VARIABLES outputs, status

vars == <<outputs, status>>

Init ==
  /\ outputs = << >>
  /\ status = [kind |-> "running"]

JobSucceeds ==
  /\ status.kind = "running"
  /\ Len(outputs) < JobCount
  /\ outputs' = Append(outputs, Len(outputs) + 1)
  /\ UNCHANGED status

JobFails ==
  /\ status.kind = "running"
  /\ Len(outputs) < JobCount
  /\ status' = [kind |-> "error", job |-> Len(outputs) + 1]
  /\ UNCHANGED outputs

Finish ==
  /\ status.kind = "running"
  /\ Len(outputs) = JobCount
  /\ status' = [kind |-> "ok"]
  /\ UNCHANGED outputs

Next == JobSucceeds \/ JobFails \/ Finish

Spec == Init /\ [][Next]_vars

=============================================================================
