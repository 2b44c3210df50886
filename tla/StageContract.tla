--------------------------- MODULE StageContract ----------------------------
(***************************************************************************)
(* What runScenarioStage may count on: the scenarios of a stage return one *)
(* after the other, and each return is one that the action RunScenario of  *)
(* the module Lifecycle chooses from.  `returned' holds what came back:    *)
(* the outcome, whether a step of the scenario has an exit code, and       *)
(* whether operational errors came with it.                                *)
(***************************************************************************)
EXTENDS Naturals, Sequences

CONSTANT FaultSets  \* the sets of kinds of faults a run may meet

VARIABLES
  faults,    \* the kinds of faults this run meets
  canceled,  \* ctx.Err() # nil
  returned   \* the results of RunScenario so far

Result == [outcome : {"PASS", "FAIL", "ERROR", "INCOMPLETE"},
           began : BOOLEAN, lost : BOOLEAN]

\* A failure is a command's, a stop takes a signal, an error takes a fault of
\* Backline's own; a scenario that passed or failed has run a command.
Allowed(result) ==
  /\ result.outcome = "FAIL" => "command" \in faults
  /\ result.outcome = "INCOMPLETE" => canceled
  /\ result.outcome = "ERROR" => faults \intersect {"launch", "artifacts"} # {}
  /\ result.outcome \in {"PASS", "FAIL"} => result.began
  /\ result.lost => "artifacts" \in faults

Init == faults \in FaultSets /\ canceled = FALSE /\ returned = <<>>

Return ==
  /\ \A i \in DOMAIN returned : returned[i].outcome # "INCOMPLETE"
  /\ \E result \in Result : Allowed(result) /\ returned' = Append(returned, result)
  /\ UNCHANGED <<faults, canceled>>

Signal ==
  /\ "signal" \in faults /\ ~ canceled
  /\ canceled' = TRUE /\ UNCHANGED <<faults, returned>>

Next == Return \/ Signal

Spec == Init /\ [][Next]_<<faults, canceled, returned>>
=============================================================================
