---------------------------- MODULE RoleContract ----------------------------
(***************************************************************************)
(* What the orchestrator may count on when it starts, checks and stops the *)
(* components of a role, however many they are: the module Lifecycle takes *)
(* a role for one container and chooses its results from these.  `calls'   *)
(* holds what came back from StartAll, Check and StopAll, with whether     *)
(* StartAll returned instances and whether Docker has any container of the *)
(* role.                                                                   *)
(***************************************************************************)
EXTENDS Naturals, Sequences

CONSTANTS
  FaultSets,  \* the sets of kinds of faults a run may meet
  Executes,   \* a component has a readiness command, which is a docker exec
  Carries     \* the probe of a component carries the context

VARIABLES
  faults,    \* the kinds of faults this run meets
  canceled,  \* ctx.Err() # nil
  calls      \* what the calls returned so far

Call == [op : {"start", "check", "stop"}, result : {"ok", "operational", "failure"},
         held : BOOLEAN, exists : BOOLEAN]

\* A failed start and a failed stop end the run; a start needs a role that is
\* not there, a check and a stop one that is.
Follows(call) ==
  IF calls = <<>> THEN call.op = "start"
  ELSE LET last == calls[Len(calls)]
       IN  IF last.op = "stop" THEN last.result = "ok" /\ call.op = "start"
           ELSE /\ last.op = "start" => last.result = "ok"
                /\ call.op \in {"check", "stop"}

\* Evidence against the release takes a fault of the release, but for an
\* interruption of a wait or of a probe that carries the context and a docker
\* exec that fails by its exit code; an operational error takes one of Docker, but
\* for a component that exits before its port is read, which the start returns.
Attributed(call) ==
  /\ call.result = "failure" =>
       \/ {"exit", "slow"} \intersect faults # {}
       \/ canceled /\ (call.op = "start" \/ Carries)
       \/ Executes /\ "docker" \in faults
  /\ call.result = "operational" =>
       \/ canceled \/ "docker" \in faults
       \/ call.op = "start" /\ call.held /\ "exit" \in faults

\* What a start returned is there and what a stop passed is gone.
Accounted(call) ==
  /\ call.op = "start" => (call.held => call.exists)
  /\ call.op = "start" /\ call.result \in {"ok", "failure"} => call.held
  /\ call.op = "stop" => call.result # "failure"
  /\ call.op = "stop" /\ call.result = "ok" => ~ call.exists

Init == faults \in FaultSets /\ canceled = FALSE /\ calls = <<>>

Return ==
  /\ \E call \in Call : /\ Follows(call) /\ Attributed(call) /\ Accounted(call)
                        /\ calls' = Append(calls, call)
  /\ UNCHANGED <<faults, canceled>>

Signal ==
  /\ "signal" \in faults /\ ~ canceled
  /\ canceled' = TRUE /\ UNCHANGED <<faults, calls>>

Next == Return \/ Signal

Spec == Init /\ [][Next]_<<faults, canceled, calls>>
=============================================================================
