--------------------------- MODULE LifecycleParts ---------------------------
(***************************************************************************)
(* What Lifecycle takes the parts of a run for, one step each, against     *)
(* what these promise: the contracts Components, Workloads, Compose and    *)
(* Cleanup implement, read where the program calls them.                   *)
(***************************************************************************)
EXTENDS LifecycleProps

\* The containers the call of this point is about.
Concerned ==
  CASE pc \in {"start", "ready"}                                 -> {Starting}
    [] pc \in {"baseInspect", "baseProbe", "stopBase"}           -> {base}
    [] pc \in {"healthInspect", "healthProbe", "stopCandidate"}  -> {candidate}
    [] OTHER                                                     -> allInstances

\* What the faults of a run and the loss of its shared services are to them.
RoleFaults ==
  (Faults \intersect {"signal", "docker"})
    \union {f \in {"exit", "slow"} : Concerned \intersect Faults # {}}
    \union {f \in {"slow"} : shared # "healthy"}

Role == INSTANCE RoleContract WITH
  FaultSets <- {}, Executes <- ReadinessType = "command",
  Carries <- ReadinessType \in {"http", "command"},
  faults <- RoleFaults, calls <- <<>>

\* What StartAll, Check or StopAll may come back with.
Returned(op) ==
  {call \in Role!Call : call.op = op /\ Role!Attributed(call) /\ Role!Accounted(call)}

CheckResults == InspectResults(Concerned) \union ProbeResults(Concerned)

\* A role is started when it is not there, and checked and stopped when it is;
\* and the run is prepared for every result the call may have.
StartFits ==
  /\ pc = "start" =>
       /\ Starting \notin exists
       /\ \A call \in Returned("start") :
            call.result = "operational" => LaunchFails(call.exists, call.held)
  /\ pc = "ready" =>
       /\ Starting \in exists
       /\ \A call \in Returned("start") :
            call.result = "failure" => "fail" \in WaitFailures

CheckFits ==
  pc \in {"inspect", "probe", "baseInspect", "baseProbe", "healthInspect", "healthProbe"} =>
    /\ Concerned # {} /\ Concerned \subseteq exists
    /\ \A call \in Returned("check") :
         /\ call.result = "operational" => "error" \in CheckResults
         /\ call.result = "failure" => Concerned \intersect CheckResults # {}

StopFits ==
  pc \in {"stopBase", "stopCandidate"} =>
    /\ Concerned \subseteq exists
    /\ ~ canceled => "ok" \in StopResults
    /\ \A call \in Returned("stop") :
         call.result = "operational" => "error" \in StopResults

ScenarioFaults ==
  (Faults \intersect {"signal", "artifacts"})
    \union {f \in {"launch"} : "docker" \in Faults}
    \union {f \in {"command"} : CommandFails}

Scenarios == INSTANCE StageContract WITH
  FaultSets <- {}, faults <- ScenarioFaults, returned <- <<>>

ResultOf == [PASS |-> "pass", FAIL |-> "fail", ERROR |-> "error", INCOMPLETE |-> "canceled"]

\* A stage is prepared for everything a scenario may return.
StageFits ==
  pc = "run" =>
    \A result \in Scenarios!Result :
      Scenarios!Allowed(result) =>
        MayReturn(ResultOf[result.outcome], result.lost, result.began)

ServiceFaults ==
  {f \in {"docker", "write"} : "docker" \in Faults}
    \union {f \in {"exit", "slow"} : "shared" \in Faults}

Services == INSTANCE SharedContract WITH
  Runs <- {"run"}, faults <- ServiceFaults,
  passable <- "command" \notin Faults, apart <- "command" \notin Faults,
  canceled <- {r \in {"run"} : canceled},
  phase <- [r \in {"run"} |-> "starting"], present <- {}

\* A run is prepared for a shared environment that does not start.
ServicesFit == pc = "shared" /\ Services!MayFail("run") => SharedStartFails

\* What a run owns of what these are.
Left(containers, services, hook) ==
  containers \union {r \in {"services"} : services # "absent"}
             \union {r \in {"hook"} : hook}

CleanupTrouble == "docker" \in Faults \/ "internal" \in errors

Cleanups == INSTANCE CleanupContract WITH
  Resources <- {}, mode <- "clean", left <- Left(exists, shared, stray),
  named <- {}, status <- "none", troubled <- CleanupTrouble

\* A run is prepared for every way its cleanup may end, whatever that leaves.
CleanFits ==
  pc = "clean" =>
    \A verdict \in {"PASS", "ERROR"}, containers \in SUBSET exists,
       services \in {shared, "absent"}, hook \in {stray, FALSE} :
      Cleanups!MayEnd(verdict, Left(containers, services, hook), CleanupTrouble) =>
        MayLeave(verdict, containers, services, hook)

\* Every part is called when it may be, and there is no result its contract
\* allows that the run has not been modelled to meet: what the proofs say of a
\* run they say of one with the components, scenarios and services of the code.
PartsFit ==
  StartFits /\ CheckFits /\ StopFits /\ StageFits /\ ServicesFit /\ CleanFits
=============================================================================
