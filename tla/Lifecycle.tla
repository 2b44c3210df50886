----------------------------- MODULE Lifecycle ------------------------------
(***************************************************************************)
(* internal/orchestrator: one `backline verify' run after preflight, from  *)
(* Orchestrator.Run to the process exit code chosen by app.Verify.         *)
(*                                                                         *)
(* The program is one goroutine; what runs beside it is its environment:   *)
(* a signal may cancel its context, the shared services and the            *)
(* application components may die, Docker calls, artifact writes and       *)
(* commands may fail.  `machine' is the LifecycleState, `pc' the point of  *)
(* the program inside that state.  A point is placed before every call     *)
(* that can outlast a change of the environment, so that what the code     *)
(* read before the call may be stale after it.                             *)
(*                                                                         *)
(* The components of one role are one container: "base" is the original    *)
(* base release, "candidate" the candidate, "fresh" the base restarted     *)
(* for rollback.  A container in `alive' is running and ready.  Stages and *)
(* controls are named by the lifecycle state they belong to, whose name in *)
(* the code is the stage name in upper case.                               *)
(***************************************************************************)
EXTENDS Naturals, Verdicts

CONSTANTS
  Workload,       \* scenario stage |-> number of configured scenarios
  Mutating,       \* the candidate-traffic scenarios with mutates_state
  Hooks,          \* hook stage |-> number of configured hooks
  ReadinessType,  \* run.readiness.type of the components
  KeepOnFailure,  \* --keep-on-failure
  Faults          \* the kinds of faults the environment may produce

ScenarioStages == {"BASELINE", "BASE_AFTER_TRANSITION_CONTROL",
                   "CANDIDATE_CONTROL", "BASE_WITH_CANDIDATE_CONTROL",
                   "COEXISTENCE", "CANDIDATE_TRAFFIC", "ROLLBACK"}

HookStages == {"BOOTSTRAP", "TRANSITION", "CANDIDATE_ONLY", "ROLLBACK"}

\* "docker" is a failing Docker call, process launch or temporary file, or a
\* worktree git does not remove, "command" a command or the Compose file of the
\* project, "artifacts" a write to the artifact directory; the others are a
\* signal, a panic and the loss of a shared service or a component.
FaultKinds == {"signal", "shared", "base", "candidate", "fresh", "docker",
               "command", "artifacts", "panic"}

\* What configuration validation guarantees of a run.
ASSUME WorkloadAssumption == Workload \in [ScenarioStages -> Nat \ {0}]
ASSUME MutatingAssumption ==
  /\ Mutating \subseteq 1 .. Workload["CANDIDATE_TRAFFIC"]
  /\ Mutating # {}
ASSUME HooksAssumption == Hooks \in [HookStages -> Nat]
ASSUME ReadinessAssumption ==
  ReadinessType \in {"http", "tcp", "docker-health", "command"}
ASSUME KeepAssumption == KeepOnFailure \in BOOLEAN
ASSUME FaultsAssumption == Faults \subseteq FaultKinds

VARIABLES
  machine,      \* StateMachine.current
  pc,           \* the point of the program
  canceled,     \* ctx.Err() # nil
  shared,       \* the shared services: "absent", "healthy" or "lost"
  exists,       \* the application containers Docker knows
  alive,        \* those that are running and ready
  stray,        \* the container of a hook that was given up still runs
  base,         \* execution.base, "none" when empty
  candidate,    \* execution.candidate, "none" when empty
  baseUsable,   \* the local variable of runLifecycle
  next,         \* the hook or scenario the current loop is at
  marks,        \* the fields of stageExecution, "failed" for ~Passed
  established, failures, uncertainty, errors,   \* verdicts.Evidence
  stages,       \* the outcome recorded for each expected stage
  controls,     \* execution.controls
  runErr,       \* the error Run returns beside the summary is not nil
  cleanup,      \* cleanupResult.Status
  code,         \* summary.ExitCode
  exit          \* what app.Verify returns

world    == <<canceled, shared, exists, alive, stray>>
refs     == <<base, candidate>>
frame    == <<next, marks>>
evidence == <<established, failures, uncertainty, errors>>
record   == <<stages, controls>>
final    == <<runErr, cleanup, code, exit>>

vars == <<machine, pc, world, refs, baseUsable, frame, evidence, record, final>>

-----------------------------------------------------------------------------
States == {"PREFLIGHT", "BUILD", "SHARED_ENVIRONMENT", "BOOTSTRAP",
           "BASE_STARTUP", "BASELINE", "TRANSITION",
           "BASE_AFTER_TRANSITION_CONTROL", "CANDIDATE_STARTUP",
           "CANDIDATE_CONTROL", "BASE_WITH_CANDIDATE_CONTROL", "COEXISTENCE",
           "CANDIDATE_ONLY", "CANDIDATE_TRAFFIC", "ROLLBACK", "REPORTING",
           "CLEANUP", "COMPLETE"}

\* The stages completeSkippedStages expects; "ROLLBACK" is the scenario stage.
ExpectedStages ==
  (States \ {"PREFLIGHT", "REPORTING", "CLEANUP", "COMPLETE"})
    \union {"ROLLBACK_HOOKS", "BASE_RESTART"}

ControlStages == {"BASE_AFTER_TRANSITION_CONTROL", "CANDIDATE_CONTROL",
                  "BASE_WITH_CANDIDATE_CONTROL"}

Outcomes == {"PASS", "FAIL", "ERROR", "SKIPPED", "INCOMPLETE"}

NoExit == 99

Instances == {"base", "candidate", "fresh"}

Marks == {"failed", "project", "operational", "incomplete"}

\* The points of execute: a panic at any of them is recovered.
ExecutePoints == {"build", "shared", "hooks", "hook", "start", "ready",
                  "begin", "stageHealth", "run", "inspect", "probe", "ended", "sharedHealth",
                  "baseInspect", "baseProbe", "coexist", "stopBase",
                  "healthInspect", "healthProbe", "skipTraffic", "stopCandidate"}

Points == ExecutePoints \union
          {"session", "prepare", "report", "clean", "publish", "verify", "exited"}

\* StateMachine.Advance.
Successor(state) ==
  CASE state = "PREFLIGHT"                     -> "BUILD"
    [] state = "BUILD"                         -> "SHARED_ENVIRONMENT"
    [] state = "SHARED_ENVIRONMENT"            -> "BOOTSTRAP"
    [] state = "BOOTSTRAP"                     -> "BASE_STARTUP"
    [] state = "BASE_STARTUP"                  -> "BASELINE"
    [] state = "BASELINE"                      -> "TRANSITION"
    [] state = "TRANSITION"                    -> "BASE_AFTER_TRANSITION_CONTROL"
    [] state = "BASE_AFTER_TRANSITION_CONTROL" -> "CANDIDATE_STARTUP"
    [] state = "CANDIDATE_STARTUP"             -> "CANDIDATE_CONTROL"
    [] state = "CANDIDATE_CONTROL"             -> "BASE_WITH_CANDIDATE_CONTROL"
    [] state = "BASE_WITH_CANDIDATE_CONTROL"   -> "COEXISTENCE"
    [] state = "COEXISTENCE"                   -> "CANDIDATE_ONLY"
    [] state = "CANDIDATE_ONLY"                -> "CANDIDATE_TRAFFIC"
    [] state = "CANDIDATE_TRAFFIC"             -> "ROLLBACK"
    [] state = "REPORTING"                     -> "CLEANUP"
    [] state = "CLEANUP"                       -> "COMPLETE"
    [] OTHER                                   -> "none"

Advance(state) ==
  /\ \/ state = "REPORTING" /\ machine \notin {"CLEANUP", "COMPLETE"}
     \/ state = Successor(machine)
  /\ machine' = state

\* execution.enter: a refused transition panics (see Recover), so the step
\* that enters a state is a step of a permitted transition.
Enter(state, point) == Advance(state) /\ pc' = point

\* stageReason.
StageReason(state) ==
  CASE state = "BASELINE"                      -> "BASELINE_FAILED"
    [] state = "BASE_AFTER_TRANSITION_CONTROL" -> "BASE_AFTER_TRANSITION_CONTROL_FAILED"
    [] state = "CANDIDATE_CONTROL"             -> "CANDIDATE_CONTROL_FAILED"
    [] state = "BASE_WITH_CANDIDATE_CONTROL"   -> "BASE_WITH_CANDIDATE_CONTROL_FAILED"
    [] state = "COEXISTENCE"                   -> "COEXISTENCE_SCENARIO_FAILED"
    [] state = "CANDIDATE_TRAFFIC"             -> "CANDIDATE_TRAFFIC_FAILED"
    [] state = "ROLLBACK"                      -> "ROLLBACK_SCENARIO_FAILED"
    [] OTHER                                   -> "ORCHESTRATION_ERROR"

\* Mutant of Classification: a failed precondition counts as mixed failure.
ClassificationOfEveryStage(state) ==
  IF state = "ROLLBACK" THEN {"rollback"} ELSE {"mixed"}

\* The verdicts a direct failure in a scenario stage counts against: the
\* classification runLifecycle passes to runScenarioStage.
Classification(state) ==
  CASE state \in {"BASE_AFTER_TRANSITION_CONTROL", "COEXISTENCE",
                  "BASE_WITH_CANDIDATE_CONTROL"} -> {"mixed"}
    [] state = "ROLLBACK" -> {"rollback"}
    [] OTHER -> {}

-----------------------------------------------------------------------------
\* Recording evidence.

\* Mutant of AddFailure: the list is assigned where it should be appended to.
ReplaceFailure(vs, reason) ==
  failures' = [v \in VerdictNames |-> IF v \in vs THEN {reason} ELSE {}]

AddFailure(vs, reason) ==
  failures' = [v \in VerdictNames |->
                 failures[v] \union (IF v \in vs THEN {reason} ELSE {})]

AddUncertainty(vs, reasons) ==
  uncertainty' = [v \in VerdictNames |->
                    uncertainty[v] \union (IF v \in vs THEN reasons ELSE {})]

\* The verdicts marked uncertain by the calls that spare a failed mixed
\* verdict: len(MixedFailureReasons) == 0.
NotFailed == {v \in VerdictNames : v = "mixed" => failures["mixed"] = {}}

\* Operational errors of a step, and possibly one more from an event, a log
\* or an inspection the step could not write.
Records(kinds) ==
  \E lost \in BOOLEAN :
    /\ lost => "artifacts" \in Faults
    /\ errors' = errors \union kinds
                   \union (IF lost THEN {"operational"} ELSE {})

Stage(name, outcome) == stages' = [stages EXCEPT ![name] = outcome]

Control(outcome) == controls' = [controls EXCEPT ![machine] = outcome]

Establish(flags) == established' = established \union flags

ResetFrame == next' = 1 /\ marks' = {}

Interrupted(reason) == IF canceled THEN "INTERRUPTED" ELSE reason

-----------------------------------------------------------------------------
\* What a call can return, given what the environment is when it returns.

\* docker inspect of every container of a group: it fails once the context is
\* canceled, and otherwise shows the containers as they are.
InspectResults(group) ==
  IF canceled THEN {"error"}
  ELSE {r \in {"error"} : "docker" \in Faults}
         \union (group \ alive) \union {r \in {"ok"} : group \subseteq alive}

\* What makes the probe of a component that runs fail.  It may be slow to answer
\* one probe and answer the next, or not answer without its shared services.  The
\* HTTP and the command probe carry the context, so an interruption fails them;
\* the command probe is a docker exec, whose exit code may be that of Docker.
ProbeFails(i) ==
  \/ i \in Faults \/ shared # "healthy"
  \/ canceled /\ ReadinessType \in {"http", "command"}
  \/ ReadinessType = "command" /\ "docker" \in Faults

\* Manager.probe of every container of a group.  Only the command probe can
\* fail operationally.
ProbeResults(group) ==
  {r \in {"error"} : ReadinessType = "command" /\ "docker" \in Faults}
    \union (group \ alive) \union {r \in {"ok"} : group \subseteq alive}
    \union {i \in group : ProbeFails(i)}

\* docker stop and docker rm of one container, the context deciding.
StopResults ==
  IF canceled THEN {"error"}
  ELSE {"ok"} \union {r \in {"error"} : "docker" \in Faults}

\* Mutant of SharedHealthResults: the inspection does not carry the context.
SharedHealthWithoutContext ==
  {r \in {"error"} : shared # "healthy" \/ "docker" \in Faults}
    \union {r \in {"ok"} : shared = "healthy"}

\* sharedHealth: every shared service is inspected and must be healthy.
SharedHealthResults ==
  IF canceled THEN {"error"}
  ELSE {r \in {"error"} : shared # "healthy" \/ "docker" \in Faults}
         \union {r \in {"ok"} : shared = "healthy"}

allInstances == {base, candidate} \ {"none"}

\* A command of the project may exit nonzero or time out on its own account
\* or because what it talks to is gone or does not answer.
CommandFails ==
  \/ "command" \in Faults \/ shared # "healthy"
  \/ ~ (allInstances \subseteq alive) \/ allInstances \intersect Faults # {}

Runner == INSTANCE CallAnswers

\* What the runner answers: a command that runs when the context is canceled is
\* killed, and may also have just ended by itself.
CommandResults ==
  {a.reading : a \in Runner!Expected(CommandFails, "docker" \in Faults, canceled)}

\* A command that is a Docker command: an image build or a component hook.
\* It exits nonzero also when Docker fails, and an interruption between its
\* Docker calls is an error.
DockerCommandResults ==
  CommandResults \union {r \in {"fail"} : "docker" \in Faults}
    \union {r \in {"error"} : canceled}

\* Outcome of a hook or of a startup from the result of the call.
OutcomeOf(result) ==
  CASE result = "canceled" -> "INCOMPLETE"
    [] result = "error"    -> "ERROR"
    [] result = "fail"     -> "FAIL"

-----------------------------------------------------------------------------
Init ==
  /\ machine = "PREFLIGHT" /\ pc = "session"
  /\ canceled = FALSE /\ shared = "absent" /\ exists = {} /\ alive = {}
  /\ stray = FALSE
  /\ base = "none" /\ candidate = "none" /\ baseUsable = FALSE
  /\ next = 1 /\ marks = {}
  /\ established =
       {f \in {"CandidateOnlyCompleted"} : Hooks["CANDIDATE_ONLY"] = 0}
         \union {f \in {"RollbackHooksCompleted"} : Hooks["ROLLBACK"] = 0}
  /\ failures = [v \in VerdictNames |-> {}]
  /\ uncertainty = [v \in VerdictNames |-> {}]
  /\ errors = {}
  /\ stages = [s \in ExpectedStages |-> "none"]
  /\ controls = [c \in ControlStages |-> "SKIPPED"]
  /\ runErr = FALSE /\ cleanup = "none" /\ code = 0 /\ exit = NoExit

\* artifacts.NewSession.  When it fails Run returns the zero Summary and the
\* error, after a PreflightCleanup whose own error is dropped.
CreateSession ==
  /\ pc = "session"
  /\ \/ pc' = "prepare" /\ UNCHANGED runErr
     \/ "artifacts" \in Faults /\ pc' = "verify" /\ runErr' = TRUE
  /\ UNCHANGED <<machine, world, refs, baseUsable, frame, evidence, record,
                 cleanup, code, exit>>

\* The rest of Run before execute: the run's directories, its first events
\* and the resolved configuration.
Prepare ==
  /\ pc = "prepare"
  /\ \/ Enter("BUILD", "build") /\ Records({}) /\ UNCHANGED runErr
     \/ /\ "artifacts" \in Faults
        /\ Records({})
        /\ runErr' = TRUE /\ pc' = "report"
        /\ UNCHANGED machine
  /\ UNCHANGED <<world, refs, baseUsable, frame, established, failures,
                 uncertainty, record, cleanup, code, exit>>

\* buildImages: base images, then candidate images; the first that does not
\* build ends the run, and an interruption takes precedence over its result.
BuildImages ==
  /\ pc = "build"
  /\ \/ /\ ~ canceled
        /\ Records({}) /\ Stage("BUILD", "PASS")
        /\ Enter("SHARED_ENVIRONMENT", "shared")
        /\ UNCHANGED uncertainty
     \/ \E result \in DockerCommandResults \ {"pass"} :
          LET seen == IF canceled THEN "canceled" ELSE result
          IN  /\ Records(IF seen = "error" THEN {"operational"} ELSE {})
              /\ Stage("BUILD", OutcomeOf(seen))
              /\ AddUncertainty(VerdictNames,
                   {CASE seen = "canceled" -> "INTERRUPTED"
                      [] seen = "error"    -> "ORCHESTRATION_ERROR"
                      [] seen = "fail"     -> "BUILD_FAILED"})
              /\ pc' = "report" /\ UNCHANGED machine
  /\ UNCHANGED <<world, refs, baseUsable, frame, established, failures,
                 controls, final>>

\* docker compose fails, its file does, or a service does not come to be healthy.
SharedStartFails == canceled \/ Faults \intersect {"docker", "command", "shared"} # {}

\* startSharedEnvironment: docker compose up and the wait for health.
StartSharedEnvironment ==
  /\ pc = "shared"
  /\ \/ /\ ~ canceled
        /\ Records({}) /\ Stage("SHARED_ENVIRONMENT", "PASS")
        /\ shared' = "healthy"
        /\ Enter("BOOTSTRAP", "hooks")
        /\ UNCHANGED uncertainty
     \/ /\ SharedStartFails
        /\ Records(IF canceled THEN {} ELSE {"operational"})
        /\ Stage("SHARED_ENVIRONMENT",
                 IF canceled THEN "INCOMPLETE" ELSE "ERROR")
        /\ AddUncertainty(VerdictNames,
                          {Interrupted("SHARED_ENVIRONMENT_FAILED")})
        /\ shared' \in {"absent", "lost"}
        /\ pc' = "report" /\ UNCHANGED machine
  /\ UNCHANGED <<canceled, exists, alive, stray, refs, baseUsable, frame,
                 established, failures, controls, final>>

-----------------------------------------------------------------------------
\* Lifecycle hooks (runHooks).

HookStage == IF machine = "ROLLBACK" THEN "ROLLBACK_HOOKS" ELSE machine

\* What runLifecycle and runRollback make of hooks that did not complete.
SetupHooksFailed(result) ==
  /\ machine \in {"BOOTSTRAP", "TRANSITION"}
  /\ AddUncertainty(VerdictNames,
       {Interrupted(IF machine = "BOOTSTRAP" THEN "BOOTSTRAP_FAILED"
                                             ELSE "TRANSITION_HOOK_FAILED")})
  /\ pc' = "report"
  /\ UNCHANGED <<machine, failures>>

CandidateOnlyHooksFailed(result) ==
  /\ machine = "CANDIDATE_ONLY"
  /\ AddUncertainty({"rollback"}, {Interrupted("CANDIDATE_ONLY_HOOK_FAILED")})
  /\ \/ canceled /\ pc' = "report" /\ UNCHANGED machine
     \/ ~ canceled /\ Enter("CANDIDATE_TRAFFIC", "skipTraffic")
  /\ UNCHANGED failures

RollbackHooksFailed(result) ==
  /\ machine = "ROLLBACK"
  /\ AddFailure({v \in {"rollback"} : result = "fail"}, "ROLLBACK_HOOK_FAILED")
  /\ \/ /\ canceled
        /\ AddUncertainty({"rollback"}, {"INTERRUPTED"}) /\ pc' = "report"
     \/ /\ ~ canceled /\ failures'["rollback"] = {}
        /\ AddUncertainty({"rollback"}, {"COMMAND_LAUNCH_FAILED"})
        /\ pc' = "report"
     \/ /\ ~ canceled /\ failures'["rollback"] # {}
        /\ pc' = "start" /\ UNCHANGED uncertainty
  /\ UNCHANGED machine

HookFailed(result) ==
  /\ Records({k \in {"operational"} : result = "error"})
  /\ Stage(HookStage, OutcomeOf(result))
  /\ \/ SetupHooksFailed(result)
     \/ CandidateOnlyHooksFailed(result)
     \/ RollbackHooksFailed(result)
  /\ ResetFrame
  /\ UNCHANGED <<canceled, shared, exists, alive, refs, baseUsable, established,
                 controls, final>>

LaunchHook ==
  /\ pc = "hooks" /\ next <= Hooks[machine]
  /\ \/ canceled /\ HookFailed("canceled") /\ UNCHANGED stray
     \/ /\ ~ canceled /\ pc' = "hook"
        /\ UNCHANGED <<machine, world, refs, baseUsable, frame, evidence,
                       record, final>>

\* A component hook that times out or is canceled ends the docker start it
\* runs in, not the container.
HookEnds ==
  /\ pc = "hook"
  /\ \/ /\ \E result \in DockerCommandResults \ {"pass"} : HookFailed(result)
        /\ stray' \in {stray, TRUE}
     \/ /\ pc' = "hooks" /\ next' = next + 1
        /\ Records({})
        /\ UNCHANGED <<machine, world, refs, baseUsable, marks, established,
                       failures, uncertainty, record, final>>

\* All hooks of the stage passed.
HooksPass ==
  /\ pc = "hooks" /\ next > Hooks[machine]
  /\ Stage(HookStage, "PASS")
  /\ \/ /\ machine = "BOOTSTRAP"
        /\ Enter("BASE_STARTUP", "start") /\ Establish({})
     \/ /\ machine = "TRANSITION"
        /\ Establish({"TransitionPassed"})
        /\ Enter("BASE_AFTER_TRANSITION_CONTROL", "sharedHealth")
     \/ /\ machine = "CANDIDATE_ONLY"
        /\ pc' = "healthInspect" /\ Establish({}) /\ UNCHANGED machine
     \/ /\ machine = "ROLLBACK"
        /\ Establish({"RollbackHooksCompleted"})
        /\ pc' = "start" /\ UNCHANGED machine
  /\ Records({}) /\ ResetFrame
  /\ UNCHANGED <<world, refs, baseUsable, failures, uncertainty, controls, final>>

-----------------------------------------------------------------------------
\* Starting the components of a role (startRole and what its callers do).

Starting == CASE machine = "BASE_STARTUP"      -> "base"
              [] machine = "CANDIDATE_STARTUP" -> "candidate"
              [] machine = "ROLLBACK"          -> "fresh"

\* Mutant of Assign: every instance that starts is taken for the base.
AssignBase(instance) == base' = instance /\ UNCHANGED candidate

Assign(instance) ==
  IF machine = "CANDIDATE_STARTUP"
  THEN candidate' = instance /\ UNCHANGED base
  ELSE base' = instance /\ UNCHANGED candidate

\* startRole reports the failure of StartAll, then its caller draws the
\* consequence.  result is "error" for an operational failure and "fail" for
\* one of the component, in which WaitReady counts a canceled wait.
StartFailed(result) ==
  LET stage == IF machine = "ROLLBACK" THEN "BASE_RESTART" ELSE machine
      interruption == {r \in {"INTERRUPTED"} : canceled}
      against(vs, reason) ==
        uncertainty' = [v \in VerdictNames |->
                          uncertainty[v] \union interruption
                            \union (IF v \in vs THEN {reason} ELSE {})]
  IN  /\ Records({k \in {"operational"} : result = "error" /\ ~ canceled})
      /\ Stage(stage, IF canceled THEN "INCOMPLETE" ELSE OutcomeOf(result))
      /\ \/ /\ machine = "BASE_STARTUP"
            /\ against(VerdictNames, "BASE_STARTUP_FAILED")
            /\ UNCHANGED failures
         \/ /\ machine = "CANDIDATE_STARTUP"
            /\ against(NotFailed, "CANDIDATE_STARTUP_FAILED")
            /\ UNCHANGED failures
         \/ /\ machine = "ROLLBACK" /\ result = "error"
            /\ against({"rollback"}, "ORCHESTRATION_ERROR")
            /\ UNCHANGED failures
         \/ /\ machine = "ROLLBACK" /\ result = "fail"
            /\ against({}, "NONE")
            /\ AddFailure({"rollback"}, "BASE_RESTART_FAILED")
      /\ pc' = "report"
      /\ UNCHANGED <<machine, baseUsable, frame, established, controls, final>>

\* docker create, network connect, start and the inspection of the port.  A
\* create that is interrupted may leave a container StartAll does not return; a
\* component that exits before its port is read is an operational error.
LaunchFails(made, returned) ==
  /\ returned => made
  /\ canceled \/ "docker" \in Faults \/ (returned /\ Starting \in Faults)

LaunchRole ==
  /\ pc = "start"
  /\ \/ /\ ~ canceled
        /\ exists' = exists \union {Starting}
        /\ alive' = alive \union {Starting}
        /\ Assign(Starting)
        /\ pc' = "ready"
        /\ UNCHANGED <<machine, baseUsable, frame, evidence, record, final>>
     \/ /\ \E made, returned \in BOOLEAN :
             /\ LaunchFails(made, returned)
             /\ exists' = exists \union {i \in {Starting} : made}
             /\ Assign(IF returned THEN Starting ELSE "none")
        /\ StartFailed("error")
        /\ UNCHANGED alive
  /\ UNCHANGED <<canceled, shared, stray>>

\* How the wait may end without the component being ready.
WaitFailures ==
  {r \in {"error"} : canceled \/ "docker" \in Faults}
    \union {r \in {"fail"} : canceled \/ Starting \notin alive \/ ProbeFails(Starting)}

\* WaitReady: polls until the components are ready, one exits, Docker fails,
\* the deadline passes or the context is canceled between two polls.
AwaitReady ==
  /\ pc = "ready"
  /\ \/ /\ Starting \in alive
        /\ \/ /\ machine = "BASE_STARTUP"
              /\ Enter("BASELINE", "begin")
              /\ Stage("BASE_STARTUP", "PASS") /\ Establish({})
           \/ /\ machine = "CANDIDATE_STARTUP"
              /\ Enter("CANDIDATE_CONTROL", "begin")
              /\ Stage("CANDIDATE_STARTUP", "PASS")
              /\ Establish({"CandidateStarted"})
           \/ /\ machine = "ROLLBACK"
              /\ pc' = "begin" /\ UNCHANGED machine
              /\ Stage("BASE_RESTART", "PASS")
              /\ Establish({"FreshBaseStarted"})
        /\ Records({})
        /\ UNCHANGED <<baseUsable, frame, failures, uncertainty, controls, final>>
     \/ \E result \in WaitFailures : StartFailed(result)
  /\ UNCHANGED <<world, refs>>

-----------------------------------------------------------------------------
\* Running the scenarios of a stage (runScenarioStage).

Passed == "failed" \notin marks

OperationalOnly == "operational" \in marks /\ "project" \notin marks

\* Mutant of StageOutcome: the operational failure is looked at first.
StageOutcomeOperationalFirst ==
  IF "operational" \in marks THEN "ERROR"
  ELSE IF "project" \in marks THEN "FAIL"
  ELSE IF "incomplete" \in marks THEN "INCOMPLETE"
  ELSE "PASS"

StageOutcome ==
  IF "project" \in marks THEN "FAIL"
  ELSE IF "operational" \in marks THEN "ERROR"
  ELSE IF "incomplete" \in marks THEN "INCOMPLETE"
  ELSE "PASS"

\* executionOutcome: the outcome of a control.
ControlOutcome ==
  IF Passed THEN "PASS"
  ELSE IF OperationalOnly THEN "ERROR"
  ELSE IF "incomplete" \in marks /\ "project" \notin marks THEN "INCOMPLETE"
  ELSE "FAIL"

Mark(set) == marks' = marks \union set

\* The head of the loop: an interruption stops the stage.
NextScenario ==
  /\ pc = "begin"
  /\ \/ next > Workload[machine] /\ pc' = "ended" /\ UNCHANGED marks
     \/ /\ next <= Workload[machine] /\ canceled
        /\ Mark({"failed", "incomplete"}) /\ pc' = "ended"
     \/ /\ next <= Workload[machine] /\ ~ canceled
        /\ pc' = "stageHealth" /\ UNCHANGED marks
  /\ UNCHANGED <<machine, world, refs, baseUsable, next, evidence, record, final>>

\* Shared services are checked before every scenario.
StageSharedHealth ==
  /\ pc = "stageHealth"
  /\ \E result \in SharedHealthResults :
       \/ result = "ok" /\ pc' = "run" /\ UNCHANGED <<marks, errors>>
       \/ /\ result = "error" /\ pc' = "ended"
          /\ Mark({"failed", "operational"})
          /\ errors' = errors \union {"operational"}
  /\ UNCHANGED <<machine, world, refs, baseUsable, next, established, failures,
                 uncertainty, record, final>>

\* What RunScenario may come to: a log that cannot be written is an ERROR.
ScenarioResults == CommandResults \union {r \in {"error"} : "artifacts" \in Faults}

\* A step that could not be launched or logged is an ERROR; a lost event only
\* adds an operational error.
MayReturn(result, lost, began) ==
  /\ result \in ScenarioResults
  /\ lost => "artifacts" \in Faults
  /\ result \in {"pass", "fail"} => began

\* RunScenario and the classification of its outcome.  A mutating traffic
\* scenario counts as run once a step has an exit code.
RunScenario ==
  /\ pc = "run"
  /\ \E result \in ScenarioResults, lost, began \in BOOLEAN :
       /\ MayReturn(result, lost, began)
       /\ Mark({m \in {"failed"} : result # "pass"}
                 \union {m \in {"project"} : result = "fail"}
                 \union {m \in {"operational"} : lost \/ result = "error"}
                 \union {m \in {"incomplete"} : result = "canceled"})
       /\ errors' = errors
             \union {k \in {"operational"} : lost \/ result = "error"}
       /\ AddFailure({v \in Classification(machine) : result = "fail"},
                     StageReason(machine))
       /\ Establish({f \in {"CandidateMutationRan"} :
             began /\ machine = "CANDIDATE_TRAFFIC" /\ next \in Mutating})
       /\ pc' = IF result = "canceled" THEN "ended" ELSE "inspect"
  /\ UNCHANGED <<machine, world, refs, baseUsable, next, uncertainty, record, final>>

\* The check of every running component after a scenario found instance i
\* gone: direct evidence in a mixed or rollback stage, and against the
\* original base also in the candidate control.
StageLost(i) ==
  /\ Mark({"failed", "project"}) /\ Records({})
  /\ \/ /\ machine = "CANDIDATE_CONTROL" /\ i = "base"
        /\ AddFailure({"mixed"}, "BASE_LOST_READINESS")
     \/ /\ ~ (machine = "CANDIDATE_CONTROL" /\ i = "base")
        /\ AddFailure(Classification(machine), "REQUIRED_COMPONENT_EXITED")

StageCheckFails(result) ==
  /\ pc' = "ended" /\ UNCHANGED next
  /\ \/ /\ result = "error"
        /\ Mark({"failed", "operational"}) /\ Records({"operational"})
        /\ UNCHANGED failures
     \/ result \in Instances /\ StageLost(result)

StageInspect ==
  /\ pc = "inspect"
  /\ \E result \in InspectResults(allInstances) :
       \/ /\ result = "ok" /\ pc' = "probe"
          /\ UNCHANGED <<next, marks, failures, errors>>
       \/ result # "ok" /\ StageCheckFails(result)
  /\ UNCHANGED <<machine, world, refs, baseUsable, established, uncertainty,
                 record, final>>

\* Mutant of StageProbe: the loop stays at its scenario.
StageProbeWithoutAdvance ==
  /\ pc = "probe"
  /\ \E result \in ProbeResults(allInstances) :
       \/ /\ result = "ok" /\ pc' = "begin"
          /\ UNCHANGED <<next, marks, failures, errors>>
       \/ result # "ok" /\ StageCheckFails(result)
  /\ UNCHANGED <<machine, world, refs, baseUsable, established, uncertainty,
                 record, final>>

StageProbe ==
  /\ pc = "probe"
  /\ \E result \in ProbeResults(allInstances) :
       \/ /\ result = "ok" /\ pc' = "begin" /\ next' = next + 1
          /\ UNCHANGED <<marks, failures, errors>>
       \/ result # "ok" /\ StageCheckFails(result)
  /\ UNCHANGED <<machine, world, refs, baseUsable, established, uncertainty,
                 record, final>>

\* Mutant of Doubt: an operational failure of a stage doubts nothing.
DoubtOnlyInterruptions(ops, stops) ==
  uncertainty' = [v \in VerdictNames |-> uncertainty[v]
    \union {r \in {"INTERRUPTED"} : "incomplete" \in marks /\ v \in stops}]

\* What runLifecycle makes of a finished stage: OperationalOnly doubts the
\* verdicts of ops, an interruption those of stops.
Doubt(ops, stops) ==
  uncertainty' = [v \in VerdictNames |-> uncertainty[v]
    \union {r \in {"ORCHESTRATION_ERROR"} : OperationalOnly /\ v \in ops}
    \union {r \in {"INTERRUPTED"} : "incomplete" \in marks /\ v \in stops}]

BaselineEnds ==
  /\ pc = "ended" /\ machine = "BASELINE"
  /\ Stage("BASELINE", StageOutcome) /\ Records({}) /\ ResetFrame
  /\ Establish({f \in {"BaselinePassed"} : Passed})
  /\ \/ Passed /\ Enter("TRANSITION", "hooks") /\ UNCHANGED uncertainty
     \/ /\ ~ Passed /\ pc' = "report" /\ UNCHANGED machine
        /\ AddUncertainty(VerdictNames,
             {IF "incomplete" \in marks THEN "INTERRUPTED" ELSE "BASELINE_FAILED"})
  /\ UNCHANGED <<world, refs, baseUsable, failures, controls, final>>

-----------------------------------------------------------------------------
\* The original base between transition and coexistence (checkBase and the
\* two base controls).

BaseCheckError ==
  /\ Records({"operational"}) /\ Control("ERROR")
  /\ AddUncertainty(IF machine = "BASE_AFTER_TRANSITION_CONTROL"
                    THEN VerdictNames ELSE NotFailed, {"ORCHESTRATION_ERROR"})
  /\ pc' = "report"
  /\ UNCHANGED <<machine, baseUsable, failures>>

BaseNotUsable ==
  /\ Records({}) /\ Control("FAIL")
  /\ AddFailure({"mixed"}, "BASE_LOST_READINESS")
  /\ baseUsable' = FALSE
  /\ \/ /\ machine = "BASE_AFTER_TRANSITION_CONTROL"
        /\ Enter("CANDIDATE_STARTUP", "start")
     \/ /\ machine = "BASE_WITH_CANDIDATE_CONTROL"
        /\ Enter("COEXISTENCE", "coexist")
  /\ UNCHANGED uncertainty

\* Mutant of BaseUsable: the second answer replaces the first.
BaseUsableAgain ==
  /\ baseUsable' = TRUE /\ pc' = "begin"
  /\ UNCHANGED <<machine, failures, uncertainty, errors, controls>>

\* The base passed the check.  A base that was unusable after transition
\* stays so whatever the second check says.
BaseUsable ==
  \/ /\ machine = "BASE_AFTER_TRANSITION_CONTROL" \/ baseUsable
     /\ baseUsable' = TRUE /\ pc' = "begin"
     /\ UNCHANGED <<machine, failures, uncertainty, errors, controls>>
  \/ machine = "BASE_WITH_CANDIDATE_CONTROL" /\ ~ baseUsable /\ BaseNotUsable

CheckBaseShared ==
  /\ pc = "sharedHealth"
  /\ \E result \in SharedHealthResults :
       \/ /\ result = "ok" /\ pc' = "baseInspect"
          /\ UNCHANGED <<machine, baseUsable, failures, uncertainty, errors, controls>>
       \/ result = "error" /\ BaseCheckError
  /\ UNCHANGED <<world, refs, frame, established, stages, final>>

CheckBaseInspect ==
  /\ pc = "baseInspect"
  /\ \E result \in InspectResults({base}) :
       \/ /\ result = "ok" /\ pc' = "baseProbe"
          /\ UNCHANGED <<machine, baseUsable, failures, uncertainty, errors, controls>>
       \/ result = "error" /\ BaseCheckError
       \/ result = base /\ BaseNotUsable
  /\ UNCHANGED <<world, refs, frame, established, stages, final>>

CheckBaseProbe ==
  /\ pc = "baseProbe"
  /\ \E result \in ProbeResults({base}) :
       \/ result = "ok" /\ BaseUsable
       \/ result = "error" /\ BaseCheckError
       \/ result = base /\ BaseNotUsable
  /\ UNCHANGED <<world, refs, frame, established, stages, final>>

BaseControlEnds ==
  /\ pc = "ended" /\ machine = "BASE_AFTER_TRANSITION_CONTROL"
  /\ Stage(machine, StageOutcome) /\ Control(ControlOutcome)
  /\ Records({}) /\ ResetFrame
  /\ Establish({f \in {"BaseAfterTransitionPassed"} : Passed})
  /\ Doubt({"mixed"}, VerdictNames)
  /\ \/ "incomplete" \in marks /\ pc' = "report" /\ UNCHANGED machine
     \/ "incomplete" \notin marks /\ Enter("CANDIDATE_STARTUP", "start")
  /\ UNCHANGED <<world, refs, baseUsable, failures, final>>

CandidateControlEnds ==
  /\ pc = "ended" /\ machine = "CANDIDATE_CONTROL"
  /\ Stage(machine, StageOutcome) /\ Control(ControlOutcome)
  /\ Records({}) /\ ResetFrame
  /\ Establish({f \in {"CandidateControlPassed"} : Passed})
  /\ \/ /\ Passed /\ Enter("BASE_WITH_CANDIDATE_CONTROL", "sharedHealth")
        /\ UNCHANGED uncertainty
     \/ /\ ~ Passed /\ pc' = "report" /\ UNCHANGED machine
        /\ AddUncertainty(NotFailed,
             {CASE "incomplete" \in marks -> "INTERRUPTED"
                [] "incomplete" \notin marks /\ OperationalOnly -> "ORCHESTRATION_ERROR"
                [] OTHER -> "CANDIDATE_CONTROL_FAILED"})
  /\ UNCHANGED <<world, refs, baseUsable, failures, final>>

MixedControlEnds ==
  /\ pc = "ended" /\ machine = "BASE_WITH_CANDIDATE_CONTROL"
  /\ Stage(machine, StageOutcome) /\ Control(ControlOutcome)
  /\ Records({}) /\ ResetFrame
  /\ Establish({f \in {"BaseWithCandidatePassed"} : Passed})
  /\ Doubt({"mixed"}, NotFailed)
  /\ \/ "incomplete" \in marks /\ pc' = "report" /\ UNCHANGED machine
     \/ "incomplete" \notin marks /\ Enter("COEXISTENCE", "coexist")
  /\ UNCHANGED <<world, refs, baseUsable, failures, final>>

\* coexistenceEligible: all three controls hold.
CoexistenceEligible ==
  /\ baseUsable
  /\ {"BaseAfterTransitionPassed", "CandidateControlPassed",
      "BaseWithCandidatePassed"} \subseteq established

BeginCoexistence ==
  /\ pc = "coexist"
  /\ pc' = IF CoexistenceEligible THEN "begin" ELSE "stopBase"
  /\ UNCHANGED <<machine, world, refs, baseUsable, frame, evidence, record, final>>

CoexistenceEnds ==
  /\ pc = "ended" /\ machine = "COEXISTENCE"
  /\ Stage(machine, StageOutcome) /\ ResetFrame
  /\ Establish({f \in {"CoexistenceCompleted"} : Passed})
  /\ Doubt({"mixed"}, NotFailed)
  /\ pc' = IF "incomplete" \in marks THEN "report" ELSE "stopBase"
  /\ UNCHANGED <<machine, world, refs, baseUsable, failures, errors, controls, final>>

-----------------------------------------------------------------------------
\* Cutover, candidate traffic and rollback.

\* Mutant of Stop: docker stop without docker rm.
StopWithoutRemove(instance, result) ==
  alive' = alive \ {instance} /\ UNCHANGED exists

\* StopAll on the container of a role; an error leaves what it leaves.
Stop(instance, result) ==
  \/ /\ result = "ok"
     /\ exists' = exists \ {instance} /\ alive' = alive \ {instance}
  \/ /\ result = "error"
     /\ exists' \in {exists, exists \ {instance}}
     /\ alive' \in {alive, alive \ {instance}} /\ alive' \subseteq exists'

\* The only path to the candidate-only phase: an original base that could not
\* be stopped ends the run.
StopBase ==
  /\ pc = "stopBase"
  /\ \E result \in StopResults :
       /\ Stop(base, result)
       /\ \/ /\ result = "ok" /\ base' = "none"
             /\ Records({}) /\ UNCHANGED uncertainty
             /\ Enter("CANDIDATE_ONLY", "hooks")
          \/ /\ result = "error"
             /\ Records({"operational"})
             /\ AddUncertainty({"rollback"}, {"ORCHESTRATION_ERROR"})
             /\ pc' = "report" /\ UNCHANGED <<machine, base>>
  /\ UNCHANGED <<canceled, shared, stray, candidate, baseUsable, frame,
                 established, failures, record, final>>

\* The candidate must be healthy before its traffic.
CandidateHealth(results, onward) ==
  /\ \E result \in results :
       \/ result = "ok" /\ onward
       \/ /\ result # "ok"
          /\ Records({k \in {"operational"} : result = "error"})
          /\ AddUncertainty({"rollback"},
               {IF result = "error" THEN "ORCHESTRATION_ERROR"
                                    ELSE "REQUIRED_COMPONENT_EXITED"})
          /\ Enter("CANDIDATE_TRAFFIC", "skipTraffic")
          /\ UNCHANGED established
  /\ UNCHANGED <<world, refs, baseUsable, frame, failures, record, final>>

CandidateInspect ==
  /\ pc = "healthInspect"
  /\ CandidateHealth(InspectResults({candidate}),
       /\ pc' = "healthProbe"
       /\ UNCHANGED <<machine, established, errors, uncertainty>>)

CandidateProbe ==
  /\ pc = "healthProbe"
  /\ CandidateHealth(ProbeResults({candidate}),
       /\ Enter("CANDIDATE_TRAFFIC", "begin")
       /\ Establish({"CandidateOnlyCompleted"})
       /\ Records({}) /\ UNCHANGED uncertainty)

\* Traffic is skipped after candidate-only hooks that failed or a candidate
\* that is not healthy; rollback is diagnosed all the same.
SkipTraffic ==
  /\ pc = "skipTraffic"
  /\ Stage("CANDIDATE_TRAFFIC", "SKIPPED") /\ Records({})
  /\ Enter("ROLLBACK", "stopCandidate")
  /\ UNCHANGED <<world, refs, baseUsable, frame, established, failures,
                 uncertainty, controls, final>>

TrafficEnds ==
  /\ pc = "ended" /\ machine = "CANDIDATE_TRAFFIC"
  /\ Stage(machine, StageOutcome) /\ Records({}) /\ ResetFrame
  /\ Establish({f \in {"CandidateTrafficCompleted"} : Passed})
  /\ \/ /\ "incomplete" \in marks
        /\ AddUncertainty({"rollback"}, {"INTERRUPTED"})
        /\ pc' = "report" /\ UNCHANGED machine
     \/ /\ "incomplete" \notin marks
        /\ AddUncertainty({"rollback"},
             {r \in {"CANDIDATE_TRAFFIC_FAILED", "CANDIDATE_TRAFFIC_INCOMPLETE"} :
                ~ Passed}
               \union {r \in {"NO_CANDIDATE_MUTATION_SCENARIO_RAN"} :
                         "CandidateMutationRan" \notin established})
        /\ Enter("ROLLBACK", "stopCandidate")
  /\ UNCHANGED <<world, refs, baseUsable, failures, controls, final>>

\* runRollback starts by stopping the candidate.
StopCandidate ==
  /\ pc = "stopCandidate"
  /\ \E result \in StopResults :
       /\ Stop(candidate, result)
       /\ \/ /\ result = "ok" /\ candidate' = "none" /\ pc' = "hooks"
             /\ Records({}) /\ UNCHANGED uncertainty
          \/ /\ result = "error" /\ pc' = "report"
             /\ Records({"operational"})
             /\ AddUncertainty({"rollback"}, {"ORCHESTRATION_ERROR"})
             /\ UNCHANGED candidate
  /\ UNCHANGED <<machine, canceled, shared, stray, base, baseUsable, frame,
                 established, failures, record, final>>

RollbackEnds ==
  /\ pc = "ended" /\ machine = "ROLLBACK"
  /\ Stage(machine, StageOutcome) /\ Records({}) /\ ResetFrame
  /\ Establish({f \in {"RollbackChecksCompleted"} : Passed})
  /\ Doubt(IF "incomplete" \in marks THEN {} ELSE {"rollback"}, {"rollback"})
  /\ pc' = "report"
  /\ UNCHANGED <<machine, world, refs, baseUsable, failures, controls, final>>

\* execute recovers a panic anywhere in runLifecycle.
Recover ==
  /\ "panic" \in Faults /\ pc \in ExecutePoints
  /\ errors' = errors \union {"internal"}
  /\ runErr' = TRUE /\ pc' = "report"
  /\ UNCHANGED <<machine, world, refs, baseUsable, frame, established, failures,
                 uncertainty, record, cleanup, code, exit>>

-----------------------------------------------------------------------------
\* finish, which no longer looks at the context after its first statements.

\* An error of the run, or an interruption execute returns, leaves both
\* verdicts doubtful; stages nothing was recorded for are skipped.
Report ==
  /\ pc = "report"
  /\ Advance("REPORTING") /\ pc' = "clean"
  /\ runErr' = (runErr \/ canceled)
  /\ AddUncertainty({v \in VerdictNames : runErr'},
                    {Interrupted("ORCHESTRATION_ERROR")})
  /\ Records({k \in {"operational"} : runErr'})
  /\ stages' = [s \in ExpectedStages |->
                  IF stages[s] = "none" THEN "SKIPPED" ELSE stages[s]]
  /\ UNCHANGED <<world, refs, baseUsable, frame, established, failures,
                 controls, cleanup, code, exit>>

\* What a cleanup may end with and leave.  The sweep over the run's label is
\* the last resource of the registry, so one that reports no error left no
\* container; one after a panic, which kept what was made from the registry,
\* may meet a container that runs on an image it removes.
MayLeave(verdict, containers, services, hook) ==
  /\ verdict = "PASS" => containers = {} /\ services = "absent" /\ ~ hook
  /\ verdict = "ERROR" => "docker" \in Faults \/ "internal" \in errors

\* Retention is decided before cleanup.
Clean ==
  /\ pc = "clean"
  /\ Advance("CLEANUP") /\ pc' = "publish"
  /\ \/ /\ KeepOnFailure /\ Overall(established, failures, errors) # "PASS"
        /\ cleanup' = "SKIPPED"
        /\ UNCHANGED <<shared, exists, alive, stray, errors>>
     \/ /\ ~ (KeepOnFailure /\ Overall(established, failures, errors) # "PASS")
        /\ cleanup' \in {"PASS", "ERROR"}
        /\ exists' \in SUBSET exists /\ alive' = alive \intersect exists'
        /\ shared' \in {shared, "absent"} /\ stray' \in {stray, FALSE}
        /\ MayLeave(cleanup', exists', shared', stray')
        /\ errors' = errors \union {k \in {"cleanup"} : cleanup' = "ERROR"}
  /\ UNCHANGED <<canceled, refs, baseUsable, frame, established, failures,
                 uncertainty, record, runErr, code, exit>>

\* The last events and the artifacts.  Every failure is an operational error
\* that the summary is refreshed with; one that makes artifactFailure return
\* also keeps the machine out of COMPLETE and is returned as an error.
Publish ==
  /\ pc = "publish"
  /\ \E broken \in BOOLEAN :
       /\ broken => "artifacts" \in Faults
       /\ Records({k \in {"operational"} : broken})
       /\ runErr' = (runErr \/ broken)
       /\ \/ broken /\ UNCHANGED machine
          \/ ~ broken /\ Advance("COMPLETE")
  /\ code' = ExitCode(established, failures, errors')
  /\ pc' = "verify"
  /\ UNCHANGED <<world, refs, baseUsable, frame, established, failures,
                 uncertainty, record, cleanup, exit>>

\* app.Verify: an error beside a summary that says 0 is an internal error.
Verify ==
  /\ pc = "verify"
  /\ exit' = IF code = 0 /\ runErr THEN 24 ELSE code
  /\ pc' = "exited"
  /\ UNCHANGED <<machine, world, refs, baseUsable, frame, evidence, record,
                 runErr, cleanup, code>>

-----------------------------------------------------------------------------
\* The environment.

Signal ==
  /\ "signal" \in Faults /\ ~ canceled /\ pc # "exited"
  /\ canceled' = TRUE
  /\ UNCHANGED <<machine, pc, shared, exists, alive, stray, refs, baseUsable, frame,
                 evidence, record, final>>

SharedLost ==
  /\ "shared" \in Faults /\ shared = "healthy" /\ pc \in ExecutePoints
  /\ shared' = "lost"
  /\ UNCHANGED <<machine, pc, canceled, exists, alive, stray, refs, baseUsable, frame,
                 evidence, record, final>>

ComponentLost ==
  /\ pc \in ExecutePoints
  /\ \E i \in alive \intersect Faults : alive' = alive \ {i}
  /\ UNCHANGED <<machine, pc, canceled, shared, exists, stray, refs, baseUsable,
                 frame, evidence, record, final>>

\* The container of an abandoned hook comes to its end.
StrayEnds ==
  /\ stray /\ pc # "exited"
  /\ stray' = FALSE
  /\ UNCHANGED <<machine, pc, canceled, shared, exists, alive, refs, baseUsable,
                 frame, evidence, record, final>>

-----------------------------------------------------------------------------
Startup == CreateSession \/ Prepare \/ BuildImages \/ StartSharedEnvironment

HookStep == LaunchHook \/ HookEnds \/ HooksPass

RoleStep == LaunchRole \/ AwaitReady

ScenarioStep == NextScenario \/ StageSharedHealth \/ RunScenario
                  \/ StageInspect \/ StageProbe

BaseStep == CheckBaseShared \/ CheckBaseInspect \/ CheckBaseProbe

StageEnds == BaselineEnds \/ BaseControlEnds \/ CandidateControlEnds
               \/ MixedControlEnds \/ CoexistenceEnds \/ TrafficEnds \/ RollbackEnds

CutoverStep == BeginCoexistence \/ StopBase \/ CandidateInspect
                 \/ CandidateProbe \/ SkipTraffic \/ StopCandidate

FinishStep == Report \/ Clean \/ Publish \/ Verify

Program == \/ Startup \/ HookStep \/ RoleStep \/ ScenarioStep \/ BaseStep
           \/ StageEnds \/ CutoverStep \/ FinishStep

Environment == Recover \/ Signal \/ SharedLost \/ ComponentLost \/ StrayEnds

Terminated == pc = "exited" /\ UNCHANGED vars

Next == Program \/ Environment \/ Terminated

Spec == Init /\ [][Next]_vars

\* The goroutine keeps running: every call it makes has a timeout of its own
\* or the deadline of the cleanup context.
FairSpec == Spec /\ WF_vars(Program)
=============================================================================
