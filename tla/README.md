# Backline in TLA+

Backline checks whether two releases of an application can share one
environment: it builds a base and a candidate revision, runs both over one set of
shared services, walks through a transition, coexistence, cutover and rollback,
and turns what happened into two verdicts (mixed-version and rollback
compatibility) and a process exit code. The program is a Go command line; one
goroutine drives git, Docker and the project's own commands as child processes.

This directory models the parts of Backline that decide something or own
something, model-checks them with TLC and proves their main properties with
TLAPS. `PROJECT.json` maps every definition to the lines it translates.

## The system

| Part | State it keeps | Operations | Modules |
| --- | --- | --- | --- |
| `cmd/backline`, `cli`, `app` | the signal context, the exit code | verify, validate, doctor; recovery of panics | `Preflight`, `Lifecycle` |
| `preflight`, `gitops` | temporary directory, two worktrees and their created flags, kind of error | `Prepare`, the cleanup closure, `CreateWorktree`, `RemoveWorktree` | `Preflight` |
| `orchestrator` | lifecycle state, evidence, stages, controls, the references to running components | `Run`, `execute`, one function per phase, `finish` | `Lifecycle`, `VerdictContract` |
| `components`, `dockerops` | the instances of a role; containers in Docker | `StartAll`, `WaitReady`, `Check`, `StopAll` | `Components`, `RoleContract`; one step each in `Lifecycle` |
| `workloads` | the results and logs of a stage | `RunScenario`, `runStep`, `RemapBaseline`, `GroupScenarios` | `Workloads`, `StageContract`; one step in `Lifecycle` |
| `compose` | the override file; containers, networks, volumes, images of a project | `Start`, `waitHealthy`, `Stop`, the registered removal | `SharedContract`, `Compose` |
| `hooks` | nothing of its own; a container | run a hook | inside `Lifecycle` and `Cleanup` |
| `verdicts`, `model` | none (a function of the evidence) | `Classify` | `Verdicts` |
| `cleanup` | the registry of owned resources, the result | `Add`, `Cleanup` | `Cleanup`, `CleanupContract` |
| `artifacts`, `reporting` | documents, event file | `atomicWrite`, summary, report, JUnit, copies | `Publication` |
| `process` | one child process, its group or job, pipes, captured output | `Run`, `Output` | `ProcessRunner` |
| `config` | none | defaults, `Validate`, `ValidateComposeJSON` | `Configuration`, `Compose` |
| `redact` | none | redact | not modelled |

How they interact. `app.Verify` calls `Prepare`, which makes the worktrees and
returns a cleanup closure; the orchestrator takes both. Its phases call the
component, hook, workload, Compose and Docker packages, all of which go through
the process runner with the run's context. Evidence is one struct that every phase
writes to and `Classify` reads; resources go into one registry that `finish`
empties. `finish` then calls the preflight closure, classifies again, and writes
the documents; a failing write changes the exit code it has just written.

What is hard here, and where each module puts it:

- A signal cancels the context between, or inside, any two calls. What the code
  read before a call may be stale after it. Cleanup has contexts of its own.
  (`Lifecycle.Signal`, `Preflight.Signal`, `ProcessRunner.Cancel`)
- A call fails after it had its effect: a container nobody has registered, a
  worktree entry git keeps. (`Cleanup.Fails`, `Preflight.CreateWorktreeFails`)
- The shared services or a component die at any moment; a hook's container
  outlives the docker command that was given up. (`Lifecycle.Environment`)
- A panic in `execute` is recovered into a report and a cleanup, one in `Prepare`
  into its own closure. (`Lifecycle.Recover`, `Cleanup.Panics`, `Preflight.Panic`)
- The end of a process, its timeout, an interruption, its descendants and the
  output pipe race. (`ProcessRunner`)
- A role has several components, which exit, flap or are slow one by one while the
  loop looks at another; a start or a stop fails half way. (`Components`)
- A scenario is a loop over repeats and steps, each of which may fail, be interrupted
  or lose its log; a list may be that of another stage with its targets rewritten.
  (`Workloads`, `Configuration`)
- Two runs of one repository share a Docker host, whose answers may come after the
  client that asked was killed. (`Compose`)
- Documents are written one by one, any write can fail, the process can be killed,
  and later errors must reach earlier documents. (`Publication`)

What makes each part correct:

- *Lifecycle*: a verdict fails only on attributable evidence, and on none of a base
  that was found lost before; it is never revised,
  decides the exit code whatever follows, and is visible in the record; exit code 0
  is earned by every stage; commands run against exactly the deployment of their
  stage; an interruption stops launches; no run goes back to a place it has been at,
  and every run reaches cleanup; each part is called when it may be and is answered
  whatever it returns.
- *Components*: a component starts once those before it answer and it is attached
  to every network; what a failed call leaves is accounted for; every call returns;
  the lifecycle may take the role for one container.
- *Workloads* and *Configuration*: what the validator accepts has something to run
  everywhere and aims only at what runs there; what a scenario answers with was run;
  both directions of coexistence are shown; logs and test cases are told apart.
- *Compose*: two runs never meet; every container, network and volume of the file is
  labelled and registered; ready
  means usable; what is found gone left nothing; the start returns; the lifecycle may
  take the shared environment for its own, whatever the other runs do.
- *Cleanup*: PASS means nothing owned is left, ERROR names what is left, a kept run
  is untouched and named.
- *Process runner*: the tree is gone after a termination, output is whole, only
  the command's own exit or timeout counts as its result, the call returns.
- *Publication*: exit code 0 means all documents are there; any other code is
  explained by the report and the summary; no document is torn or lost.
- *Preflight*: the run gets both worktrees; what a command leaves is explained by
  what it reports; success leaves nothing; an interrupted command starts no run.

## The modules

- `Verdicts`: `verdicts.Classify` as operators: the chain of evidence flags of each
  verdict, its status, `Overall` and `ExitCode`. Stateless; `Lifecycle` extends it.
- `Lifecycle`: `Orchestrator.Run` to the value `app.Verify` returns. `machine` is
  `StateMachine.current`, `pc` the place inside that state; a place stands before
  every call that can outlast a change of the environment. `established`,
  `failures`, `uncertainty` and `errors` are the fields of `verdicts.Evidence`
  (booleans as a set of flags); `stages` and `controls` the recorded outcomes;
  `base`, `candidate` the execution's references; `exists`, `alive`, `stray` what
  Docker knows. One role is one container and one scenario one step, which
  `RoleContract` and `StageContract` justify. The actions are grouped as in the code:
  `Startup`, `HookStep`, `RoleStep`, `ScenarioStep`, `BaseStep`, `StageEnds`,
  `CutoverStep`, `FinishStep`; `Environment` is everything else.
- `VerdictContract`: the abstract verification a pipeline counts on: two undecided
  verdicts, each decided at most once, the mixed one never after the rollback's,
  and one exit code that is 10 exactly when a verdict has failed and 0 only when both
  passed. `LifecycleProps!Contract` maps it to the evidence of `Lifecycle`.
- `LifecycleProps`: the properties. `LifecycleParts`: the points at which a run calls
  its parts, against their contracts: `Role`, `Scenarios` and `Services` are
  `RoleContract`, `StageContract` and `SharedContract` with the faults of the run seen
  from the part, `Cleanups` is `CleanupContract` with what the run still owns.
  `LifecycleInvariant`: the inductive invariants. `LifecycleProofs`: the
  proofs.
- `ProcessRunner`: one `Runner.Run`. `pc` follows `Run`; `Copy` and `WaitReturns` are
  the goroutines of `os/exec`; `Spawn`, `Ends`, `Write` are the command and its
  descendants, which may leave the process group or drop the pipe. The platform is
  chosen at the start: process group and SIGTERM/SIGKILL, or job object. `Bounded`
  says whether the caller's context has a deadline of its own (the contexts of the
  cleanups do, those of hooks, steps and builds do not): a call that begins behind it
  counts as canceled. `LosesOutput` is a read of the pipe that fails, which
  `cmd.Wait` reports in place of an exit with 0.
  `CallContract`: what one call promises to its caller; `ProcessRunner!Contract` is the
  refinement. `CallAnswers`: the answers a caller has to be prepared for, from which
  `Lifecycle` (`CommandResults`) and `Workloads` (`CommandFinds`) take those of their
  commands.
- `CleanupContract`: the abstract promise of a run about what it owns (remove,
  name, keep), and that it fails only for trouble of its own or after a panic. `Cleanup`: how a run creates and registers resources and what
  `Registry.Cleanup` and the preflight closure make of them. `Cleanup!Contract` is
  the refinement: `left` is what exists of the registered resources, `named` what
  the remaining list covers, `status` the result's status.
- `Publication`: `finish` from the last events to the exit code, and
  `artifactFailure`. `pc` is the statement, `phase` the system call of
  `atomicWrite`. A document is the set of publication errors it lists, which,
  with the outcome of the run before it, decides the exit code it shows.
- `Preflight`: `Prepare`, the closure and the three commands. Consecutive checks
  with one kind of error are one stage. Between "prepared" and the cleanup runs the
  `Lifecycle`; in `Cleanup` the two worktrees and the directory are the one
  resource `worktree`.

- `RoleContract`: what the lifecycle counts on when it starts, checks and stops a
  role: which call may follow which, which faults a failure and an operational error
  take, and what exists afterwards. `Components`: the same calls down to the docker
  commands, for any number of components. `pc` is the statement, `at` the component
  the loop is at, `held` the length of the returned instances, `state`, `attached`
  and `ready` what Docker and the components are like; `wasReady` and `dead` are
  history. `Components!Contract` is the refinement: both see the same `calls`.
- `Configuration`: the record of a parsed document, `applyNestedDefaults`
  (`WithDefaults`), the rules of `Validate` (`Accepts` and the `Valid...` operators),
  `RemapBaseline` and `GroupScenarios`. What the rules look at in a text is a member
  of a set `defects`.
- `StageContract`: what `runScenarioStage` may count on from scenario to scenario.
  `Workloads`: a document is parsed, a stage chosen, and its scenarios run with
  `at`, `repeat` and `step` as the three loops; `results` are the step results,
  `files` says whose output a log path holds, `Cases` is what
  `reporting.groupScenarios` makes of the results.
- `SharedContract`: what the orchestrator of each run counts on of its shared
  environment: when it may fail to start, when something of it may come or go, and
  what its cleanup may conclude.
  `Compose`: two runs of one Compose file at the same time. A file is a record of
  services, volumes and networks; `Accepts` is `ValidateComposeJSON`. `run[r]` is the
  program of a run, `objects` what Docker has with its project and its label; `up`
  and `down` go object by object and may end between two. `Compose!Contract` is the
  refinement: `phase` is where `pc` is, `present` are the runs of which Docker has
  something it made in time. `ComposeProofs`: the proofs.

`MC*.tla` and `*.cfg` give the constants values. A definition named like another
with a suffix, commented "Mutant", is a plausible bug used to test that a property
can fail; no specification uses it.

## The runs

| Run | Instance | Shows |
| --- | --- | --- |
| `lifecycle` | one scenario and one hook per stage, HTTP readiness, `--keep-on-failure`; signal, Docker, commands, services, candidate and panics fail | isolation, grounded, visible failures, explained doubt, earned passes, no launches after a signal, no step back (`Onward`), every part called within its contract and answered whatever it returns (`PartsFit`), and `Lifecycle` implements `VerdictContract` (`VerdictsFinal`) |
| `artifacts` | two traffic scenarios of which the second mutates, no hooks, readiness command, nothing kept; artifacts, commands, panic and signal | under fairness every run that has a session reaches a cleanup decision and exits |
| `components` | three components with HTTP, Docker-health and command readiness, one network, three calls; Docker, exits, slowness and a signal | starts in turn, nothing left unaccounted for, no dead component passes a check, every call returns, and `Components` implements `RoleContract` |
| `workloads` | 103 documents on both sides of every rule of the validator, every stage of the 26 it accepts; launches, commands, artifacts and a signal | what the lifecycle assumes of a configuration, targets that run, evidence that was run, both directions, logs and test cases kept apart, and `Workloads` implements `StageContract` |
| `compose` | two runs of each of 21 Compose files, of which the policy accepts 7, without a fault, of a file with one service with each fault, and one run of two services with each and with all faults | runs that never meet, labels and registration of all that is made, a usable environment, nothing left of what is found gone, and `Compose` implements `SharedContract`; under fairness the start returns |
| `runner` | both platforms, two descendants, capture limit 1 of 2 units of output; a caller with a deadline of its own; launch, attach, terminate and wait fail | `TreeGone`, `OutputComplete`, that `ProcessRunner` implements `CallContract`, and that the call returns unless a descendant escaped with the pipe |
| `cleanup` | two containers, three images (one built by Compose), every fault | `Cleanup` implements `CleanupContract`; the result passes as long as the cleanup's own calls do |
| `publication` | every subset of requested documents, every earlier content, every outcome, every fault and a kill | `PassIsPublished`, `ExitIsReported`, `OmitsOnlyLater`, `NeverLost` |
| `preflight` | three commands, every checkout, every fault, a signal | `SuccessLeavesNothing`, `LeftoversExplained`, `PreparedIsSound` |

Three runs show a disagreement between the code and the repository's documents;
each expects TLC to find its property violated:

| Run | What happens | Against |
| --- | --- | --- |
| `interrupted_probe` | a signal during the HTTP probe of a healthy base is recorded as BASE_LOST_READINESS: FAIL, exit 10 | PRD.md:2070 |
| `stray_hook` | a hook that times out is given up, its container runs into the later stages | PRD.md:990 |
| `exit_at_start` | a component that exits between `docker start` and the look at its port is an operational error, a moment later it would be a failure of the release | PRD.md:1476 |

Disagreements met while modelling that have no run of their own (the models follow
the code):

- `docker start --attach` refused by the daemon, or by the entrypoint of the image,
  counts as the rollback hook failing (`lifecycle.go:145`; PRD.md:2038).
- A descendant in a session of its own that holds the output pipe keeps `Runner.Run`
  past its timeout (`process/runner.go:104`; PRD.md:2134); `CallReturns` has this
  case.
- The manual command printed for the containers of a run is built with
  `docker container ls --quiet`, without the `--all` of `ListIDs`, and misses one
  that does not run (`lifecycle.go:476`; PRD.md:1989).
- After a failed write, `artifactFailure` rewrites the report and the summary and not
  the copy of `--json-output`: an older PASS may stay there beside exit code 23
  (`lifecycle.go:683`; PRD.md:1797). `ExitIsReported` speaks of the run directory.
- Scenarios of one stage whose names come to one file name share their logs, and the
  log of a failed step may be replaced by that of a later scenario
  (`workloads/executor.go:152`; PRD.md:2690): validation wants names to differ as they
  are written and within one list, sanitizing lowers their case, and the coexistence
  stage runs three lists. Scenarios of one name also become one test case of
  `junit.xml` (`reporting.go:240`; PRD.md:1927). `RecordsKept` has both cases.
- A scenario interrupted between two steps is a passed test case of what it had run;
  a run with only INCONCLUSIVE verdicts has only skipped ones (`reporting.go:240`).
- A step whose log cannot be written after its command ran does not count as begun
  (`workloads/executor.go:87`): the evidence that traffic mutated is undercounted,
  never overcounted.
- `WaitReady` says what a timeout was by its last probe only: one `docker inspect` that
  fails at the end makes an operational error of a component that never answered
  (`components/manager.go:148`).
- A volume or network whose written name equals the one generated for the project at
  preflight passes the validation, against PRD.md:855; it is then the same for every
  run (`config/compose.go:176`). `RunsAreApart` has the hypothesis `Unnamed`.
- A health check with `test: NONE` passes the validation and never comes to be
  healthy; the run fails after its timeout.
- An interrupted wait for the restarted base is a failed restart, a direct rollback
  failure (`components/manager.go:160`; PRD.md:2070).
- A shared service lost after the health check at `lifecycle.go:194` makes the
  scenario that follows a direct failure (PRD.md:2061).
- Rollback is diagnosed, and can fail, when no candidate traffic changed any state
  (`orchestrator.go:313`; PRD.md:1587).
- A run whose artifact directory cannot be made exits 24, not 23, and drops the
  error of the preflight closure (`orchestrator.go:91`).
- `docker exec` refused by the daemon is a failed readiness command
  (`components/manager.go:237`; PRD.md:2048).
- A panic between `docker compose up` and the registration of the project leaves
  its networks and volumes with a cleanup PASS (`orchestrator.go:448`; PRD.md:2077).
  `Cleanup!Contract` therefore speaks of registered resources, and
  `Cleanup.Unregistered` says which are excluded.
- `git worktree add` killed after it made its entry leaves the entry, since
  `baseCreated` is still false (`preflight.go:239`; PRD.md:2407);
  `LeftoversExplained` has this case.
- An operational error of preflight exits 22 (`app.go:101`), while
  docs/verdicts-and-reason-codes.md:16 gives Git and filesystem failures 23; an
  interrupted preflight exits 21 or 22 with the error of the command it hit.
- The error of `Resolve("HEAD")` skips the clean-checkout rule of PRD.md:809
  (`preflight.go:195`); `PreparedIsSound` has this case.

## Bounds

No configuration has a state constraint. Two counters are capped in a guard: the
output of a command in `ProcessRunner` by `MaxOutput` (`Write`), the calls of the
orchestrator in `Components` by `MaxCalls` (`BeginStart`, `BeginCheck`, `BeginStop`).
What is bounded besides is the instance:

- One scenario per stage and two for traffic: the loop over scenarios carries only
  its index, its marks and the evidence, all of which two iterations already put in
  every combination (first passes or fails, second mutates or not).
- One hook per stage or none: a second hook meets the same state as the first,
  except `marks`, which one failing hook ends.
- One container per role in `Lifecycle`, as `RoleContract` allows; `PartsFit` also holds
  with TCP, command and Docker-health readiness, of which the run takes HTTP. Three components in
  `Components`: one before, at and behind the loop; three calls are a start with any
  two of a check, a stop and the second start.
- The documents of `MCWorkloads` depart from an accepted one in one rule each, on both
  sides of every number; lists have up to two scenarios, of up to two steps and two
  repeats (a hundred repeats, the limit, are run once). `MaxRepeat` and `MaxSeconds` are the
  code's own.
- Two runs, two services, one network and one volume in `Compose`: the smallest in
  which runs meet, one service waits for another and an object outlives a container.
  Faults are met one kind at a time by two runs and all at once by one.
- Two descendants: one to escape and one to stay, in both orders of events. Two
  units of output against a limit of one: below, at and above the limit.
- Two containers with images of their own and a service image: a container that
  holds an image back, and one that does not.
- `Preflight` and `Publication` are not bounded at all; their data are finite.

The proofs have none of these bounds.

## Fairness

Only liveness uses it. `Lifecycle.FairSpec` is weak fairness of `Program`: the one
goroutine runs on, since each call it makes has a timeout of its own or the
deadline of the cleanup context. That the timeouts work is what `ProcessRunner`
looks at: `CallReturns` needs weak fairness of `Run`, of its two goroutines and of
the deadline, not of the command, and has the exception of a descendant that left
with the output pipe; `AlwaysCleansUp` holds but for such a descendant.
`Components.FairSpec` and `Compose.FairSpec` are weak fairness of the program and of
the clock that ends its wait (a context with a timeout), and of a readiness or a
health check that no fault keeps back; where one is kept back, the clock alone makes
`CallsReturn` and `StartReturns` hold. Nothing else is assumed of the
environment: faults may happen or not. Deadlock is checked in every run but
`preflight`, where the command has ended; the other models end in a stuttering step
of their final state.

## What is proved

All theorems hold for every value of the constants that the named assumptions
allow; the assumptions say what configuration validation guarantees (at least one
scenario per stage, a mutating one among the traffic) or fix a type.

- *Lifecycle.* `LifecycleProofs` proves `TypeOK`, then that `Inv` is inductive, and
  derives `Isolation`, `FailGrounded`, `FailureWins`,
  `VerdictsFinal` and `InterruptStopsLaunches`. None of these is inductive alone:
  `FailGrounded` needs to know which evidence a phase was entered with
  (`Attributable`) and how a run that found the base lost keeps away from the stages
  that would ask it again (`LeftAlone`), `Isolation` which containers each place expects and that the
  references name them (`Present`). `VerdictsFinal` is `Spec => Contract!Spec`, the
  refinement of `VerdictContract`: a step keeps a decided verdict because no phase
  adds a failure to one it has already let pass (`Timely`); it changes one verdict
  at most because the evidence of the mixed verdict is closed when the rollback
  begins (`MixedSettled`, `OneVerdict`); and the last step returns the code of
  that evidence because the summary's code is never stale (`Coded`). All need
  the lifecycle state of every place (`Reach`). A second invariant, `FullInv`, adds what the record owes to
  the evidence. For `DoubtExplained`: which part of each chain a place stands for, or
  else a failure or a recorded doubt (`Answerable`), which needs what the marks of a
  stage stand for (`Scored`) and that an unusable base has failed (`UsableOK`). For
  `PassIsEarned`: each flag was set beside the stages and controls that passed for it
  (`Credited`), a cleanup says what it did (`Swept`), and the two places that choose
  the exit code saw all of it (`Paid`). For `FailureVisible`: a failure is shown or
  will be by the stage that is running, and no later record takes its place
  (`Visible`).

  `OnwardHolds` and `CountedHolds` are the safety half of termination, for any
  workload: every step of the program goes to a later lifecycle state, a later section
  of it, the next hook or scenario, or a later point of the present one, and the loops
  stay within the configured number; steps beside it only take away. A run has finitely
  many steps, so that what is left to fairness is that it takes them.
  `CleanupDecidedHolds`: no exit without a decision on cleanup, but for a run that never
  got its artifact session.
- *The parts together.* `PartsFitHolds` discharges what `Lifecycle` takes its parts for.
  At every call a run makes, for every value the contract of the callee allows to come
  back, `Lifecycle` has a step; and it calls no part when the contract does not let it: a
  role is started when it is not there, checked and stopped when it is, and never
  checked as an empty list. It needs, beside `Inv`, that the references name existing
  containers (`Referred`) and that a restarted base is the fresh one (`Restarted`). With
  `PromiseKept` of `Components`, `Workloads` and `Compose` and `CleanupKeepsItsPromise`,
  which prove that the parts keep these contracts, the theorems about `Lifecycle` are
  about a run with the real loops over components, steps, services and registered
  resources in it. The answers of a command need no such argument: they are
  `CallAnswers!Expected` on both sides, and `AnswersAreExpected` proves that the runner
  gives no other. `ExitIsClassifiedHolds` does the same for the end: whatever evidence
  stands behind `outcome`, the documents and events of `Publication` end with the exit
  code `Lifecycle.Publish` computes in one step. The contracts are as strong as this
  needs: a component that exits before its port is read makes a start fail only with
  that component returned, and an interruption fails a check only through a probe
  that carries the context. A component named in `Faults` may also miss one probe and
  answer the next, and fail a command that talks to it while it runs.
- *Process runner.* The invariant relates the result to the way `Run` took: who
  was reached by the signal or job, what the pipe still holds or has lost, and which of exit,
  timeout and cancellation came first. From it follow `TreeGone`
  and `OutputComplete`. `RunnerKeepsItsPromise` is `Spec => Contract!Spec`: a command is
  launched at most once and left alone until its context is over; the answer comes when
  it has ended, passes only an exit with 0 nobody forced, and fails only a nonzero exit
  nobody forced or a timeout. It needs that an error, and output that was lost, has a
  fault behind it (`Faulted`).
  `AnswersAreExpected` is the same seen by a caller that knows only the faults and its
  context. `CallIsBoundedHolds` and `OnlyUnreachedHoldHolds` are the safety half of
  `CallReturns`, for any descendants and any output: each step of `Run` and its
  goroutines uses up one of at most `MaxOutput + 7`, and once the tree was terminated
  only a process out of reach can keep the call waiting.
- *Cleanup.* `CleanupKeepsItsPromise` is `Spec => Contract!Spec`: the initial states
  map to initial states and each step to a step of the contract or a stutter. The
  invariant says that every existing labelled resource is covered by an entry, that
  the entries behind the cursor are processed or remaining, and that nothing
  appears once the cleanup runs. The contract also has why a cleanup fails: `troubled`
  is mapped to the history of what went wrong in it, and a calm run, without trouble
  and without a panic, is shown to pass (`CalmInvariant`). A panic may
  keep a container from the registry; the label sweep that still finds it comes after
  the removal of its image, which Docker refuses, so that such a run may end in ERROR
  without a fault of its cleanup. `Lifecycle.MayLeave` has this case. `CalmCleanupPasses` is `CleanUnlessCleanupFails`: an
  image never goes before its containers (`Ordered`), so that no entry the loop comes
  to is held back (`Unblocked`).
- *Publication.* For each statement, what the documents written before it show;
  then `PassIsPublished`, `ExitIsReported`, `OmitsOnlyLater`, `NeverLost`.
- *Preflight.* For each stage, which worktrees git has entries for and which flags
  are set (`Followed`), what of them a passed removal left (`Unwound`) and what the
  exit code was computed from (`Exited`); then the three properties of the run.
  `ClosureFitsHolds` is what `Lifecycle` and `Cleanup` take the closure for: of a
  prepared run it leaves nothing or returns an error, and an error has a removal of
  its own behind it.
- *Components.* For every number of components: what the loop has made so far and
  what of it is held (`Counted`, `Placed`), what has answered (`Answered`), what a stop
  went past (`Left`), which fault an error goes back to (`Blamed`) and which call
  follows which (`Sequenced`). From it follow `StartedInTurn`, `LeftIsAccounted`,
  `DeadAreFound` (with a second invariant, over what a check has seen) and
  `PromiseKept`, that a role behaves as `RoleContract` says. `CallsGoOnHolds` and
  `CallsHaveStepsHolds` are the safety half of `CallsReturn`: a call takes up its
  components one after the other and the points of one in order, it may only poll
  again until the deadline, and it is never without a next step.
- *Workloads.* That an accepted configuration has sound plans is proved from the rules
  of `Configuration` alone, through the defaults and the reuse of the baseline
  (`GroupSound`, `TargetsFit`); the loops stay inside their plan and every return has
  the evidence for its outcome (`WInv`). A second invariant (`OInv`) orders the
  results as the loops do and says what a returned scenario ran. From them follow
  `WorkloadGuaranteed`, `TargetsRun`, `EvidenceIsRun`, `BothDirections`, `RecordsKept`
  and `PromiseKept`, that a stage behaves as `StageContract` says. The first two
  are what the assumptions of `Lifecycle` on its workload stand for.

- *Compose.* For any number of runs of any file. An object is known by the place it
  takes, and the names of volumes and networks are what runs could share: the
  invariant says for every place whose object can be there (`ObjectsOK`), then for
  each run what its program has registered (`ControlOK`), what a pass has seen of the
  services (`PassOK`), that its networks are there (`NetworksOK`) and which kinds a
  verification has still to look for (`GoneOK`). A step of one run keeps these of
  itself by cases, and those of another run because nothing of that run changes
  (`OthersKept`). From it follow `MadeIsKnown`, `ReadyIsUsable`, `GoneIsGone` and, with
  `OwnPlace`, `RunsAreApart`. `PromiseKept`, that the runs implement `SharedContract`,
  needs two more parts: `CauseOK`, that a service exited or a deadline passed only
  for a fault or a check that cannot pass and that a coming up has seen to all that
  is its run's own, and `LateOK`. With them a failed start has a cause of its own
  (`FailureIsCaused`): an object in its way is not another run's (`NoConflict`). The
  steps are then mapped one by one. The hypothesis `Unnamed` of this refinement, and of the
  networks of `ReadyIsUsable`, is needed: a file that writes out a name Compose would give
  at preflight passes the validation, and its runs then share the object. Assumed is
  that a normalized file defines the resources it uses, which docker compose checks,
  and that a run ID is not one of the words "none" and "global" of the model.
  `StartsGoOnHolds` is the safety half of `StartReturns`: a Start comes nearer to its
  end, or begins another poll, with each of its steps, and no step of another run takes
  it back.

The type invariant of every module with a state is among these theorems; the runs
spend their time on the other properties.

Only model-checked: liveness (`AlwaysCleansUp`, `CallReturns`, `CallsReturn`,
`StartReturns`), which is out of reach for the provers, as is everything about
ENABLED; and the violations. Of each of the four the part that is not about fairness is
proved for every value of the constants (`OnwardHolds` with `CountedHolds`,
`CallIsBoundedHolds` with `OnlyUnreachedHoldHolds`, `CallsGoOnHolds` with
`CallsHaveStepsHolds`, `StartsGoOnHolds`): no program goes back or in circles, but for
the polls of a wait, and a poll behind the deadline ends the wait. What is left to
fairness, and to TLC, is that the programs and the clock go on.

## Not modelled

- The decoding of YAML, the containment of paths, environment files, redaction, flag
  parsing, process environments: functions on text without state. `Configuration` and
  `Compose` have their verdict as a member of `defects`, `unsafe` or `escapes`.
- Endpoints, image identities and the environment a component, hook or step is given.
- Layout of reports and JUnit XML, events other than whether they could be written,
  limits of log files.
- Process identifiers used again by the system; a docker command that exits 0 when it
  is terminated; in `Cleanup`, a Docker daemon that creates a resource after the call
  for it was given up, which is `late` in `Compose`.
- More than one hook container at a time, and what a hook does to the services.
- A panic in `finish` before `registry.Cleanup` (`lifecycle.go:542-570`): nothing
  recovers it but `cli.Run` (`cli.go:60`), which exits with 24, and the cleanup is
  skipped. The models recover the panics `execute` recovers. The same holds for a
  panic between the return of `Prepare` and `execute`.
- The anonymous volumes of an image (its `VOLUME` instructions). They are no objects of
  `Compose` and carry no label of the run; `docker compose down --volumes` and the
  removal of a container take them away with their container.
- The rollout demo, the site, the schemas and the tests of the CI files.

## Plan

Done, in this order: `Verdicts`, `VerdictContract` and `Lifecycle` with their properties and proofs,
`ProcessRunner`, `CleanupContract` and `Cleanup`, `Publication`, `Preflight`;
`RoleContract` and `Components`, `Configuration`, `StageContract` and `Workloads` with
their proofs, `SharedContract` and `Compose` with theirs, and `LifecycleParts`, which
joins these three to `Lifecycle`.

Next: the redirects of committed symlinks in `gitops`, as operators checked over
small trees.
