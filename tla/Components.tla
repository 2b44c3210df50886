----------------------------- MODULE Components -----------------------------
(***************************************************************************)
(* internal/components: StartAll, WaitReady, Check and StopAll for one     *)
(* role, down to the docker commands.  The components of a role are known  *)
(* by their place in the configuration.  A role that was stopped may be    *)
(* started again, under the same container names, as the base is for the   *)
(* rollback.                                                               *)
(*                                                                         *)
(* The orchestrator is external: it may make any call that runLifecycle    *)
(* and runRollback can make next.                                          *)
(***************************************************************************)
EXTENDS Integers, Sequences, FiniteSets

CONSTANTS
  Count,      \* the number of components
  Readiness,  \* component |-> the type of its readiness
  Ports,      \* the components with an internal port
  Networks,   \* the number of networks of the shared environment
  FaultSets,  \* the sets of kinds of faults a run may meet
  MaxCalls    \* bound on the calls of the orchestrator

\* "docker" is a docker command that fails, "exit" a component that exits by
\* itself, "slow" one that is not ready in time or loses its readiness.
FaultKinds == {"docker", "exit", "slow", "signal"}

Indexes == 1 .. Count

ASSUME CountAssumption == Count \in Nat \ {0} /\ Networks \in Nat /\ MaxCalls \in Nat
ASSUME ReadinessAssumption ==
  Readiness \in [Indexes -> {"http", "tcp", "docker-health", "command"}]
ASSUME PortsAssumption ==
  \* validateReadiness
  {i \in Indexes : Readiness[i] \in {"http", "tcp"}} \subseteq Ports /\ Ports \subseteq Indexes
ASSUME FaultsAssumption == FaultSets \subseteq SUBSET FaultKinds

VARIABLES
  faults,     \* the kinds of faults this run meets
  pc,         \* the point of the program
  at,         \* the component the loop is at
  held,       \* len(instances): the first ones of the role
  last,       \* the last error of a probe in WaitReady
  expired,    \* the deadline of WaitReady has passed
  refused,    \* failures: the components StopAll met an error at
  canceled,   \* ctx.Err() # nil
  state,      \* component |-> the state of its container in Docker
  attached,   \* component |-> the networks its container is connected to
  ready,      \* the components that answer
  healthy,    \* the Health.Status of the last inspection
  wasReady,   \* the components this StartAll has seen ready
  dead,       \* the components that had exited when this Check began
  calls       \* what the calls returned

world == <<faults, canceled>>
docker == <<state, attached, ready>>
wait == <<last, expired, healthy>>
ghosts == <<wasReady, dead>>

vars == <<world, pc, at, held, wait, refused, docker, ghosts, calls>>

Started == {i \in Indexes : state[i] \in {"running", "exited"}}

Present == {i \in Indexes : state[i] # "none"}

Init ==
  /\ faults \in FaultSets /\ canceled = FALSE
  /\ pc = "idle" /\ at = 1 /\ held = 0
  /\ last = "none" /\ expired = FALSE /\ healthy = FALSE /\ refused = {}
  /\ state = [i \in Indexes |-> "none"]
  /\ attached = [i \in Indexes |-> 0]
  /\ ready = {} /\ wasReady = {} /\ dead = {} /\ calls = <<>>

\* A docker command may fail, and does when the context is canceled.
DockerFails == canceled \/ "docker" \in faults

\* A call returns; an error of StartAll or StopAll ends the run.
Return(op, result) ==
  /\ pc' = IF op # "check" /\ result # "ok" THEN "over" ELSE "idle"
  /\ calls' = Append(calls, [op |-> op, result |-> result,
                             held |-> held' # 0,
                             exists |-> \E i \in Indexes : state'[i] # "none"])

-----------------------------------------------------------------------------
\* StartAll.

BeginStart ==
  /\ pc = "idle" /\ held = 0 /\ Len(calls) < MaxCalls
  /\ pc' = "create" /\ at' = 1 /\ wasReady' = {}
  /\ UNCHANGED <<world, held, wait, refused, docker, dead, calls>>

\* Create.  A name that is taken and an interruption make docker create fail,
\* the latter maybe after the container was made.
CreateContainer ==
  /\ pc = "create"
  /\ \/ /\ ~ canceled /\ state[at] = "none"
        /\ state' = [state EXCEPT ![at] = "created"]
        /\ attached' = [attached EXCEPT ![at] = 0]
        /\ held' = at
        /\ pc' = "connect" /\ UNCHANGED calls
     \/ /\ DockerFails \/ state[at] # "none"
        /\ state' \in {state, [state EXCEPT ![at] = IF @ = "none" THEN "created" ELSE @]}
        /\ UNCHANGED <<attached, held>>
        /\ Return("start", "operational")
  /\ UNCHANGED <<world, at, wait, refused, ready, ghosts>>

\* Mutant of Connected: the last network is taken for connected.
AllButOne == attached[at] + 1 >= Networks

Connected == attached[at] = Networks

\* ConnectNetwork, once for every network.
ConnectNetwork ==
  /\ pc = "connect"
  /\ \/ Connected /\ pc' = "start" /\ UNCHANGED <<attached, calls, state, held>>
     \/ /\ ~ Connected /\ ~ canceled
        /\ attached' = [attached EXCEPT ![at] = @ + 1]
        /\ UNCHANGED <<pc, calls, state, held>>
     \/ /\ ~ Connected /\ DockerFails
        /\ attached' \in {attached, [attached EXCEPT ![at] = @ + 1]}
        /\ UNCHANGED <<state, held>>
        /\ Return("start", "operational")
  /\ UNCHANGED <<world, at, wait, refused, ready, ghosts>>

\* Start.
StartContainer ==
  /\ pc = "start"
  /\ UNCHANGED <<world, at, held, wait, refused, attached, ready, ghosts>>
  /\ \/ /\ ~ canceled
        /\ state' = [state EXCEPT ![at] = "running"]
        /\ pc' = IF at \in Ports THEN "endpoint" ELSE "deadline"
        /\ UNCHANGED calls
     \/ /\ DockerFails
        /\ state' \in {state, [state EXCEPT ![at] = "running"]}
        /\ Return("start", "operational")

\* HostEndpoint: the mapping of the port is gone when the container is.
HostEndpoint ==
  /\ pc = "endpoint"
  /\ UNCHANGED <<world, at, held, wait, refused, docker, ghosts>>
  /\ \/ ~ canceled /\ state[at] = "running" /\ pc' = "deadline" /\ UNCHANGED calls
     \/ (DockerFails \/ state[at] = "exited") /\ Return("start", "operational")

\* The deadline of WaitReady is set.
BeginWait ==
  /\ pc = "deadline"
  /\ pc' = "poll" /\ last' = "none" /\ expired' = FALSE
  /\ UNCHANGED <<world, at, held, healthy, refused, docker, ghosts, calls>>

\* Mutant of Poll: the deadline is not looked at.
PollForever ==
  /\ pc = "poll"
  /\ UNCHANGED <<world, at, held, last, expired, refused, docker, ghosts>>
  /\ \/ DockerFails /\ Return("start", "operational") /\ UNCHANGED healthy
     \/ /\ ~ canceled /\ state[at] = "exited"
        /\ Return("start", "failure") /\ UNCHANGED healthy
     \/ /\ ~ canceled /\ state[at] = "running"
        /\ pc' = "probe" /\ healthy' = (at \in ready) /\ UNCHANGED calls

\* Inspect in WaitReady.  A deadline that has passed ends the wait with the
\* error of the last probe in its own.
Poll ==
  /\ pc = "poll"
  /\ UNCHANGED <<world, at, held, last, expired, refused, docker, ghosts>>
  /\ \/ /\ expired
        /\ Return("start", IF last = "operational" THEN "operational" ELSE "failure")
        /\ UNCHANGED healthy
     \/ /\ ~ expired /\ DockerFails
        /\ Return("start", "operational") /\ UNCHANGED healthy
     \/ /\ ~ expired /\ ~ canceled /\ state[at] = "exited"
        /\ Return("start", "failure") /\ UNCHANGED healthy
     \/ /\ ~ expired /\ ~ canceled /\ state[at] = "running"
        /\ pc' = "probe" /\ healthy' = (at \in ready) /\ UNCHANGED calls

Answers == at \in ready /\ state[at] = "running"

\* Mutant of ProbeResults: the health of the container is not looked at.
RunningResults ==
  IF Readiness[at] = "docker-health" THEN {"ready"}
  ELSE {IF Answers THEN "ready" ELSE "failure"}

\* probe.  The health is that of the inspection, http and the command carry
\* the context, and only an exec that cannot be run is operational.
ProbeResults ==
  IF Readiness[at] = "docker-health"
  THEN {IF healthy THEN "ready" ELSE "failure"}
  ELSE {r \in {"ready"} : Answers}
         \union {r \in {"failure"} :
                   \/ ~ Answers
                   \/ canceled /\ Readiness[at] \in {"http", "command"}
                   \/ Readiness[at] = "command" /\ "docker" \in faults}
         \union {r \in {"operational"} :
                   Readiness[at] = "command" /\ "docker" \in faults}

Probe ==
  /\ pc = "probe"
  /\ UNCHANGED <<world, held, expired, healthy, refused, docker, ghosts>>
  /\ \E result \in ProbeResults :
       \/ /\ result = "ready" /\ at < Count
          /\ at' = at + 1 /\ pc' = "create"
          /\ UNCHANGED <<last, calls>>
       \/ /\ result = "ready" /\ at = Count
          /\ Return("start", "ok") /\ UNCHANGED <<at, last>>
       \/ /\ result # "ready"
          /\ last' = result /\ pc' = "wait" /\ UNCHANGED <<at, calls>>

\* The select at the end of the loop: an interruption is no operational error.
Wait ==
  /\ pc = "wait"
  /\ UNCHANGED <<world, at, held, wait, refused, docker, ghosts>>
  /\ \/ pc' = "poll" /\ UNCHANGED calls
     \/ canceled /\ Return("start", "failure")

-----------------------------------------------------------------------------
\* Check.

BeginCheck ==
  /\ pc = "idle" /\ held # 0 /\ Len(calls) < MaxCalls
  /\ pc' = "inspect" /\ at' = 1
  /\ dead' = {i \in Indexes : state[i] = "exited"}
  /\ UNCHANGED <<world, held, wait, refused, docker, wasReady, calls>>

Inspect ==
  /\ pc = "inspect"
  /\ UNCHANGED <<world, at, held, last, expired, refused, docker, ghosts>>
  /\ \/ DockerFails /\ Return("check", "operational") /\ UNCHANGED healthy
     \/ /\ ~ canceled /\ state[at] = "exited"
        /\ Return("check", "failure") /\ UNCHANGED healthy
     \/ /\ ~ canceled /\ state[at] = "running"
        /\ pc' = "check" /\ healthy' = (at \in ready) /\ UNCHANGED calls

\* Mutant of Checked: the last component is left out.
CheckedEarly == at >= held - 1

\* Mutant of Checked: the component after the last one is looked for.
CheckedLate == at > held

Checked == at = held

CheckProbe ==
  /\ pc = "check"
  /\ UNCHANGED <<world, held, wait, refused, docker, ghosts>>
  /\ \E result \in ProbeResults :
       \/ result = "ready" /\ Checked /\ Return("check", "ok") /\ UNCHANGED at
       \/ /\ result = "ready" /\ ~ Checked
          /\ at' = at + 1 /\ pc' = "inspect" /\ UNCHANGED calls
       \/ result # "ready" /\ Return("check", result) /\ UNCHANGED at

-----------------------------------------------------------------------------
\* StopAll.

\* Mutant of BeginStop: the role's instances are forgotten before they stop.
ForgetThenStop ==
  /\ pc = "idle" /\ held # 0 /\ Len(calls) < MaxCalls
  /\ pc' = "stop" /\ at' = held /\ refused' = {} /\ held' = 0
  /\ UNCHANGED <<world, wait, docker, ghosts, calls>>

BeginStop ==
  /\ pc = "idle" /\ held # 0 /\ Len(calls) < MaxCalls
  /\ pc' = "stop" /\ at' = held /\ refused' = {}
  /\ UNCHANGED <<world, held, wait, docker, ghosts, calls>>

\* docker stop.  That a container is not running is no error.
StopContainer ==
  /\ pc = "stop" /\ pc' = "remove"
  /\ LET stopped == [state EXCEPT ![at] = "exited"]
     IN  \/ ~ canceled /\ state' = stopped /\ UNCHANGED refused
         \/ /\ DockerFails /\ state' \in {state, stopped}
            /\ refused' = refused \union {at}
  /\ ready' = {i \in ready : state'[i] = "running"}
  /\ UNCHANGED <<world, at, held, wait, attached, ghosts, calls>>

\* Mutant of Onward: the first error ends the loop.
OnwardUnlessRefused ==
  IF at > 1 /\ refused' = {} THEN at' = at - 1 /\ pc' = "stop" /\ UNCHANGED <<held, calls>>
  ELSE /\ held' = IF refused' = {} THEN 0 ELSE held
       /\ Return("stop", IF refused' = {} THEN "ok" ELSE "operational")
       /\ UNCHANGED at

\* Mutant of Onward: only the last error counts.
OnwardByLast ==
  IF at > 1 THEN at' = at - 1 /\ pc' = "stop" /\ UNCHANGED <<held, calls>>
  ELSE /\ held' = IF 1 \notin refused' THEN 0 ELSE held
       /\ Return("stop", IF 1 \notin refused' THEN "ok" ELSE "operational")
       /\ UNCHANGED at

\* The loop of StopAll goes on after an error; what it met is its result, and
\* the orchestrator forgets the instances when there was none.
Onward ==
  IF at > 1 THEN at' = at - 1 /\ pc' = "stop" /\ UNCHANGED <<held, calls>>
  ELSE /\ held' = IF refused' = {} THEN 0 ELSE held
       /\ Return("stop", IF refused' = {} THEN "ok" ELSE "operational")
       /\ UNCHANGED at

\* RemoveContainer, by force and with its volumes.
RemoveContainer ==
  /\ pc = "remove"
  /\ LET removed == [state EXCEPT ![at] = "none"]
     IN  \/ ~ canceled /\ state' = removed /\ UNCHANGED refused
         \/ /\ DockerFails /\ state' \in {state, removed}
            /\ refused' = refused \union {at}
  /\ ready' = {i \in ready : state'[i] = "running"}
  /\ Onward
  /\ UNCHANGED <<world, wait, attached, ghosts>>

-----------------------------------------------------------------------------
\* The environment.

Program ==
  \/ BeginStart \/ CreateContainer \/ ConnectNetwork \/ StartContainer
  \/ HostEndpoint \/ BeginWait \/ Poll \/ Probe \/ Wait
  \/ BeginCheck \/ Inspect \/ CheckProbe
  \/ BeginStop \/ StopContainer \/ RemoveContainer

Signal ==
  /\ "signal" \in faults /\ ~ canceled /\ pc # "over"
  /\ canceled' = TRUE
  /\ UNCHANGED <<faults, pc, at, held, wait, refused, docker, ghosts, calls>>

\* A component that runs comes to answer.
Answer(i) ==
  /\ state[i] = "running" /\ i \notin ready
  /\ ready' = ready \union {i} /\ wasReady' = wasReady \union {i}
  /\ UNCHANGED <<world, pc, at, held, wait, refused, state, attached, dead, calls>>

LosesReadiness ==
  /\ "slow" \in faults /\ pc # "over"
  /\ \E i \in ready : ready' = ready \ {i}
  /\ UNCHANGED <<world, pc, at, held, wait, refused, state, attached, ghosts, calls>>

Exits ==
  /\ "exit" \in faults /\ pc # "over"
  /\ \E i \in Indexes :
       /\ state[i] = "running"
       /\ state' = [state EXCEPT ![i] = "exited"] /\ ready' = ready \ {i}
  /\ UNCHANGED <<world, pc, at, held, wait, refused, attached, ghosts, calls>>

\* The deadline passes before a component that is slow, or whose probe Docker
\* fails to run, has answered.
Expire ==
  /\ pc \in {"poll", "probe", "wait"} /\ ~ expired
  /\ \/ "slow" \in faults
     \/ Readiness[at] = "command" /\ "docker" \in faults
  /\ expired' = TRUE
  /\ UNCHANGED <<world, pc, at, held, last, healthy, refused, docker, ghosts, calls>>

Environment == Signal \/ (\E i \in Indexes : Answer(i)) \/ LosesReadiness \/ Exits \/ Expire

Terminated ==
  /\ pc = "over" \/ (pc = "idle" /\ Len(calls) = MaxCalls)
  /\ UNCHANGED vars

Next == Program \/ Environment \/ Terminated

Spec == Init /\ [][Next]_vars

\* The goroutine runs on and the clock too, and a component whose readiness no
\* fault keeps back comes to answer.
FairSpec ==
  /\ Spec /\ WF_vars(Program) /\ WF_vars(Expire)
  /\ \A i \in Indexes : WF_vars(Answer(i))

-----------------------------------------------------------------------------
\* Properties.

\* Every variable holds a value the code could have stored in it.
TypeOK ==
  /\ faults \in FaultSets /\ canceled \in BOOLEAN
  /\ pc \in {"idle", "create", "connect", "start", "endpoint", "deadline", "poll",
             "probe", "wait", "inspect", "check", "stop", "remove", "over"}
  /\ at \in Indexes /\ held \in 0 .. Count
  /\ last \in {"none", "operational", "failure"}
  /\ expired \in BOOLEAN /\ healthy \in BOOLEAN /\ refused \subseteq Indexes
  /\ state \in [Indexes -> {"none", "created", "running", "exited"}]
  /\ attached \in [Indexes -> 0 .. Networks]
  /\ ready \subseteq Indexes /\ wasReady \subseteq Indexes /\ dead \subseteq Indexes
  /\ calls \in Seq([op : {"start", "check", "stop"},
                    result : {"ok", "operational", "failure"},
                    held : BOOLEAN, exists : BOOLEAN])

\* A component that needs another is listed after it: StartAll starts none
\* before all that stand before it have answered.
InOrder == \A j \in Started : \A i \in Indexes : i < j => i \in wasReady

\* No component runs before it can be found on, and can find what it needs on,
\* every network of the shared environment.
AttachedWhenStarted == \A i \in Started : attached[i] = Networks

\* A component starts in its turn, into surroundings that are complete.
StartedInTurn == InOrder /\ AttachedWhenStarted

\* A container that StartAll made and does not return was never started, and is
\* left by a run that is over: only the sweep by label finds it.
UnknownNeverRan ==
  \A i \in Present : i > held => state[i] = "created" /\ pc = "over"

\* StopAll passes by no component: what is left of one it went past is in its
\* error.
LeftIsRefused ==
  /\ pc \in {"stop", "remove"} => \A i \in Present : i > at => i \in refused
  /\ pc = "over" /\ calls[Len(calls)].op = "stop" => Present \subseteq refused

\* Whatever fails, no container of the role is left that neither an error names
\* nor the end of the run explains.
LeftIsAccounted == UnknownNeverRan /\ LeftIsRefused

\* A Check that passes has found no component that had exited before it began.
DeadAreFound ==
  pc = "idle" /\ calls # <<>> =>
    (calls[Len(calls)].op = "check" /\ calls[Len(calls)].result = "ok" => dead = {})

\* Under the deadline of WaitReady every call returns, whatever a component or
\* Docker does.
CallsReturn == pc \notin {"idle", "over"} ~> pc \in {"idle", "over"}

\* The orchestrator may take a role for one container, as Lifecycle does.
Contract == INSTANCE RoleContract
  WITH Executes <- \E i \in Indexes : Readiness[i] = "command",
       Carries <- \E i \in Indexes : Readiness[i] \in {"http", "command"}

Promise == Contract!Spec

-----------------------------------------------------------------------------
\* What the repository's documents say and the code does not do.

\* PRD.md 18.13: a fresh base component that exits while Docker and the shared
\* services are well is a failure of the release and not operational.
ExitIsTheComponents ==
  \A n \in DOMAIN calls :
    calls[n].result = "operational" => canceled \/ "docker" \in faults
=============================================================================
