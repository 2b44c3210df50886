-------------------------- MODULE ComponentsProofs --------------------------
(***************************************************************************)
(* The order of starts and stops, what is left of a failed call and the    *)
(* contract of a role, for every number of components and networks and     *)
(* every set of faults.                                                    *)
(***************************************************************************)
EXTENDS Components, TLAPS

StartPoints == {"create", "connect", "start", "endpoint", "deadline", "poll", "probe", "wait"}

\* The points at which a role is there, or is not there, as a whole.
Whole == {"idle", "inspect", "check"}

Ran(i) == state[i] \in {"running", "exited"}

\* The fault of the release.
Blame == {"exit", "slow"} \intersect faults # {}

\* The references the orchestrator holds follow the loop.
Counted ==
  /\ pc = "create" => held = at - 1
  /\ pc \in StartPoints \ {"create"} => held = at
  /\ pc = "idle" => held \in {0, Count}
  /\ pc \in {"inspect", "check", "stop", "remove"} => held = Count

\* What Docker has is what the loops have made and not yet removed.
Placed ==
  /\ pc \in StartPoints \union Whole =>
       \A i \in Indexes : i > held => state[i] = "none"
  /\ pc \in StartPoints \union Whole =>
       \A i \in Indexes : (i < held \/ (i = held /\ pc \notin {"connect", "start"})) => Ran(i)
  /\ pc \in {"connect", "start"} => state[at] = "created"
  /\ pc = "start" => attached[at] = Networks
  /\ pc \in {"stop", "remove"} => \A i \in Indexes : i <= at => Ran(i)
  /\ \A i \in Indexes : Ran(i) => attached[i] = Networks
  /\ \A i \in Present : i > held => state[i] = "created" /\ pc = "over"

\* What stands before the loop has answered.
Answered ==
  /\ \A i \in ready : state[i] = "running" /\ i \in wasReady
  /\ pc \in StartPoints => \A i \in Indexes : i < at => i \in wasReady
  /\ pc = "probe" /\ healthy => at \in wasReady
  /\ pc \in Whole \union {"stop", "remove"} =>
       \A i \in Indexes : i <= held => i \in wasReady
  /\ InOrder

Left == LeftIsRefused /\ (pc = "over" => calls # <<>>)

\* What does not answer, or has exited by itself, does so by a fault.
Blamed ==
  /\ pc \in StartPoints \union Whole =>
       \A i \in Indexes : state[i] = "exited" => "exit" \in faults
  /\ pc \in StartPoints => \A i \in Indexes : i < at => i \in ready \/ Blame
  /\ pc = "probe" /\ healthy => at \in ready \/ Blame
  /\ pc \in Whole => \A i \in Indexes : i <= held => i \in ready \/ Blame
  /\ pc = "check" /\ ~ healthy => Blame
  /\ pc \in {"poll", "probe", "wait"} =>
       /\ expired => "slow" \in faults \/ (Readiness[at] = "command" /\ "docker" \in faults)
       /\ last = "operational" => "docker" \in faults
  /\ pc \in {"stop", "remove"} /\ refused # {} => canceled \/ "docker" \in faults

\* The calls that have returned follow the loop.
Sequenced ==
  /\ pc \in StartPoints \/ (pc = "idle" /\ held = 0) =>
       calls = <<>> \/ (calls[Len(calls)].op = "stop" /\ calls[Len(calls)].result = "ok")
  /\ pc \in {"inspect", "check", "stop", "remove"} \/ (pc = "idle" /\ held # 0) =>
       /\ calls # <<>>
       /\ \/ calls[Len(calls)].op = "check"
          \/ calls[Len(calls)].op = "start" /\ calls[Len(calls)].result = "ok"

IInv == TypeOK /\ Counted /\ Placed /\ Answered /\ Left /\ Blamed /\ Sequenced

Call == [op : {"start", "check", "stop"}, result : {"ok", "operational", "failure"},
         held : BOOLEAN, exists : BOOLEAN]

Points == {"idle", "create", "connect", "start", "endpoint", "deadline", "poll",
           "probe", "wait", "inspect", "check", "stop", "remove", "over"}

\* A call that returns is the last one.
LEMMA ReturnTyped ==
  ASSUME calls \in Seq(Call), NEW op \in {"start", "check", "stop"},
         NEW result \in {"ok", "operational", "failure"}, Return(op, result)
  PROVE  /\ calls' \in Seq(Call) /\ pc' \in Points
         /\ calls' # <<>> /\ calls'[Len(calls')].op = op /\ calls'[Len(calls')].result = result
<1> DEFINE call == [op |-> op, result |-> result, held |-> held' # 0,
                    exists |-> \E i \in Indexes : state'[i] # "none"]
<1>1. call \in Call
  BY DEF Call
<1>2. calls' = Append(calls, call)
  BY DEF Return
<1>3. calls'[Len(calls')] = call /\ calls' # <<>> /\ calls' \in Seq(Call)
  <2> HIDE DEF call
  <2> QED  BY <1>1, <1>2
<1>4. pc' \in Points
  BY DEF Return, Points
<1>5. call.op = op /\ call.result = result
  OBVIOUS
<1>6. QED
  <2> HIDE DEF call
  <2> QED  BY <1>3, <1>4, <1>5

\* The invariant holds before the first call.
LEMMA InitInvariant == Init => IInv
<1> SUFFICES ASSUME Init
             PROVE  IInv
  OBVIOUS
<1> USE CountAssumption DEF Init, Indexes
<1>1. TypeOK
  <2>1. pc \in Points /\ at \in Indexes /\ held \in 0 .. Count
    BY DEF Points
  <2>2. /\ state \in [Indexes -> {"none", "created", "running", "exited"}]
        /\ attached \in [Indexes -> 0 .. Networks]
        /\ ready \subseteq Indexes /\ wasReady \subseteq Indexes /\ dead \subseteq Indexes
    OBVIOUS
  <2>3. calls \in Seq(Call)
    BY DEF Call
  <2>4. /\ faults \in FaultSets /\ last \in {"none", "operational", "failure"}
        /\ refused \subseteq Indexes
    OBVIOUS
  <2>5. canceled \in BOOLEAN /\ expired \in BOOLEAN /\ healthy \in BOOLEAN
    OBVIOUS
  <2>6. QED  BY <2>1, <2>2, <2>3, <2>4, <2>5 DEF TypeOK, Call, Points
<1>2. Counted /\ Placed
  BY DEF Counted, Placed, Present, StartPoints, Whole, Ran
<1>3. Answered
  BY DEF Answered, InOrder, Started, StartPoints, Whole
<1>4. Left /\ Sequenced
  BY DEF Left, LeftIsRefused, Sequenced, StartPoints
<1>5. Blamed
  BY DEF Blamed, StartPoints, Whole
<1>6. QED  BY <1>1, <1>2, <1>3, <1>4, <1>5 DEF IInv

\* What the loop of StopAll has passed is gone or in its error.
LEMMA RemoveLeaves ==
  ASSUME IInv, RemoveContainer
  PROVE  \A i \in Indexes : i >= at /\ state'[i] # "none" => i \in refused'
<1>1. /\ \A i \in Indexes : i # at => state'[i] = state[i]
      /\ state'[at] # "none" => at \in refused'
      /\ refused \subseteq refused'
  BY DEF IInv, TypeOK, Indexes, RemoveContainer
<1>2. QED
  BY <1>1 DEF IInv, Left, LeftIsRefused, Present, TypeOK, Indexes, RemoveContainer

\* Every step of the program and of its environment keeps the invariant.
LEMMA NextInvariant == IInv /\ [Next]_vars => IInv'
<1> SUFFICES ASSUME IInv, [Next]_vars
             PROVE  IInv'
  OBVIOUS
<1> USE DEF IInv
<1>1. CASE BeginStart
  <2>1. TypeOK'
    BY <1>1, CountAssumption DEF TypeOK, Indexes, BeginStart, world, docker, wait, ghosts
  <2>2. Counted'
    BY <1>1, CountAssumption DEF Counted, TypeOK, Indexes, StartPoints, BeginStart, world, docker, wait, ghosts
  <2>3. Placed'
    BY <1>1, CountAssumption DEF Placed, Counted, TypeOK, Indexes, StartPoints, Whole, Ran, Present, BeginStart, world, docker, wait, ghosts
  <2>4. Answered'
    BY <1>1, CountAssumption DEF Answered, Placed, Counted, InOrder, Started, TypeOK, Indexes, StartPoints, Whole, Ran, BeginStart, world, docker, wait, ghosts
  <2>5. Left'
    BY <1>1, CountAssumption DEF Left, Placed, LeftIsRefused, Present, TypeOK, Indexes, BeginStart, world, docker, wait, ghosts
  <2>6. Blamed'
    BY <1>1, CountAssumption DEF Blamed, Blame, Placed, Counted, TypeOK, Indexes, StartPoints, Whole, Ran, BeginStart, world, docker, wait, ghosts
  <2>7. Sequenced'
    BY <1>1, CountAssumption DEF Sequenced, Counted, TypeOK, Indexes, StartPoints, BeginStart, world, docker, wait, ghosts
  <2>8. QED  BY <2>1, <2>2, <2>3, <2>4, <2>5, <2>6, <2>7
<1>2. CASE CreateContainer
  <2>1. TypeOK'
    <3>1. calls' \in Seq(Call)
      BY <1>2, ReturnTyped DEF TypeOK, Call, CreateContainer, DockerFails, world, docker, wait, ghosts
    <3>2. pc' \in Points /\ at' \in Indexes /\ held' \in 0 .. Count
      BY <1>2, CountAssumption, ReturnTyped DEF TypeOK, Counted, StartPoints, Call, Points, Indexes, CreateContainer, DockerFails, world, docker, wait, ghosts
    <3>3. /\ faults' \in FaultSets /\ canceled' \in BOOLEAN
          /\ last' \in {"none", "operational", "failure"}
          /\ expired' \in BOOLEAN /\ refused' \subseteq Indexes
      BY <1>2 DEF TypeOK, CreateContainer, DockerFails, world, docker, wait, ghosts
    <3>4. /\ state' \in [Indexes -> {"none", "created", "running", "exited"}]
          /\ ready' \subseteq Indexes /\ wasReady' \subseteq Indexes /\ dead' \subseteq Indexes
      BY <1>2 DEF TypeOK, CreateContainer, DockerFails, world, docker, wait, ghosts
    <3>5. healthy' \in BOOLEAN
      BY <1>2 DEF TypeOK, CreateContainer, DockerFails, world, docker, wait, ghosts
    <3>6. attached' \in [Indexes -> 0 .. Networks]
      BY <1>2, CountAssumption DEF TypeOK, CreateContainer, DockerFails, world, docker, wait, ghosts
    <3>7. QED  BY <3>1, <3>2, <3>3, <3>4, <3>5, <3>6 DEF TypeOK, Call, Points
  <2>2. Counted'
    BY <1>2, CountAssumption DEF Counted, TypeOK, Indexes, StartPoints, CreateContainer, DockerFails, Return, world, docker, wait, ghosts
  <2>3. Placed'
    <3>1. CASE pc' = "connect"
      BY <3>1, <1>2, CountAssumption DEF Placed, Counted, TypeOK, Indexes, StartPoints, Whole, Ran, Present, CreateContainer, Return, ghosts
    <3>2. CASE pc' # "connect"
      <4>1. /\ \A i \in Indexes : i # at => state'[i] = state[i]
            /\ state'[at] \in {"none", "created"}
            /\ pc' = "over" /\ held' = held /\ attached' = attached
        <5>1. /\ Return("start", "operational") /\ UNCHANGED <<attached, held>>
              /\ state' \in {state, [state EXCEPT ![at] = IF @ = "none" THEN "created" ELSE @]}
          BY <3>2, <1>2 DEF CreateContainer
        <5>2. state[at] = "none" /\ at \in Indexes
          BY <1>2 DEF Placed, Counted, TypeOK, Indexes, StartPoints, CreateContainer
        <5>3. \/ state' = state
              \/ state' = [state EXCEPT ![at] = "created"]
          BY <5>1, <5>2 DEF TypeOK
        <5>4. QED  BY <5>1, <5>2, <5>3 DEF TypeOK, Return
      <4>2. QED  BY <4>1, <1>2 DEF Placed, Counted, TypeOK, Indexes, StartPoints, Whole, Ran, Present, CreateContainer
    <3>3. QED  BY <3>1, <3>2
  <2>4. Answered'
    <3>1. /\ UNCHANGED <<at, ready, wasReady>> /\ pc' \in {"connect", "over"}
          /\ state' \in {state, [state EXCEPT ![at] = "created"]} /\ pc = "create"
      BY <1>2 DEF CreateContainer, Return, Placed, Counted, TypeOK, Indexes, StartPoints,
         docker, ghosts
    <3>4. at \in Indexes /\ state[at] = "none"
      BY <1>2, <3>1 DEF Placed, Counted, TypeOK, Indexes, StartPoints
    <3>2. \A i \in Indexes : state'[i] \in {state[i], "created"}
                            /\ (state'[i] # state[i] => state[i] = "none")
      <4>1. CASE state' = state
        BY <4>1
      <4>2. CASE state' = [state EXCEPT ![at] = "created"]
        BY <3>4, <4>2 DEF TypeOK
      <4> QED BY <3>1, <4>1, <4>2
    <3>3. /\ Started' \subseteq Started
          /\ \A i \in Indexes : state[i] = "running" => state'[i] = "running"
      BY <3>2 DEF Started, Indexes
    <3>5. InOrder'
      BY <3>1, <3>3, <1>2 DEF Answered, InOrder, Indexes
    <3>6. \A i \in ready' : state'[i] = "running" /\ i \in wasReady'
      BY <3>1, <3>3, <1>2 DEF Answered, TypeOK
    <3>7. /\ pc' \in StartPoints => \A i \in Indexes : i < at' => i \in wasReady'
          /\ ~ (pc' = "probe") /\ pc' \notin Whole \union {"stop", "remove"}
      BY <3>1, <1>2 DEF Answered, StartPoints, Whole
    <3> QED BY <3>5, <3>6, <3>7 DEF Answered
  <2>5. Left'
    BY SMTT(30), <1>2, CountAssumption DEF Left, Placed, LeftIsRefused, Present, TypeOK, Indexes, CreateContainer, DockerFails, Return, world, docker, wait, ghosts
  <2>6. Blamed'
    BY SMTT(30), <1>2, CountAssumption DEF Blamed, Blame, Placed, Counted, TypeOK, Indexes, StartPoints, Whole, Ran, CreateContainer, DockerFails, Return, world, docker, wait, ghosts
  <2>7. Sequenced'
    BY <1>2, CountAssumption DEF Sequenced, Counted, TypeOK, Indexes, StartPoints, CreateContainer, DockerFails, Return, world, docker, wait, ghosts
  <2>8. QED  BY <2>1, <2>2, <2>3, <2>4, <2>5, <2>6, <2>7
<1>3. CASE ConnectNetwork
  <2>1. TypeOK'
    <3>1. calls' \in Seq(Call)
      BY <1>3, ReturnTyped DEF TypeOK, Call, ConnectNetwork, DockerFails, Connected, world, docker, wait, ghosts
    <3>2. pc' \in Points /\ at' \in Indexes /\ held' \in 0 .. Count
      BY <1>3, CountAssumption, ReturnTyped DEF TypeOK, Counted, StartPoints, Call, Points, Indexes, ConnectNetwork, DockerFails, Connected, world, docker, wait, ghosts
    <3>3. /\ faults' \in FaultSets /\ canceled' \in BOOLEAN
          /\ last' \in {"none", "operational", "failure"}
          /\ expired' \in BOOLEAN /\ refused' \subseteq Indexes
      BY <1>3 DEF TypeOK, ConnectNetwork, DockerFails, Connected, world, docker, wait, ghosts
    <3>4. /\ state' \in [Indexes -> {"none", "created", "running", "exited"}]
          /\ ready' \subseteq Indexes /\ wasReady' \subseteq Indexes /\ dead' \subseteq Indexes
      BY <1>3 DEF TypeOK, ConnectNetwork, DockerFails, Connected, world, docker, wait, ghosts
    <3>5. healthy' \in BOOLEAN
      BY <1>3 DEF TypeOK, ConnectNetwork, DockerFails, Connected, world, docker, wait, ghosts
    <3>6. attached' \in [Indexes -> 0 .. Networks]
      BY <1>3, CountAssumption DEF TypeOK, ConnectNetwork, DockerFails, Connected, world, docker, wait, ghosts
    <3>7. QED  BY <3>1, <3>2, <3>3, <3>4, <3>5, <3>6 DEF TypeOK, Call, Points
  <2>2. Counted'
    BY <1>3, CountAssumption DEF Counted, TypeOK, Indexes, StartPoints, ConnectNetwork, DockerFails, Return, Connected, world, docker, wait, ghosts
  <2>3. Placed'
    BY <1>3, CountAssumption DEF Placed, Counted, TypeOK, Indexes, StartPoints, Whole, Ran, Present, ConnectNetwork, DockerFails, Return, Connected, world, docker, wait, ghosts
  <2>4. Answered'
    BY <1>3, CountAssumption DEF Answered, Placed, Counted, InOrder, Started, TypeOK, Indexes, StartPoints, Whole, Ran, ConnectNetwork, DockerFails, Return, Connected, world, docker, wait, ghosts
  <2>5. Left'
    BY SMTT(30), <1>3, CountAssumption DEF Left, Placed, LeftIsRefused, Present, TypeOK, Indexes, ConnectNetwork, DockerFails, Return, Connected, world, docker, wait, ghosts
  <2>6. Blamed'
    BY <1>3, CountAssumption DEF Blamed, Blame, Placed, Counted, TypeOK, Indexes, StartPoints, Whole, Ran, ConnectNetwork, DockerFails, Return, Connected, world, docker, wait, ghosts
  <2>7. Sequenced'
    BY <1>3, CountAssumption DEF Sequenced, Counted, TypeOK, Indexes, StartPoints, ConnectNetwork, DockerFails, Return, Connected, world, docker, wait, ghosts
  <2>8. QED  BY <2>1, <2>2, <2>3, <2>4, <2>5, <2>6, <2>7
<1>4. CASE StartContainer
  <2>1. TypeOK'
    <3>1. calls' \in Seq(Call)
      BY <1>4, ReturnTyped DEF TypeOK, Call, StartContainer, DockerFails, world, docker, wait, ghosts
    <3>2. pc' \in Points /\ at' \in Indexes /\ held' \in 0 .. Count
      BY <1>4, CountAssumption, ReturnTyped DEF TypeOK, Counted, StartPoints, Call, Points, Indexes, StartContainer, DockerFails, world, docker, wait, ghosts
    <3>3. /\ faults' \in FaultSets /\ canceled' \in BOOLEAN
          /\ last' \in {"none", "operational", "failure"}
          /\ expired' \in BOOLEAN /\ refused' \subseteq Indexes
      BY <1>4 DEF TypeOK, StartContainer, DockerFails, world, docker, wait, ghosts
    <3>4. /\ state' \in [Indexes -> {"none", "created", "running", "exited"}]
          /\ ready' \subseteq Indexes /\ wasReady' \subseteq Indexes /\ dead' \subseteq Indexes
      BY <1>4 DEF TypeOK, StartContainer, DockerFails, world, docker, wait, ghosts
    <3>5. healthy' \in BOOLEAN
      BY <1>4 DEF TypeOK, StartContainer, DockerFails, world, docker, wait, ghosts
    <3>6. attached' \in [Indexes -> 0 .. Networks]
      BY <1>4, CountAssumption DEF TypeOK, StartContainer, DockerFails, world, docker, wait, ghosts
    <3>7. QED  BY <3>1, <3>2, <3>3, <3>4, <3>5, <3>6 DEF TypeOK, Call, Points
  <2>2. Counted'
    BY <1>4, CountAssumption DEF Counted, TypeOK, Indexes, StartPoints, StartContainer, DockerFails, Return, world, docker, wait, ghosts
  <2>3. Placed'
    BY SMTT(30), <1>4, CountAssumption DEF Placed, Counted, TypeOK, Indexes, StartPoints, Whole, Ran, Present, StartContainer, DockerFails, Return, world, docker, wait, ghosts
  <2>4. Answered'
    <3>1. /\ UNCHANGED <<at, ready, wasReady, held>> /\ pc = "start"
          /\ pc' \in {"endpoint", "deadline", "over"}
          /\ state' \in {state, [state EXCEPT ![at] = "running"]}
      BY <1>4 DEF StartContainer, Return, ghosts
    <3>2. \A i \in Indexes : i < at => i \in wasReady
      BY <3>1 DEF Answered, StartPoints
    <3>3. \A i \in Indexes : state'[i] = state[i] \/ (i = at /\ state'[i] = "running")
      BY <3>1 DEF TypeOK
    <3>4. \A i \in Indexes : state[i] = "running" => state'[i] = "running"
      BY <3>3
    <3>5. Started' \subseteq Started \union {at}
      BY <3>3 DEF Started, Indexes
    <3>6. InOrder'
      BY <3>1, <3>2, <3>5 DEF Answered, InOrder, Indexes
    <3>7. \A i \in ready' : state'[i] = "running" /\ i \in wasReady'
      BY <3>1, <3>4 DEF Answered, TypeOK
    <3> QED BY <3>1, <3>2, <3>6, <3>7 DEF Answered, StartPoints, Whole
  <2>5. Left'
    BY <1>4, CountAssumption DEF Left, Placed, LeftIsRefused, Present, TypeOK, Indexes, StartContainer, DockerFails, Return, world, docker, wait, ghosts
  <2>6. Blamed'
    BY <1>4, CountAssumption DEF Blamed, Blame, Placed, Counted, TypeOK, Indexes, StartPoints, Whole, Ran, StartContainer, DockerFails, Return, world, docker, wait, ghosts
  <2>7. Sequenced'
    BY <1>4, CountAssumption DEF Sequenced, Counted, TypeOK, Indexes, StartPoints, StartContainer, DockerFails, Return, world, docker, wait, ghosts
  <2>8. QED  BY <2>1, <2>2, <2>3, <2>4, <2>5, <2>6, <2>7
<1>5. CASE HostEndpoint
  <2>1. TypeOK'
    <3>1. calls' \in Seq(Call)
      BY <1>5, ReturnTyped DEF TypeOK, Call, HostEndpoint, DockerFails, world, docker, wait, ghosts
    <3>2. pc' \in Points /\ at' \in Indexes /\ held' \in 0 .. Count
      BY <1>5, CountAssumption, ReturnTyped DEF TypeOK, Counted, StartPoints, Call, Points, Indexes, HostEndpoint, DockerFails, world, docker, wait, ghosts
    <3>3. /\ faults' \in FaultSets /\ canceled' \in BOOLEAN
          /\ last' \in {"none", "operational", "failure"}
          /\ expired' \in BOOLEAN /\ refused' \subseteq Indexes
      BY <1>5 DEF TypeOK, HostEndpoint, DockerFails, world, docker, wait, ghosts
    <3>4. /\ state' \in [Indexes -> {"none", "created", "running", "exited"}]
          /\ ready' \subseteq Indexes /\ wasReady' \subseteq Indexes /\ dead' \subseteq Indexes
      BY <1>5 DEF TypeOK, HostEndpoint, DockerFails, world, docker, wait, ghosts
    <3>5. healthy' \in BOOLEAN
      BY <1>5 DEF TypeOK, HostEndpoint, DockerFails, world, docker, wait, ghosts
    <3>6. attached' \in [Indexes -> 0 .. Networks]
      BY <1>5, CountAssumption DEF TypeOK, HostEndpoint, DockerFails, world, docker, wait, ghosts
    <3>7. QED  BY <3>1, <3>2, <3>3, <3>4, <3>5, <3>6 DEF TypeOK, Call, Points
  <2>2. Counted'
    BY <1>5, CountAssumption DEF Counted, TypeOK, Indexes, StartPoints, HostEndpoint, DockerFails, Return, world, docker, wait, ghosts
  <2>3. Placed'
    BY <1>5, CountAssumption DEF Placed, Counted, TypeOK, Indexes, StartPoints, Whole, Ran, Present, HostEndpoint, DockerFails, Return, world, docker, wait, ghosts
  <2>4. Answered'
    BY <1>5, CountAssumption DEF Answered, Placed, Counted, InOrder, Started, TypeOK, Indexes, StartPoints, Whole, Ran, HostEndpoint, DockerFails, Return, world, docker, wait, ghosts
  <2>5. Left'
    BY <1>5, CountAssumption DEF Left, Placed, LeftIsRefused, Present, TypeOK, Indexes, HostEndpoint, DockerFails, Return, world, docker, wait, ghosts
  <2>6. Blamed'
    BY <1>5, CountAssumption DEF Blamed, Blame, Placed, Counted, TypeOK, Indexes, StartPoints, Whole, Ran, HostEndpoint, DockerFails, Return, world, docker, wait, ghosts
  <2>7. Sequenced'
    BY <1>5, CountAssumption DEF Sequenced, Counted, TypeOK, Indexes, StartPoints, HostEndpoint, DockerFails, Return, world, docker, wait, ghosts
  <2>8. QED  BY <2>1, <2>2, <2>3, <2>4, <2>5, <2>6, <2>7
<1>6. CASE BeginWait
  <2>1. TypeOK'
    BY <1>6, CountAssumption DEF TypeOK, Indexes, BeginWait, world, docker, wait, ghosts
  <2>2. Counted'
    BY <1>6, CountAssumption DEF Counted, TypeOK, Indexes, StartPoints, BeginWait, world, docker, wait, ghosts
  <2>3. Placed'
    BY <1>6, CountAssumption DEF Placed, Counted, TypeOK, Indexes, StartPoints, Whole, Ran, Present, BeginWait, world, docker, wait, ghosts
  <2>4. Answered'
    BY <1>6, CountAssumption DEF Answered, Placed, Counted, InOrder, Started, TypeOK, Indexes, StartPoints, Whole, Ran, BeginWait, world, docker, wait, ghosts
  <2>5. Left'
    BY <1>6, CountAssumption DEF Left, Placed, LeftIsRefused, Present, TypeOK, Indexes, BeginWait, world, docker, wait, ghosts
  <2>6. Blamed'
    BY <1>6, CountAssumption DEF Blamed, Blame, Placed, Counted, TypeOK, Indexes, StartPoints, Whole, Ran, BeginWait, world, docker, wait, ghosts
  <2>7. Sequenced'
    BY <1>6, CountAssumption DEF Sequenced, Counted, TypeOK, Indexes, StartPoints, BeginWait, world, docker, wait, ghosts
  <2>8. QED  BY <2>1, <2>2, <2>3, <2>4, <2>5, <2>6, <2>7
<1>7. CASE Poll
  <2>1. TypeOK'
    <3>1. calls' \in Seq(Call)
      BY <1>7, ReturnTyped DEF TypeOK, Call, Poll, DockerFails, world, docker, wait, ghosts
    <3>2. pc' \in Points /\ at' \in Indexes /\ held' \in 0 .. Count
      BY <1>7, CountAssumption, ReturnTyped DEF TypeOK, Counted, StartPoints, Call, Points, Indexes, Poll, DockerFails, world, docker, wait, ghosts
    <3>3. /\ faults' \in FaultSets /\ canceled' \in BOOLEAN
          /\ last' \in {"none", "operational", "failure"}
          /\ expired' \in BOOLEAN /\ refused' \subseteq Indexes
      BY <1>7 DEF TypeOK, Poll, DockerFails, world, docker, wait, ghosts
    <3>4. /\ state' \in [Indexes -> {"none", "created", "running", "exited"}]
          /\ ready' \subseteq Indexes /\ wasReady' \subseteq Indexes /\ dead' \subseteq Indexes
      BY <1>7 DEF TypeOK, Poll, DockerFails, world, docker, wait, ghosts
    <3>5. healthy' \in BOOLEAN
      <4>1. CASE UNCHANGED healthy
        BY <4>1 DEF TypeOK
      <4>2. CASE healthy' = (at \in ready)
        BY <4>2
      <4>3. QED  BY <4>1, <4>2, <1>7 DEF Poll
    <3>6. attached' \in [Indexes -> 0 .. Networks]
      BY <1>7, CountAssumption DEF TypeOK, Poll, DockerFails, world, docker, wait, ghosts
    <3>7. QED  BY <3>1, <3>2, <3>3, <3>4, <3>5, <3>6 DEF TypeOK, Call, Points
  <2>2. Counted'
    BY <1>7, CountAssumption DEF Counted, TypeOK, Indexes, StartPoints, Poll, DockerFails, Return, world, docker, wait, ghosts
  <2>3. Placed'
    BY <1>7, CountAssumption DEF Placed, Counted, TypeOK, Indexes, StartPoints, Whole, Ran, Present, Poll, DockerFails, Return, world, docker, wait, ghosts
  <2>4. Answered'
    BY <1>7, CountAssumption DEF Answered, Placed, Counted, InOrder, Started, TypeOK, Indexes, StartPoints, Whole, Ran, Poll, DockerFails, Return, world, docker, wait, ghosts
  <2>5. Left'
    BY <1>7, CountAssumption DEF Left, Placed, LeftIsRefused, Present, TypeOK, Indexes, Poll, DockerFails, Return, world, docker, wait, ghosts
  <2>6. Blamed'
    BY <1>7, CountAssumption DEF Blamed, Blame, Placed, Counted, TypeOK, Indexes, StartPoints, Whole, Ran, Poll, DockerFails, Return, world, docker, wait, ghosts
  <2>7. Sequenced'
    BY <1>7, CountAssumption DEF Sequenced, Counted, TypeOK, Indexes, StartPoints, Poll, DockerFails, Return, world, docker, wait, ghosts
  <2>8. QED  BY <2>1, <2>2, <2>3, <2>4, <2>5, <2>6, <2>7
<1>8. CASE Probe
  <2>1. TypeOK'
    <3>1. calls' \in Seq(Call)
      BY <1>8, ReturnTyped DEF TypeOK, Call, Probe, ProbeResults, Answers, world, docker, wait, ghosts
    <3>2. pc' \in Points /\ at' \in Indexes /\ held' \in 0 .. Count
      BY SMTT(30), <1>8, CountAssumption, ReturnTyped DEF TypeOK, Counted, StartPoints, Call, Points, Indexes, Probe, world, docker, wait, ghosts
    <3>3. /\ faults' \in FaultSets /\ canceled' \in BOOLEAN
          /\ last' \in {"none", "operational", "failure"}
          /\ expired' \in BOOLEAN /\ refused' \subseteq Indexes
      BY <1>8 DEF TypeOK, Probe, ProbeResults, Answers, world, docker, wait, ghosts
    <3>4. /\ state' \in [Indexes -> {"none", "created", "running", "exited"}]
          /\ ready' \subseteq Indexes /\ wasReady' \subseteq Indexes /\ dead' \subseteq Indexes
      BY <1>8 DEF TypeOK, Probe, ProbeResults, Answers, world, docker, wait, ghosts
    <3>5. healthy' \in BOOLEAN
      BY <1>8 DEF TypeOK, Probe, ProbeResults, Answers, world, docker, wait, ghosts
    <3>6. attached' \in [Indexes -> 0 .. Networks]
      BY <1>8, CountAssumption DEF TypeOK, Probe, ProbeResults, Answers, world, docker, wait, ghosts
    <3>7. QED  BY <3>1, <3>2, <3>3, <3>4, <3>5, <3>6 DEF TypeOK, Call, Points
  <2>2. Counted'
    BY <1>8, CountAssumption DEF Counted, TypeOK, Indexes, StartPoints, Probe, Return, ProbeResults, Answers, world, docker, wait, ghosts
  <2>3. Placed'
    BY <1>8, CountAssumption DEF Placed, Counted, TypeOK, Indexes, StartPoints, Whole, Ran, Present, Probe, Return, ProbeResults, Answers, world, docker, wait, ghosts
  <2>4. Answered'
    BY <1>8, CountAssumption DEF Answered, Placed, Counted, InOrder, Started, TypeOK, Indexes, StartPoints, Whole, Ran, Probe, Return, ProbeResults, Answers, world, docker, wait, ghosts
  <2>5. Left'
    BY <1>8, CountAssumption DEF Left, Placed, LeftIsRefused, Present, TypeOK, Indexes, Probe, Return, ProbeResults, Answers, world, docker, wait, ghosts
  <2>6. Blamed'
    <3>1. CASE pc' = "wait"
      BY <3>1, <1>8, CountAssumption DEF Blamed, Blame, Placed, Counted, TypeOK, Indexes, StartPoints, Whole, Ran, Probe, Return, ProbeResults, Answers, world, docker, wait, ghosts
    <3>2. /\ pc = "probe" /\ at \in Indexes /\ held = at
          /\ UNCHANGED <<ready, state, faults, held>>
      BY <1>8, CountAssumption DEF Counted, TypeOK, Indexes, StartPoints, Probe, world, docker
    <3>3. "ready" \in ProbeResults => at \in ready \/ Blame
      BY <3>2 DEF ProbeResults, Answers, Blamed
    <3>4. CASE pc' = "create"
      <4>1. "ready" \in ProbeResults /\ at' = at + 1
        BY <1>8, <3>4 DEF Probe, Return
      <4>2. \A i \in Indexes : i < at + 1 => i \in ready \/ Blame
        BY <3>2, <3>3, <4>1, CountAssumption DEF Blamed, StartPoints, Indexes
      <4>3. QED  BY <3>2, <3>4, <4>1, <4>2 DEF Blamed, Blame, StartPoints, Whole
    <3>5. CASE pc' = "idle"
      <4>1. "ready" \in ProbeResults /\ at = Count
        BY <1>8, <3>5 DEF Probe, Return
      <4>2. \A i \in Indexes : i <= held => i \in ready \/ Blame
        BY <3>2, <3>3, <4>1, CountAssumption DEF Blamed, StartPoints, Indexes
      <4>3. QED  BY <3>2, <3>5, <4>2 DEF Blamed, Blame, StartPoints, Whole
    <3>6. pc' \in {"create", "idle", "wait"}
      BY <1>8 DEF Probe, Return
    <3>7. QED  BY <3>1, <3>4, <3>5, <3>6
  <2>7. Sequenced'
    <3>1. CASE UNCHANGED calls /\ pc' \in {"create", "wait"}
      BY <3>1, <1>8 DEF Sequenced, StartPoints, Probe
    <3>2. CASE Return("start", "ok")
      <4>1. /\ calls' # <<>> /\ calls'[Len(calls')].op = "start"
            /\ calls'[Len(calls')].result = "ok"
        BY <3>2, ReturnTyped DEF TypeOK, Call
      <4>2. held' # 0 /\ pc' = "idle"
        BY <3>2, <1>8 DEF Counted, TypeOK, Indexes, StartPoints, Probe, Return
      <4>3. QED  BY <4>1, <4>2 DEF Sequenced, StartPoints
    <3>3. QED  BY <3>1, <3>2, <1>8 DEF Probe
  <2>8. QED  BY <2>1, <2>2, <2>3, <2>4, <2>5, <2>6, <2>7
<1>9. CASE Wait
  <2>1. TypeOK'
    <3>1. calls' \in Seq(Call)
      BY <1>9, ReturnTyped DEF TypeOK, Call, Wait, world, docker, wait, ghosts
    <3>2. pc' \in Points /\ at' \in Indexes /\ held' \in 0 .. Count
      BY <1>9, CountAssumption, ReturnTyped DEF TypeOK, Counted, StartPoints, Call, Points, Indexes, Wait, world, docker, wait, ghosts
    <3>3. /\ faults' \in FaultSets /\ canceled' \in BOOLEAN
          /\ last' \in {"none", "operational", "failure"}
          /\ expired' \in BOOLEAN /\ refused' \subseteq Indexes
      BY <1>9 DEF TypeOK, Wait, world, docker, wait, ghosts
    <3>4. /\ state' \in [Indexes -> {"none", "created", "running", "exited"}]
          /\ ready' \subseteq Indexes /\ wasReady' \subseteq Indexes /\ dead' \subseteq Indexes
      BY <1>9 DEF TypeOK, Wait, world, docker, wait, ghosts
    <3>5. healthy' \in BOOLEAN
      BY <1>9 DEF TypeOK, Wait, world, docker, wait, ghosts
    <3>6. attached' \in [Indexes -> 0 .. Networks]
      BY <1>9, CountAssumption DEF TypeOK, Wait, world, docker, wait, ghosts
    <3>7. QED  BY <3>1, <3>2, <3>3, <3>4, <3>5, <3>6 DEF TypeOK, Call, Points
  <2>2. Counted'
    BY <1>9, CountAssumption DEF Counted, TypeOK, Indexes, StartPoints, Wait, Return, world, docker, wait, ghosts
  <2>3. Placed'
    BY <1>9, CountAssumption DEF Placed, Counted, TypeOK, Indexes, StartPoints, Whole, Ran, Present, Wait, Return, world, docker, wait, ghosts
  <2>4. Answered'
    BY <1>9, CountAssumption DEF Answered, Placed, Counted, InOrder, Started, TypeOK, Indexes, StartPoints, Whole, Ran, Wait, Return, world, docker, wait, ghosts
  <2>5. Left'
    BY <1>9, CountAssumption DEF Left, Placed, LeftIsRefused, Present, TypeOK, Indexes, Wait, Return, world, docker, wait, ghosts
  <2>6. Blamed'
    BY <1>9, CountAssumption DEF Blamed, Blame, Placed, Counted, TypeOK, Indexes, StartPoints, Whole, Ran, Wait, Return, world, docker, wait, ghosts
  <2>7. Sequenced'
    BY <1>9, CountAssumption DEF Sequenced, Counted, TypeOK, Indexes, StartPoints, Wait, Return, world, docker, wait, ghosts
  <2>8. QED  BY <2>1, <2>2, <2>3, <2>4, <2>5, <2>6, <2>7
<1>10. CASE BeginCheck
  <2>1. TypeOK'
    BY <1>10, CountAssumption DEF TypeOK, Indexes, BeginCheck, world, docker, wait, ghosts
  <2>2. Counted'
    BY <1>10, CountAssumption DEF Counted, TypeOK, Indexes, StartPoints, BeginCheck, world, docker, wait, ghosts
  <2>3. Placed'
    BY <1>10, CountAssumption DEF Placed, Counted, TypeOK, Indexes, StartPoints, Whole, Ran, Present, BeginCheck, world, docker, wait, ghosts
  <2>4. Answered'
    BY <1>10, CountAssumption DEF Answered, Placed, Counted, InOrder, Started, TypeOK, Indexes, StartPoints, Whole, Ran, BeginCheck, world, docker, wait, ghosts
  <2>5. Left'
    BY <1>10, CountAssumption DEF Left, Placed, LeftIsRefused, Present, TypeOK, Indexes, BeginCheck, world, docker, wait, ghosts
  <2>6. Blamed'
    BY <1>10, CountAssumption DEF Blamed, Blame, Placed, Counted, TypeOK, Indexes, StartPoints, Whole, Ran, BeginCheck, world, docker, wait, ghosts
  <2>7. Sequenced'
    BY <1>10, CountAssumption DEF Sequenced, Counted, TypeOK, Indexes, StartPoints, BeginCheck, world, docker, wait, ghosts
  <2>8. QED  BY <2>1, <2>2, <2>3, <2>4, <2>5, <2>6, <2>7
<1>11. CASE Inspect
  <2>1. TypeOK'
    <3>1. calls' \in Seq(Call)
      BY <1>11, ReturnTyped DEF TypeOK, Call, Inspect, DockerFails, world, docker, wait, ghosts
    <3>2. pc' \in Points /\ at' \in Indexes /\ held' \in 0 .. Count
      BY <1>11, CountAssumption, ReturnTyped DEF TypeOK, Counted, StartPoints, Call, Points, Indexes, Inspect, DockerFails, world, docker, wait, ghosts
    <3>3. /\ faults' \in FaultSets /\ canceled' \in BOOLEAN
          /\ last' \in {"none", "operational", "failure"}
          /\ expired' \in BOOLEAN /\ refused' \subseteq Indexes
      BY <1>11 DEF TypeOK, Inspect, DockerFails, world, docker, wait, ghosts
    <3>4. /\ state' \in [Indexes -> {"none", "created", "running", "exited"}]
          /\ ready' \subseteq Indexes /\ wasReady' \subseteq Indexes /\ dead' \subseteq Indexes
      BY <1>11 DEF TypeOK, Inspect, DockerFails, world, docker, wait, ghosts
    <3>5. healthy' \in BOOLEAN
      <4>1. CASE UNCHANGED healthy
        BY <4>1 DEF TypeOK
      <4>2. CASE healthy' = (at \in ready)
        BY <4>2
      <4>3. QED  BY <4>1, <4>2, <1>11 DEF Inspect
    <3>6. attached' \in [Indexes -> 0 .. Networks]
      BY <1>11, CountAssumption DEF TypeOK, Inspect, DockerFails, world, docker, wait, ghosts
    <3>7. QED  BY <3>1, <3>2, <3>3, <3>4, <3>5, <3>6 DEF TypeOK, Call, Points
  <2>2. Counted'
    BY <1>11, CountAssumption DEF Counted, TypeOK, Indexes, StartPoints, Inspect, DockerFails, Return, world, docker, wait, ghosts
  <2>3. Placed'
    BY <1>11, CountAssumption DEF Placed, Counted, TypeOK, Indexes, StartPoints, Whole, Ran, Present, Inspect, DockerFails, Return, world, docker, wait, ghosts
  <2>4. Answered'
    BY <1>11, CountAssumption DEF Answered, Placed, Counted, InOrder, Started, TypeOK, Indexes, StartPoints, Whole, Ran, Inspect, DockerFails, Return, world, docker, wait, ghosts
  <2>5. Left'
    BY <1>11, CountAssumption DEF Left, Placed, LeftIsRefused, Present, TypeOK, Indexes, Inspect, DockerFails, Return, world, docker, wait, ghosts
  <2>6. Blamed'
    <3>1. CASE pc' = "check"
      <4>1. at \in ready \/ Blame
        BY <1>11 DEF Blamed, Counted, TypeOK, Indexes, Whole, Inspect
      <4>2. (healthy' <=> at \in ready) /\ at' = at
        BY <3>1, <1>11 DEF Inspect, Return
      <4>3. QED  BY <3>1, <4>1, <4>2, <1>11 DEF Blamed, Blame, Whole, StartPoints, Inspect, docker, world
    <3>2. CASE pc' # "check"
      BY <3>2, <1>11 DEF Blamed, Blame, Whole, StartPoints, Inspect, Return, docker, world
    <3>3. QED  BY <3>1, <3>2
  <2>7. Sequenced'
    BY <1>11, CountAssumption DEF Sequenced, Counted, TypeOK, Indexes, StartPoints, Inspect, DockerFails, Return, world, docker, wait, ghosts
  <2>8. QED  BY <2>1, <2>2, <2>3, <2>4, <2>5, <2>6, <2>7
<1>12. CASE CheckProbe
  <2>1. TypeOK'
    <3>1. calls' \in Seq(Call)
      BY <1>12, ReturnTyped DEF TypeOK, Call, CheckProbe, ProbeResults, Answers, Checked, world, docker, wait, ghosts
    <3>2. pc' \in Points /\ at' \in Indexes /\ held' \in 0 .. Count
      BY <1>12, CountAssumption, ReturnTyped DEF TypeOK, Counted, StartPoints, Call, Points, Indexes, CheckProbe, ProbeResults, Answers, Checked, world, docker, wait, ghosts
    <3>3. /\ faults' \in FaultSets /\ canceled' \in BOOLEAN
          /\ last' \in {"none", "operational", "failure"}
          /\ expired' \in BOOLEAN /\ refused' \subseteq Indexes
      BY <1>12 DEF TypeOK, CheckProbe, ProbeResults, Answers, Checked, world, docker, wait, ghosts
    <3>4. /\ state' \in [Indexes -> {"none", "created", "running", "exited"}]
          /\ ready' \subseteq Indexes /\ wasReady' \subseteq Indexes /\ dead' \subseteq Indexes
      BY <1>12 DEF TypeOK, CheckProbe, ProbeResults, Answers, Checked, world, docker, wait, ghosts
    <3>5. healthy' \in BOOLEAN
      BY <1>12 DEF TypeOK, CheckProbe, ProbeResults, Answers, Checked, world, docker, wait, ghosts
    <3>6. attached' \in [Indexes -> 0 .. Networks]
      BY <1>12, CountAssumption DEF TypeOK, CheckProbe, ProbeResults, Answers, Checked, world, docker, wait, ghosts
    <3>7. QED  BY <3>1, <3>2, <3>3, <3>4, <3>5, <3>6 DEF TypeOK, Call, Points
  <2>2. Counted'
    BY <1>12, CountAssumption DEF Counted, TypeOK, Indexes, StartPoints, CheckProbe, Return, ProbeResults, Answers, Checked, world, docker, wait, ghosts
  <2>3. Placed'
    BY <1>12, CountAssumption DEF Placed, Counted, TypeOK, Indexes, StartPoints, Whole, Ran, Present, CheckProbe, Return, ProbeResults, Answers, Checked, world, docker, wait, ghosts
  <2>4. Answered'
    BY <1>12, CountAssumption DEF Answered, Placed, Counted, InOrder, Started, TypeOK, Indexes, StartPoints, Whole, Ran, CheckProbe, Return, ProbeResults, Answers, Checked, world, docker, wait, ghosts
  <2>5. Left'
    BY <1>12, CountAssumption DEF Left, Placed, LeftIsRefused, Present, TypeOK, Indexes, CheckProbe, Return, ProbeResults, Answers, Checked, world, docker, wait, ghosts
  <2>6. Blamed'
    BY <1>12, CountAssumption DEF Blamed, Blame, Placed, Counted, TypeOK, Indexes, StartPoints, Whole, Ran, CheckProbe, Return, ProbeResults, Answers, Checked, world, docker, wait, ghosts
  <2>7. Sequenced'
    BY SMTT(30), <1>12, CountAssumption DEF Sequenced, Counted, TypeOK, Indexes, StartPoints, CheckProbe, Return, ProbeResults, Answers, Checked, world, docker, wait, ghosts
  <2>8. QED  BY <2>1, <2>2, <2>3, <2>4, <2>5, <2>6, <2>7
<1>13. CASE BeginStop
  <2>1. TypeOK'
    BY <1>13, CountAssumption DEF TypeOK, Indexes, BeginStop, world, docker, wait, ghosts
  <2>2. Counted'
    BY <1>13, CountAssumption DEF Counted, TypeOK, Indexes, StartPoints, BeginStop, world, docker, wait, ghosts
  <2>3. Placed'
    BY <1>13, CountAssumption DEF Placed, Counted, TypeOK, Indexes, StartPoints, Whole, Ran, Present, BeginStop, world, docker, wait, ghosts
  <2>4. Answered'
    BY <1>13, CountAssumption DEF Answered, Placed, Counted, InOrder, Started, TypeOK, Indexes, StartPoints, Whole, Ran, BeginStop, world, docker, wait, ghosts
  <2>5. Left'
    BY <1>13, CountAssumption DEF Left, Placed, LeftIsRefused, Present, TypeOK, Indexes, BeginStop, world, docker, wait, ghosts
  <2>6. Blamed'
    BY <1>13, CountAssumption DEF Blamed, Blame, Placed, Counted, TypeOK, Indexes, StartPoints, Whole, Ran, BeginStop, world, docker, wait, ghosts
  <2>7. Sequenced'
    BY <1>13, CountAssumption DEF Sequenced, Counted, TypeOK, Indexes, StartPoints, BeginStop, world, docker, wait, ghosts
  <2>8. QED  BY <2>1, <2>2, <2>3, <2>4, <2>5, <2>6, <2>7
<1>14. CASE StopContainer
  <2>1. TypeOK'
    BY <1>14, CountAssumption DEF TypeOK, Indexes, StopContainer, DockerFails, world, docker, wait, ghosts
  <2>2. Counted'
    BY <1>14, CountAssumption DEF Counted, TypeOK, Indexes, StartPoints, StopContainer, DockerFails, world, docker, wait, ghosts
  <2>3. Placed'
    <3>1. /\ pc' = "remove" /\ at' = at /\ held' = held /\ attached' = attached
          /\ state' \in {state, [state EXCEPT ![at] = "exited"]}
      BY <1>14 DEF StopContainer
    <3>2. at \in Indexes /\ at <= held /\ Ran(at)
      BY <1>14, CountAssumption DEF StopContainer, Placed, Counted, TypeOK, Indexes
    <3>3. \A i \in Indexes : (Ran(i) <=> Ran(i)') /\ (state'[i] # state[i] => i = at)
      BY <3>1, <3>2 DEF TypeOK, Ran
    <3>4. pc = "stop"
      BY <1>14 DEF StopContainer
    <3> QED BY <3>1, <3>2, <3>3, <3>4, CountAssumption
        DEF Placed, TypeOK, Indexes, StartPoints, Whole, Present
  <2>4. Answered'
    BY <1>14, CountAssumption DEF Answered, Placed, Counted, InOrder, Started, TypeOK, Indexes, StartPoints, Whole, Ran, StopContainer, DockerFails, world, docker, wait, ghosts
  <2>5. Left'
    BY <1>14, CountAssumption DEF Left, Placed, LeftIsRefused, Present, TypeOK, Indexes, StopContainer, DockerFails, world, docker, wait, ghosts
  <2>6. Blamed'
    BY <1>14, CountAssumption DEF Blamed, Blame, Placed, Counted, TypeOK, Indexes, StartPoints, Whole, Ran, StopContainer, DockerFails, world, docker, wait, ghosts
  <2>7. Sequenced'
    BY <1>14, CountAssumption DEF Sequenced, Counted, TypeOK, Indexes, StartPoints, StopContainer, DockerFails, world, docker, wait, ghosts
  <2>8. QED  BY <2>1, <2>2, <2>3, <2>4, <2>5, <2>6, <2>7
<1>15. CASE RemoveContainer
  <2>1. TypeOK'
    <3>1. calls' \in Seq(Call)
      BY <1>15, ReturnTyped DEF TypeOK, Call, RemoveContainer, DockerFails, Onward, world, docker, wait, ghosts
    <3>2. pc' \in Points /\ at' \in Indexes /\ held' \in 0 .. Count
      BY <1>15, CountAssumption, ReturnTyped DEF TypeOK, Counted, StartPoints, Call, Points, Indexes, RemoveContainer, DockerFails, Onward, world, docker, wait, ghosts
    <3>3. /\ faults' \in FaultSets /\ canceled' \in BOOLEAN
          /\ last' \in {"none", "operational", "failure"}
          /\ expired' \in BOOLEAN /\ refused' \subseteq Indexes
      BY <1>15 DEF TypeOK, RemoveContainer, DockerFails, Onward, world, docker, wait, ghosts
    <3>4. /\ state' \in [Indexes -> {"none", "created", "running", "exited"}]
          /\ ready' \subseteq Indexes /\ wasReady' \subseteq Indexes /\ dead' \subseteq Indexes
      BY <1>15 DEF TypeOK, RemoveContainer, DockerFails, Onward, world, docker, wait, ghosts
    <3>5. healthy' \in BOOLEAN
      BY <1>15 DEF TypeOK, RemoveContainer, DockerFails, Onward, world, docker, wait, ghosts
    <3>6. attached' \in [Indexes -> 0 .. Networks]
      BY <1>15, CountAssumption DEF TypeOK, RemoveContainer, DockerFails, Onward, world, docker, wait, ghosts
    <3>7. QED  BY <3>1, <3>2, <3>3, <3>4, <3>5, <3>6 DEF TypeOK, Call, Points
  <2>2. Counted'
    BY <1>15, CountAssumption DEF Counted, TypeOK, Indexes, StartPoints, RemoveContainer, DockerFails, Return, Onward, world, docker, wait, ghosts
  <2>3. Placed'
    <3>1. /\ \A i \in Indexes : i # at => state'[i] = state[i]
          /\ state'[at] \in {state[at], "none"}
          /\ attached' = attached
      BY <1>15 DEF TypeOK, Indexes, RemoveContainer
    <3>2. CASE at > 1
      <4>1. pc' = "stop" /\ held' = held /\ at' = at - 1
        BY <3>2, <1>15 DEF RemoveContainer, Onward
      <4>2. QED  BY <3>1, <4>1, <1>15 DEF Placed, Counted, TypeOK, Indexes, StartPoints, Whole, Ran, Present, RemoveContainer
    <3>3. CASE ~ at > 1
      <4>1. at = 1 /\ at' = at
        BY <3>3, <1>15 DEF TypeOK, Indexes, RemoveContainer, Onward
      <4>2. CASE refused' = {}
        <5>1. pc' = "idle" /\ held' = 0
          BY <3>3, <4>2, <1>15 DEF RemoveContainer, Onward, Return
        <5>2. \A i \in Indexes : state'[i] = "none"
          <6>1. \A i \in Indexes : i >= at
            BY <4>1 DEF Indexes
          <6>2. \A i \in Indexes : state'[i] # "none" => i \in refused'
            BY <6>1, <1>15, RemoveLeaves
          <6>3. QED  BY <4>2, <6>2
        <5>3. QED  BY <5>1, <5>2, CountAssumption DEF Placed, StartPoints, Whole, Ran, Present, Indexes
      <4>3. CASE refused' # {}
        <5>1. pc' = "over" /\ held' = held
          BY <3>3, <4>3, <1>15 DEF RemoveContainer, Onward, Return
        <5>2. QED  BY <3>1, <4>1, <5>1, <1>15, CountAssumption DEF Placed, Counted, TypeOK, Indexes, StartPoints, Whole, Ran, Present, RemoveContainer
      <4>4. QED  BY <4>2, <4>3
    <3>4. QED  BY <3>2, <3>3
  <2>4. Answered'
    BY <1>15, CountAssumption DEF Answered, Placed, Counted, InOrder, Started, TypeOK, Indexes, StartPoints, Whole, Ran, RemoveContainer, DockerFails, Return, Onward, world, docker, wait, ghosts
  <2>5. Left'
    <3>1. /\ \A i \in Indexes : i # at => state'[i] = state[i]
          /\ state'[at] # "none" => at \in refused'
          /\ refused \subseteq refused'
      BY <1>15 DEF TypeOK, Indexes, RemoveContainer
    <3>2. \A i \in Indexes : i >= at /\ state'[i] # "none" => i \in refused'
      BY <1>15, RemoveLeaves
    <3>3. CASE at > 1
      BY <3>2, <3>3, <1>15 DEF Left, LeftIsRefused, Present, TypeOK, Indexes, RemoveContainer, Onward
    <3>4. CASE ~ at > 1
      <4>1. calls' # <<>> /\ pc' \in {"idle", "over"}
        BY <3>4, <1>15, ReturnTyped DEF TypeOK, Call, RemoveContainer, Onward, Return
      <4>2. \A i \in Indexes : state'[i] # "none" => i \in refused'
        BY <3>2, <3>4, <1>15 DEF TypeOK, Indexes
      <4>3. QED  BY <4>1, <4>2 DEF Left, LeftIsRefused, Present
    <3>5. QED  BY <3>3, <3>4
  <2>6. Blamed'
    <3>1. CASE at > 1
      <4>1. refused' # {} => canceled \/ "docker" \in faults
        BY <1>15 DEF Blamed, RemoveContainer, DockerFails
      <4>2. pc' = "stop" /\ UNCHANGED <<faults, canceled>>
        BY <3>1, <1>15 DEF RemoveContainer, Onward, world
      <4>3. QED  BY <4>1, <4>2 DEF Blamed, StartPoints, Whole
    <3>2. CASE ~ at > 1 /\ refused' = {}
      <4>1. pc' = "idle" /\ held' = 0
        BY <3>2, <1>15 DEF RemoveContainer, Onward, Return
      <4>2. \A i \in Indexes : state'[i] = "none"
        BY <3>2, <1>15, RemoveLeaves DEF IInv, TypeOK, Indexes
      <4>3. QED  BY <4>1, <4>2 DEF Blamed, StartPoints, Whole, Indexes
    <3>3. CASE ~ at > 1 /\ refused' # {}
      <4>1. pc' = "over"
        BY <3>3, <1>15 DEF RemoveContainer, Onward, Return
      <4>2. QED  BY <4>1 DEF Blamed, StartPoints, Whole
    <3>4. QED  BY <3>1, <3>2, <3>3
  <2>7. Sequenced'
    BY SMTT(30), <1>15, CountAssumption DEF Sequenced, Counted, TypeOK, Indexes, StartPoints, RemoveContainer, DockerFails, Return, Onward, world, docker, wait, ghosts
  <2>8. QED  BY <2>1, <2>2, <2>3, <2>4, <2>5, <2>6, <2>7
<1>16. CASE Signal
  <2>1. TypeOK'
    BY <1>16, CountAssumption DEF TypeOK, Indexes, Signal, world, docker, wait, ghosts
  <2>2. Counted'
    BY <1>16, CountAssumption DEF Counted, TypeOK, Indexes, StartPoints, Signal, world, docker, wait, ghosts
  <2>3. Placed'
    BY <1>16, CountAssumption DEF Placed, Counted, TypeOK, Indexes, StartPoints, Whole, Ran, Present, Signal, world, docker, wait, ghosts
  <2>4. Answered'
    BY <1>16, CountAssumption DEF Answered, Placed, Counted, InOrder, Started, TypeOK, Indexes, StartPoints, Whole, Ran, Signal, world, docker, wait, ghosts
  <2>5. Left'
    BY <1>16, CountAssumption DEF Left, Placed, LeftIsRefused, Present, TypeOK, Indexes, Signal, world, docker, wait, ghosts
  <2>6. Blamed'
    BY <1>16, CountAssumption DEF Blamed, Blame, Placed, Counted, TypeOK, Indexes, StartPoints, Whole, Ran, Signal, world, docker, wait, ghosts
  <2>7. Sequenced'
    BY <1>16, CountAssumption DEF Sequenced, Counted, TypeOK, Indexes, StartPoints, Signal, world, docker, wait, ghosts
  <2>8. QED  BY <2>1, <2>2, <2>3, <2>4, <2>5, <2>6, <2>7
<1>17. CASE LosesReadiness
  <2>1. TypeOK'
    BY <1>17, CountAssumption DEF TypeOK, Indexes, LosesReadiness, world, docker, wait, ghosts
  <2>2. Counted'
    BY <1>17, CountAssumption DEF Counted, TypeOK, Indexes, StartPoints, LosesReadiness, world, docker, wait, ghosts
  <2>3. Placed'
    BY <1>17, CountAssumption DEF Placed, Counted, TypeOK, Indexes, StartPoints, Whole, Ran, Present, LosesReadiness, world, docker, wait, ghosts
  <2>4. Answered'
    BY <1>17, CountAssumption DEF Answered, Placed, Counted, InOrder, Started, TypeOK, Indexes, StartPoints, Whole, Ran, LosesReadiness, world, docker, wait, ghosts
  <2>5. Left'
    BY <1>17, CountAssumption DEF Left, Placed, LeftIsRefused, Present, TypeOK, Indexes, LosesReadiness, world, docker, wait, ghosts
  <2>6. Blamed'
    BY <1>17, CountAssumption DEF Blamed, Blame, Placed, Counted, TypeOK, Indexes, StartPoints, Whole, Ran, LosesReadiness, world, docker, wait, ghosts
  <2>7. Sequenced'
    BY <1>17, CountAssumption DEF Sequenced, Counted, TypeOK, Indexes, StartPoints, LosesReadiness, world, docker, wait, ghosts
  <2>8. QED  BY <2>1, <2>2, <2>3, <2>4, <2>5, <2>6, <2>7
<1>18. CASE Exits
  <2>1. TypeOK'
    BY <1>18, CountAssumption DEF TypeOK, Indexes, Exits, world, docker, wait, ghosts
  <2>2. Counted'
    BY <1>18, CountAssumption DEF Counted, TypeOK, Indexes, StartPoints, Exits, world, docker, wait, ghosts
  <2>3. Placed'
    BY <1>18, CountAssumption DEF Placed, Counted, TypeOK, Indexes, StartPoints, Whole, Ran, Present, Exits, world, docker, wait, ghosts
  <2>4. Answered'
    BY <1>18, CountAssumption DEF Answered, Placed, Counted, InOrder, Started, TypeOK, Indexes, StartPoints, Whole, Ran, Exits, world, docker, wait, ghosts
  <2>5. Left'
    BY <1>18, CountAssumption DEF Left, Placed, LeftIsRefused, Present, TypeOK, Indexes, Exits, world, docker, wait, ghosts
  <2>6. Blamed'
    BY <1>18, CountAssumption DEF Blamed, Blame, Placed, Counted, TypeOK, Indexes, StartPoints, Whole, Ran, Exits, world, docker, wait, ghosts
  <2>7. Sequenced'
    BY <1>18, CountAssumption DEF Sequenced, Counted, TypeOK, Indexes, StartPoints, Exits, world, docker, wait, ghosts
  <2>8. QED  BY <2>1, <2>2, <2>3, <2>4, <2>5, <2>6, <2>7
<1>19. CASE Expire
  <2>1. TypeOK'
    BY <1>19, CountAssumption DEF TypeOK, Indexes, Expire, world, docker, wait, ghosts
  <2>2. Counted'
    BY <1>19, CountAssumption DEF Counted, TypeOK, Indexes, StartPoints, Expire, world, docker, wait, ghosts
  <2>3. Placed'
    BY <1>19, CountAssumption DEF Placed, Counted, TypeOK, Indexes, StartPoints, Whole, Ran, Present, Expire, world, docker, wait, ghosts
  <2>4. Answered'
    BY <1>19, CountAssumption DEF Answered, Placed, Counted, InOrder, Started, TypeOK, Indexes, StartPoints, Whole, Ran, Expire, world, docker, wait, ghosts
  <2>5. Left'
    BY <1>19, CountAssumption DEF Left, Placed, LeftIsRefused, Present, TypeOK, Indexes, Expire, world, docker, wait, ghosts
  <2>6. Blamed'
    BY <1>19, CountAssumption DEF Blamed, Blame, Placed, Counted, TypeOK, Indexes, StartPoints, Whole, Ran, Expire, world, docker, wait, ghosts
  <2>7. Sequenced'
    BY <1>19, CountAssumption DEF Sequenced, Counted, TypeOK, Indexes, StartPoints, Expire, world, docker, wait, ghosts
  <2>8. QED  BY <2>1, <2>2, <2>3, <2>4, <2>5, <2>6, <2>7
<1>20. ASSUME NEW k \in Indexes, Answer(k)
     PROVE  IInv'
  <2>1. TypeOK'
    BY <1>20, CountAssumption DEF TypeOK, Indexes, Answer, world, docker, wait, ghosts
  <2>2. Counted'
    BY <1>20, CountAssumption DEF Counted, TypeOK, Indexes, StartPoints, Answer, world, docker, wait, ghosts
  <2>3. Placed'
    BY <1>20, CountAssumption DEF Placed, Counted, TypeOK, Indexes, StartPoints, Whole, Ran, Present, Answer, world, docker, wait, ghosts
  <2>4. Answered'
    BY <1>20, CountAssumption DEF Answered, Placed, Counted, InOrder, Started, TypeOK, Indexes, StartPoints, Whole, Ran, Answer, world, docker, wait, ghosts
  <2>5. Left'
    BY <1>20, CountAssumption DEF Left, Placed, LeftIsRefused, Present, TypeOK, Indexes, Answer, world, docker, wait, ghosts
  <2>6. Blamed'
    BY <1>20, CountAssumption DEF Blamed, Blame, Placed, Counted, TypeOK, Indexes, StartPoints, Whole, Ran, Answer, world, docker, wait, ghosts
  <2>7. Sequenced'
    BY <1>20, CountAssumption DEF Sequenced, Counted, TypeOK, Indexes, StartPoints, Answer, world, docker, wait, ghosts
  <2>8. QED  BY <2>1, <2>2, <2>3, <2>4, <2>5, <2>6, <2>7
<1>21. CASE UNCHANGED vars
  <2>1. TypeOK'
    BY <1>21, CountAssumption DEF TypeOK, Indexes, vars, world, docker, wait, ghosts
  <2>2. Counted'
    BY <1>21, CountAssumption DEF Counted, TypeOK, Indexes, StartPoints, vars, world, docker, wait, ghosts
  <2>3. Placed'
    BY <1>21, CountAssumption DEF Placed, Counted, TypeOK, Indexes, StartPoints, Whole, Ran, Present, vars, world, docker, wait, ghosts
  <2>4. Answered'
    BY <1>21, CountAssumption DEF Answered, Placed, Counted, InOrder, Started, TypeOK, Indexes, StartPoints, Whole, Ran, vars, world, docker, wait, ghosts
  <2>5. Left'
    BY <1>21, CountAssumption DEF Left, Placed, LeftIsRefused, Present, TypeOK, Indexes, vars, world, docker, wait, ghosts
  <2>6. Blamed'
    BY <1>21, CountAssumption DEF Blamed, Blame, Placed, Counted, TypeOK, Indexes, StartPoints, Whole, Ran, vars, world, docker, wait, ghosts
  <2>7. Sequenced'
    BY <1>21, CountAssumption DEF Sequenced, Counted, TypeOK, Indexes, StartPoints, vars, world, docker, wait, ghosts
  <2>8. QED  BY <2>1, <2>2, <2>3, <2>4, <2>5, <2>6, <2>7
<1>22. QED
  BY <1>1, <1>2, <1>3, <1>4, <1>5, <1>6, <1>7, <1>8, <1>9, <1>10, <1>11, <1>12, <1>13, <1>14, <1>15, <1>16, <1>17, <1>18, <1>19, <1>20, <1>21
  DEF Next, Program, Environment, Terminated

-----------------------------------------------------------------------------
(***************************************************************************)
(* What follows from the invariant.                                        *)
(***************************************************************************)

\* The inductive invariant holds in every state of a role's life.
THEOREM ComponentsInvariant == Spec => []IInv
<1>1. IInv /\ [Next]_vars => IInv'
  BY NextInvariant
<1>2. QED  BY InitInvariant, <1>1, PTL DEF Spec

\* Type correctness of the components, however many there are.
THEOREM ComponentsTypes == Spec => []TypeOK
<1>1. IInv => TypeOK
  BY DEF IInv
<1>2. QED  BY <1>1, ComponentsInvariant, PTL

\* StartAll starts a component after all that stand before it have answered.
THEOREM OrderHolds == Spec => []InOrder
<1>1. IInv => InOrder
  BY DEF IInv, Answered
<1>2. QED  BY <1>1, ComponentsInvariant, PTL

\* A component that runs is on every network of the shared environment.
THEOREM AttachedHolds == Spec => []AttachedWhenStarted
<1>1. IInv => AttachedWhenStarted
  BY DEF IInv, Placed, AttachedWhenStarted, Started, Ran
<1>2. QED  BY <1>1, ComponentsInvariant, PTL

\* What a failed StartAll leaves unreferenced was never started.
THEOREM UnknownHolds == Spec => []UnknownNeverRan
<1>1. IInv => UnknownNeverRan
  BY DEF IInv, Placed, UnknownNeverRan
<1>2. QED  BY <1>1, ComponentsInvariant, PTL

\* StopAll goes past nothing without an error for it.
THEOREM LeftHolds == Spec => []LeftIsRefused
<1>1. IInv => LeftIsRefused
  BY DEF IInv, Left
<1>2. QED  BY <1>1, ComponentsInvariant, PTL

-----------------------------------------------------------------------------
(***************************************************************************)
(* The contract of a role.                                                 *)
(***************************************************************************)

Commands == \E i \in Indexes : Readiness[i] = "command"

Carried == \E i \in Indexes : Readiness[i] \in {"http", "command"}

\* The call is the one whose code runs.
Runs(op) ==
  /\ op = "start" => pc \in StartPoints
  /\ op = "check" => pc \in {"inspect", "check"}
  /\ op = "stop" => pc \in {"stop", "remove"}

\* Each result that is not "ok" has its fault.
Excused(op, result) ==
  /\ result = "failure" =>
       \/ canceled /\ (op = "start" \/ Carried)
       \/ Blame \/ (Commands /\ "docker" \in faults)
  /\ result = "operational" =>
       canceled \/ "docker" \in faults \/ (op = "start" /\ held' # 0 /\ "exit" \in faults)

\* What is held is there and what was stopped is not.
Kept(op, result) ==
  /\ op = "start" => (held' # 0 => \E i \in Indexes : state'[i] # "none")
  /\ op = "start" /\ result \in {"ok", "failure"} => held' # 0
  /\ op = "stop" => result # "failure"
  /\ op = "stop" /\ result = "ok" => \A i \in Indexes : state'[i] = "none"

\* A call that returns with these three returns as the contract says.
LEMMA ReturnIsPromised ==
  ASSUME IInv, NEW op \in {"start", "check", "stop"},
         NEW result \in {"ok", "operational", "failure"}, Return(op, result),
         UNCHANGED <<faults, canceled>>, Runs(op), Excused(op, result), Kept(op, result)
  PROVE  Contract!Return
<1> DEFINE there == \E i \in Indexes : state'[i] # "none"
<1> DEFINE call == [op |-> op, result |-> result, held |-> held' # 0, exists |-> there]
<1>1. call \in Contract!Call
  BY DEF Contract!Call
<1>2. calls' = Append(calls, call)
  BY DEF Return
<1>3. call.op = op /\ call.result = result /\ call.held = (held' # 0) /\ call.exists = there
  OBVIOUS
<1> HIDE DEF call
<1>4. Contract!Follows(call)
  BY <1>3 DEF Contract!Follows, IInv, Sequenced, Runs, StartPoints
<1>5. Contract!Attributed(call)
  BY <1>3 DEF Contract!Attributed, Excused, Blame, Commands, Carried
<1>6. Contract!Accounted(call)
  <2>1. /\ call.op = "start" => (call.held => call.exists)
        /\ call.op = "start" /\ call.result \in {"ok", "failure"} => call.held
    BY <1>3 DEF Kept
  <2>2. /\ call.op = "stop" => call.result # "failure"
        /\ call.op = "stop" /\ call.result = "ok" => ~ call.exists
    BY <1>3 DEF Kept
  <2>3. QED  BY <2>1, <2>2 DEF Contract!Accounted
<1>7. QED  BY <1>1, <1>2, <1>4, <1>5, <1>6 DEF Contract!Return

\* A reference that is held is to a container that exists.
LEMMA HeldExists ==
  ASSUME IInv, pc \in StartPoints
  PROVE  /\ held # 0 => held \in Indexes /\ state[held] # "none"
         /\ pc # "create" => held = at /\ at \in Indexes /\ held # 0
<1>1. /\ at \in Indexes /\ Count \in Nat
      /\ pc = "create" => held = at - 1
      /\ pc \in StartPoints \ {"create"} => held = at
  BY CountAssumption DEF IInv, TypeOK, Counted
<1>2. held # 0 => held \in Indexes
  BY <1>1 DEF StartPoints, Indexes
<1>3. held \in Indexes => state[held] # "none"
  BY <1>1 DEF IInv, Placed, Ran, StartPoints, Indexes
<1> QED BY <1>1, <1>2, <1>3 DEF Indexes

\* Every step is one of the contract, or is not seen by the orchestrator.
LEMMA StepIsPromised ==
  ASSUME IInv, [Next]_vars
  PROVE  [Contract!Next]_<<faults, canceled, calls>>
<1>1. CASE CreateContainer
  <2>1. CASE calls' = calls
    BY <2>1, <1>1 DEF CreateContainer, world
  <2>2. CASE calls' # calls
    <3>1. Return("start", "operational") /\ (DockerFails \/ state[at] # "none") /\ pc = "create"
      BY <2>2, <1>1 DEF CreateContainer
    <3>2. DockerFails /\ at \in Indexes /\ held = at - 1
      BY <3>1 DEF IInv, TypeOK, Placed, Counted, StartPoints, Indexes
    <3>3. held' = held /\ \A i \in Indexes : i # at => state'[i] = state[i]
      BY <2>2, <1>1 DEF IInv, TypeOK, CreateContainer
    <3>4. held' # 0 => \E i \in Indexes : state'[i] # "none"
      BY <3>1, <3>2, <3>3, HeldExists DEF StartPoints, Indexes
    <3>5. UNCHANGED world
      BY <1>1 DEF CreateContainer
    <3>6. QED
      <4>1. Runs("start") /\ Excused("start", "operational")
        BY <3>1, <3>2, <3>4, <3>5 DEF Runs, Excused, DockerFails, StartPoints
      <4>2. Kept("start", "operational")
        BY <3>1, <3>2, <3>4, <3>5 DEF Kept, DockerFails, StartPoints
      <4>3. QED
        BY <3>1, <3>2, <3>4, <3>5, <4>1, <4>2, ReturnIsPromised DEF world, Contract!Next
  <2>3. QED  BY <2>1, <2>2 DEF Contract!Next
<1>2. CASE ConnectNetwork
  <2>1. CASE calls' = calls
    BY <2>1, <1>2 DEF ConnectNetwork, world
  <2>2. CASE calls' # calls
    <3>1. Return("start", "operational") /\ DockerFails /\ pc = "connect" /\ UNCHANGED <<world, state, held>>
      BY <2>2, <1>2 DEF ConnectNetwork
    <3>2. QED
      <4>1. Runs("start") /\ Excused("start", "operational")
        BY <3>1, HeldExists DEF Runs, Excused, DockerFails, StartPoints
      <4>2. Kept("start", "operational")
        BY <3>1, HeldExists DEF Kept, DockerFails, StartPoints
      <4>3. QED
        BY <3>1, HeldExists, <4>1, <4>2, ReturnIsPromised DEF world, Contract!Next
  <2>3. QED  BY <2>1, <2>2 DEF Contract!Next
<1>3. CASE StartContainer
  <2>1. CASE calls' = calls
    BY <2>1, <1>3 DEF StartContainer, world
  <2>2. CASE calls' # calls
    <3>1. Return("start", "operational") /\ DockerFails /\ pc = "start" /\ UNCHANGED <<world, held>>
      BY <2>2, <1>3 DEF StartContainer
    <3>2. at \in Indexes /\ state[at] = "created" /\ state' \in {state, [state EXCEPT ![at] = "running"]}
      BY <3>1, <2>2, <1>3 DEF StartContainer, IInv, TypeOK, Placed
    <3>3. state'[at] # "none"
      BY <3>2 DEF IInv, TypeOK
    <3>4. QED
      <4>1. Runs("start") /\ Excused("start", "operational")
        BY <3>1, <3>2, <3>3 DEF Runs, Excused, DockerFails, StartPoints
      <4>2. Kept("start", "operational")
        BY <3>1, <3>2, <3>3 DEF Kept, DockerFails, StartPoints
      <4>3. QED
        BY <3>1, <3>2, <3>3, <4>1, <4>2, ReturnIsPromised DEF world, Contract!Next
  <2>3. QED  BY <2>1, <2>2 DEF Contract!Next
<1>4. CASE HostEndpoint
  <2>1. CASE calls' = calls
    BY <2>1, <1>4 DEF HostEndpoint, world
  <2>2. CASE calls' # calls
    <3>1. /\ Return("start", "operational") /\ pc = "endpoint" /\ UNCHANGED <<world, held, state>>
          /\ DockerFails \/ state[at] = "exited"
      BY <2>2, <1>4 DEF HostEndpoint, docker
    <3>2. DockerFails \/ "exit" \in faults
      BY <3>1 DEF IInv, TypeOK, Blamed, StartPoints
    <3>3. QED
      <4>1. Runs("start") /\ Excused("start", "operational")
        BY <3>1, <3>2, HeldExists DEF Runs, Excused, DockerFails, StartPoints
      <4>2. Kept("start", "operational")
        BY <3>1, <3>2, HeldExists DEF Kept, DockerFails, StartPoints
      <4>3. QED
        BY <3>1, <3>2, HeldExists, <4>1, <4>2, ReturnIsPromised DEF world, Contract!Next
  <2>3. QED  BY <2>1, <2>2 DEF Contract!Next
<1>5. CASE Poll
  <2>1. CASE calls' = calls
    BY <2>1, <1>5 DEF Poll, world
  <2>2. CASE calls' # calls
    <3>1. /\ pc = "poll" /\ UNCHANGED <<world, held, state>>
          /\ \/ expired /\ Return("start", IF last = "operational" THEN "operational" ELSE "failure")
             \/ DockerFails /\ Return("start", "operational")
             \/ state[at] = "exited" /\ Return("start", "failure")
      BY <2>2, <1>5 DEF Poll, docker
    <3>2. /\ at \in Indexes
          /\ expired => "slow" \in faults \/ (Readiness[at] = "command" /\ "docker" \in faults)
          /\ last = "operational" => "docker" \in faults
          /\ state[at] = "exited" => "exit" \in faults
      BY <3>1 DEF IInv, TypeOK, Blamed, StartPoints
    <3>3. CASE expired /\ last = "operational" /\ Return("start", "operational")
      <4>1. Runs("start") /\ Excused("start", "operational")
        BY <3>1, <3>2, <3>3, HeldExists DEF Runs, Excused, StartPoints
      <4>2. Kept("start", "operational")
        BY <3>1, <3>2, <3>3, HeldExists DEF Kept, StartPoints
      <4>3. QED
        BY <3>1, <3>2, <3>3, HeldExists, <4>1, <4>2, ReturnIsPromised DEF world, Contract!Next
    <3>4. CASE expired /\ last # "operational" /\ Return("start", "failure")
      <4>1. Runs("start") /\ Excused("start", "failure")
        BY <3>1, <3>2, <3>4, HeldExists DEF Runs, Excused, StartPoints, Blame, Commands
      <4>2. Kept("start", "failure")
        BY <3>1, <3>2, <3>4, HeldExists DEF Kept, StartPoints, Blame, Commands
      <4>3. QED
        BY <3>1, <3>2, <3>4, HeldExists, <4>1, <4>2, ReturnIsPromised DEF world, Contract!Next
    <3>5. CASE DockerFails /\ Return("start", "operational")
      <4>1. Runs("start") /\ Excused("start", "operational")
        BY <3>1, <3>5, HeldExists DEF Runs, Excused, DockerFails, StartPoints
      <4>2. Kept("start", "operational")
        BY <3>1, <3>5, HeldExists DEF Kept, DockerFails, StartPoints
      <4>3. QED
        BY <3>1, <3>5, HeldExists, <4>1, <4>2, ReturnIsPromised DEF world, Contract!Next
    <3>6. CASE state[at] = "exited" /\ Return("start", "failure")
      <4>1. Runs("start") /\ Excused("start", "failure")
        BY <3>1, <3>2, <3>6, HeldExists DEF Runs, Excused, StartPoints, Blame
      <4>2. Kept("start", "failure")
        BY <3>1, <3>2, <3>6, HeldExists DEF Kept, StartPoints, Blame
      <4>3. QED
        BY <3>1, <3>2, <3>6, HeldExists, <4>1, <4>2, ReturnIsPromised DEF world, Contract!Next
    <3>7. QED
      BY <3>1, <3>3, <3>4, <3>5, <3>6
  <2>3. QED  BY <2>1, <2>2 DEF Contract!Next
<1>6. CASE Probe
  <2>1. CASE calls' = calls
    BY <2>1, <1>6 DEF Probe, world
  <2>2. CASE calls' # calls
    <3>1. Return("start", "ok") /\ pc = "probe" /\ UNCHANGED <<world, held, state>>
      BY <2>2, <1>6 DEF Probe, docker
    <3>2. QED
      <4>1. Runs("start") /\ Excused("start", "ok")
        BY <3>1, HeldExists DEF Runs, Excused, StartPoints
      <4>2. Kept("start", "ok")
        BY <3>1, HeldExists DEF Kept, StartPoints
      <4>3. QED
        BY <3>1, HeldExists, <4>1, <4>2, ReturnIsPromised DEF world, Contract!Next
  <2>3. QED  BY <2>1, <2>2 DEF Contract!Next
<1>7. CASE Wait
  <2>1. CASE calls' = calls
    BY <2>1, <1>7 DEF Wait, world
  <2>2. CASE calls' # calls
    <3>1. Return("start", "failure") /\ pc = "wait" /\ canceled /\ UNCHANGED <<world, held, state>>
      BY <2>2, <1>7 DEF Wait, docker
    <3>2. QED
      <4>1. Runs("start") /\ Excused("start", "failure")
        BY <3>1, HeldExists DEF Runs, Excused, StartPoints
      <4>2. Kept("start", "failure")
        BY <3>1, HeldExists DEF Kept, StartPoints
      <4>3. QED
        BY <3>1, HeldExists, <4>1, <4>2, ReturnIsPromised DEF world, Contract!Next
  <2>3. QED  BY <2>1, <2>2 DEF Contract!Next
<1>8. CASE Inspect
  <2>1. CASE calls' = calls
    BY <2>1, <1>8 DEF Inspect, world
  <2>2. CASE calls' # calls
    <3>1. /\ pc = "inspect" /\ UNCHANGED world
          /\ \/ DockerFails /\ Return("check", "operational")
             \/ state[at] = "exited" /\ Return("check", "failure")
      BY <2>2, <1>8 DEF Inspect
    <3>2. at \in Indexes /\ (state[at] = "exited" => "exit" \in faults)
      BY <3>1 DEF IInv, TypeOK, Blamed, Whole
    <3>3. CASE DockerFails /\ Return("check", "operational")
      <4>1. Runs("check") /\ Excused("check", "operational")
        BY <3>1, <3>3 DEF Runs, Excused, DockerFails
      <4>2. Kept("check", "operational")
        BY <3>1, <3>3 DEF Kept, DockerFails
      <4>3. QED
        BY <3>1, <3>3, <4>1, <4>2, ReturnIsPromised DEF world, Contract!Next
    <3>4. CASE state[at] = "exited" /\ Return("check", "failure")
      <4>1. Runs("check") /\ Excused("check", "failure")
        BY <3>1, <3>2, <3>4 DEF Runs, Excused, Blame
      <4>2. Kept("check", "failure")
        BY <3>1, <3>2, <3>4 DEF Kept, Blame
      <4>3. QED
        BY <3>1, <3>2, <3>4, <4>1, <4>2, ReturnIsPromised DEF world, Contract!Next
    <3>5. QED  BY <3>1, <3>3, <3>4
  <2>3. QED  BY <2>1, <2>2 DEF Contract!Next
<1>9. CASE CheckProbe
  <2>1. CASE calls' = calls
    BY <2>1, <1>9 DEF CheckProbe, world
  <2>2. CASE calls' # calls
    <3>1. /\ pc = "check" /\ UNCHANGED world /\ held = Count
          /\ \E result \in ProbeResults : Return("check", IF result = "ready" THEN "ok" ELSE result)
          /\ \A result \in ProbeResults : result \in {"ready", "failure", "operational"}
      <4>1. /\ pc = "check" /\ UNCHANGED world /\ held = Count
            /\ \E result \in ProbeResults : Return("check", IF result = "ready" THEN "ok" ELSE result)
        BY <2>2, <1>9 DEF CheckProbe, IInv, Counted
      <4>2. \A result \in ProbeResults : result \in {"ready", "failure", "operational"}
        BY DEF ProbeResults
      <4>3. QED  BY <4>1, <4>2
    <3>2. PICK result \in ProbeResults : Return("check", IF result = "ready" THEN "ok" ELSE result)
      BY <3>1
    <3>3. CASE result = "ready"
      <4>1. Return("check", "ok")
        BY <3>2, <3>3
      <4>2. QED
        <5>1. Runs("check") /\ Excused("check", "ok")
          BY <3>1, <4>1 DEF Runs, Excused
        <5>2. Kept("check", "ok")
          BY <3>1, <4>1 DEF Kept
        <5>3. QED
          BY <3>1, <4>1, <5>1, <5>2, ReturnIsPromised DEF world, Contract!Next
    <3>4. CASE result = "operational"
      <4>1. "docker" \in faults
        BY <3>4 DEF ProbeResults
      <4>2. Return("check", "operational")
        BY <3>2, <3>4
      <4>3. QED
        <5>1. Runs("check") /\ Excused("check", "operational")
          BY <3>1, <4>1, <4>2 DEF Runs, Excused
        <5>2. Kept("check", "operational")
          BY <3>1, <4>1, <4>2 DEF Kept
        <5>3. QED
          BY <3>1, <4>1, <4>2, <5>1, <5>2, ReturnIsPromised DEF world, Contract!Next
    <3>5. CASE result = "failure"
      <4>1. (canceled /\ Carried) \/ Blame \/ (Commands /\ "docker" \in faults)
        BY <3>1, <3>5, CountAssumption DEF ProbeResults, Answers, Commands, Carried, Blame, IInv, TypeOK, Blamed, Answered, Whole, Placed, Ran, Indexes
      <4>2. Return("check", "failure")
        BY <3>2, <3>5
      <4>3. QED
        <5>1. Runs("check") /\ Excused("check", "failure")
          BY <3>1, <4>1, <4>2 DEF Runs, Excused
        <5>2. Kept("check", "failure")
          BY <3>1, <4>1, <4>2 DEF Kept
        <5>3. QED
          BY <3>1, <4>1, <4>2, <5>1, <5>2, ReturnIsPromised DEF world, Contract!Next
    <3>6. QED
      BY <3>1, <3>3, <3>4, <3>5
  <2>3. QED  BY <2>1, <2>2 DEF Contract!Next
<1>10. CASE RemoveContainer
  <2>1. CASE calls' = calls
    BY <2>1, <1>10 DEF RemoveContainer, world
  <2>2. CASE calls' # calls
    <3>1. /\ pc = "remove" /\ UNCHANGED world /\ at = 1
          /\ Return("stop", IF refused' = {} THEN "ok" ELSE "operational")
      BY <2>2, <1>10 DEF RemoveContainer, Onward, IInv, TypeOK, Indexes
    <3>2. CASE refused' = {}
      <4>1. \A i \in Indexes : state'[i] = "none"
        BY <1>10, <3>1, <3>2, RemoveLeaves DEF Indexes
      <4>2. Return("stop", "ok")
        BY <3>1, <3>2
      <4>3. QED
        <5>1. Runs("stop") /\ Excused("stop", "ok")
          BY <3>1, <4>1, <4>2 DEF Runs, Excused
        <5>2. Kept("stop", "ok")
          BY <3>1, <4>1, <4>2 DEF Kept
        <5>3. QED
          BY <3>1, <4>1, <4>2, <5>1, <5>2, ReturnIsPromised DEF world, Contract!Next
    <3>3. CASE refused' # {}
      <4>1. refused # {} \/ DockerFails
        BY <1>10, <3>3 DEF RemoveContainer
      <4>2. Return("stop", "operational")
        BY <3>1, <3>3
      <4>3. refused # {} => canceled \/ "docker" \in faults
        BY <3>1 DEF IInv, Blamed
      <4>4. QED
        <5>1. Runs("stop") /\ Excused("stop", "operational")
          BY <3>1, <4>1, <4>2, <4>3 DEF Runs, Excused, DockerFails
        <5>2. Kept("stop", "operational")
          BY <3>1, <4>1, <4>2, <4>3 DEF Kept, DockerFails
        <5>3. QED
          BY <3>1, <4>1, <4>2, <4>3, <5>1, <5>2, ReturnIsPromised DEF world, Contract!Next
    <3>4. QED
      BY <3>2, <3>3
  <2>3. QED  BY <2>1, <2>2 DEF Contract!Next
<1>11. CASE BeginStart
  BY <1>11 DEF BeginStart, world
<1>12. CASE BeginWait
  BY <1>12 DEF BeginWait, world
<1>13. CASE BeginCheck
  BY <1>13 DEF BeginCheck, world
<1>14. CASE BeginStop
  BY <1>14 DEF BeginStop, world
<1>15. CASE StopContainer
  BY <1>15 DEF StopContainer, world
<1>16. CASE LosesReadiness
  BY <1>16 DEF LosesReadiness, world
<1>17. CASE Exits
  BY <1>17 DEF Exits, world
<1>18. CASE Expire
  BY <1>18 DEF Expire, world
<1>19. CASE Signal
  BY <1>19 DEF Signal, Contract!Next, Contract!Signal
<1>20. ASSUME NEW k \in Indexes, Answer(k)
      PROVE  UNCHANGED <<faults, canceled, calls>>
  BY <1>20 DEF Answer, world
<1>21. CASE UNCHANGED vars
  BY <1>21 DEF vars, world
<1>22. QED
  BY <1>1, <1>2, <1>3, <1>4, <1>5, <1>6, <1>7, <1>8, <1>9, <1>10, <1>11, <1>12, <1>13, <1>14, <1>15, <1>16, <1>17, <1>18, <1>19, <1>20, <1>21 DEF Next, Program, Environment, Terminated

\* Whatever a role's components, networks and faults, the orchestrator may
\* take it for the one container of its contract.
THEOREM PromiseKept == Spec => Promise
<1>1. Init => Contract!Init
  BY DEF Init, Contract!Init
<1>2. IInv /\ [Next]_vars => [Contract!Next]_<<faults, canceled, calls>>
  BY StepIsPromised
<1>3. QED  BY <1>1, <1>2, ComponentsInvariant, PTL DEF Spec, Promise, Contract!Spec

-----------------------------------------------------------------------------
(***************************************************************************)
(* What Check has been past.                                               *)
(***************************************************************************)

\* No component that had exited before Check began is behind its loop.
Sighted ==
  /\ pc \in {"inspect", "check"} =>
       /\ dead \subseteq Indexes
       /\ \A i \in dead : state[i] = "exited"
       /\ \A i \in dead : i >= at
       /\ pc = "check" => at \notin dead
  /\ DeadAreFound

\* Nothing has been checked before the first call.
LEMMA InitSighted == Init => Sighted
BY DEF Init, Sighted, DeadAreFound

\* No step puts an exited component behind the loop of Check.
LEMMA NextSighted == IInv /\ Sighted /\ [Next]_vars => Sighted'
<1> SUFFICES ASSUME IInv, Sighted, [Next]_vars
             PROVE  Sighted'
  OBVIOUS
<1> USE DEF Sighted, DeadAreFound
<1>1. CASE BeginStart
  BY <1>1 DEF BeginStart, world, docker, wait, ghosts
<1>2. CASE BeginWait
  BY <1>2 DEF BeginWait, world, docker, wait, ghosts
<1>3. CASE BeginCheck
  BY <1>3 DEF BeginCheck, world, docker, wait, ghosts, Indexes, IInv, TypeOK
<1>4. CASE BeginStop
  BY <1>4 DEF BeginStop, world, docker, wait, ghosts
<1>5. CASE StopContainer
  BY <1>5 DEF StopContainer, world, docker, wait, ghosts
<1>6. CASE CreateContainer
  <2>1. CASE pc' \in StartPoints
    BY <2>1 DEF StartPoints
  <2>2. CASE pc' \notin StartPoints
    <3>1. \E result \in {"ok", "operational", "failure"} : Return("start", result)
      BY <2>2, <1>6 DEF CreateContainer, StartPoints
    <3>2. calls' # <<>> /\ calls'[Len(calls')].op = "start" /\ pc' \in {"idle", "over"}
      BY <3>1, ReturnTyped DEF IInv, TypeOK, Call, Return
    <3>3. QED  BY <3>2
  <2>3. QED  BY <2>1, <2>2
<1>7. CASE ConnectNetwork
  <2>1. CASE pc' \in StartPoints
    BY <2>1 DEF StartPoints
  <2>2. CASE pc' \notin StartPoints
    <3>1. \E result \in {"ok", "operational", "failure"} : Return("start", result)
      BY <2>2, <1>7 DEF ConnectNetwork, StartPoints
    <3>2. calls' # <<>> /\ calls'[Len(calls')].op = "start" /\ pc' \in {"idle", "over"}
      BY <3>1, ReturnTyped DEF IInv, TypeOK, Call, Return
    <3>3. QED  BY <3>2
  <2>3. QED  BY <2>1, <2>2
<1>8. CASE StartContainer
  <2>1. CASE pc' \in StartPoints
    BY <2>1 DEF StartPoints
  <2>2. CASE pc' \notin StartPoints
    <3>1. \E result \in {"ok", "operational", "failure"} : Return("start", result)
      BY <2>2, <1>8 DEF StartContainer, StartPoints
    <3>2. calls' # <<>> /\ calls'[Len(calls')].op = "start" /\ pc' \in {"idle", "over"}
      BY <3>1, ReturnTyped DEF IInv, TypeOK, Call, Return
    <3>3. QED  BY <3>2
  <2>3. QED  BY <2>1, <2>2
<1>9. CASE HostEndpoint
  <2>1. CASE pc' \in StartPoints
    BY <2>1 DEF StartPoints
  <2>2. CASE pc' \notin StartPoints
    <3>1. \E result \in {"ok", "operational", "failure"} : Return("start", result)
      BY <2>2, <1>9 DEF HostEndpoint, StartPoints
    <3>2. calls' # <<>> /\ calls'[Len(calls')].op = "start" /\ pc' \in {"idle", "over"}
      BY <3>1, ReturnTyped DEF IInv, TypeOK, Call, Return
    <3>3. QED  BY <3>2
  <2>3. QED  BY <2>1, <2>2
<1>10. CASE Poll
  <2>1. CASE pc' \in StartPoints
    BY <2>1 DEF StartPoints
  <2>2. CASE pc' \notin StartPoints
    <3>1. \E result \in {"ok", "operational", "failure"} : Return("start", result)
      BY <2>2, <1>10 DEF Poll, StartPoints
    <3>2. calls' # <<>> /\ calls'[Len(calls')].op = "start" /\ pc' \in {"idle", "over"}
      BY <3>1, ReturnTyped DEF IInv, TypeOK, Call, Return
    <3>3. QED  BY <3>2
  <2>3. QED  BY <2>1, <2>2
<1>11. CASE Probe
  <2>1. CASE pc' \in StartPoints
    BY <2>1 DEF StartPoints
  <2>2. CASE pc' \notin StartPoints
    <3>1. \E result \in {"ok", "operational", "failure"} : Return("start", result)
      BY <2>2, <1>11 DEF Probe, StartPoints
    <3>2. calls' # <<>> /\ calls'[Len(calls')].op = "start" /\ pc' \in {"idle", "over"}
      BY <3>1, ReturnTyped DEF IInv, TypeOK, Call, Return
    <3>3. QED  BY <3>2
  <2>3. QED  BY <2>1, <2>2
<1>12. CASE Wait
  <2>1. CASE pc' \in StartPoints
    BY <2>1 DEF StartPoints
  <2>2. CASE pc' \notin StartPoints
    <3>1. \E result \in {"ok", "operational", "failure"} : Return("start", result)
      BY <2>2, <1>12 DEF Wait, StartPoints
    <3>2. calls' # <<>> /\ calls'[Len(calls')].op = "start" /\ pc' \in {"idle", "over"}
      BY <3>1, ReturnTyped DEF IInv, TypeOK, Call, Return
    <3>3. QED  BY <3>2
  <2>3. QED  BY <2>1, <2>2
<1>13. CASE Inspect
  <2>1. CASE pc' = "check"
    BY <2>1, <1>13 DEF Inspect, Return, docker, ghosts
  <2>2. CASE pc' # "check"
    <3>1. \E result \in {"operational", "failure"} : Return("check", result)
      BY <2>2, <1>13 DEF Inspect
    <3>2. /\ calls' # <<>> /\ calls'[Len(calls')].result # "ok" /\ pc' \in {"idle", "over"}
      BY <3>1, ReturnTyped DEF IInv, TypeOK, Call, Return
    <3>3. QED  BY <3>2
  <2>3. QED  BY <2>1, <2>2
<1>14. CASE CheckProbe
  <2>1. CASE pc' = "inspect"
    <3>1. at' = at + 1 /\ UNCHANGED <<state, dead, calls>> /\ pc = "check"
      BY <2>1, <1>14 DEF CheckProbe, Return, docker, ghosts
    <3>2. QED  BY <2>1, <3>1 DEF IInv, TypeOK, Indexes
  <2>2. CASE pc' # "inspect"
    <3>1. PICK result \in {"ok", "operational", "failure"} :
            Return("check", result) /\ (result = "ok" => Checked)
      BY <2>2, <1>14 DEF CheckProbe, ProbeResults
    <3>2. /\ calls' # <<>> /\ calls'[Len(calls')].result = result
          /\ pc' \in {"idle", "over"} /\ dead' = dead /\ pc = "check"
      BY <3>1, <1>14, ReturnTyped DEF IInv, TypeOK, Call, Return, CheckProbe, ghosts
    <3>3. Checked => dead = {}
      BY <3>2, CountAssumption DEF IInv, TypeOK, Counted, Checked, Indexes
    <3>4. QED  BY <3>1, <3>2, <3>3
  <2>3. QED  BY <2>1, <2>2
<1>15. CASE RemoveContainer
  <2>1. CASE at > 1
    BY <2>1, <1>15 DEF RemoveContainer, Onward
  <2>2. CASE ~ at > 1
    <3>1. \E result \in {"ok", "operational"} : Return("stop", result)
      BY <2>2, <1>15 DEF RemoveContainer, Onward
    <3>2. calls' # <<>> /\ calls'[Len(calls')].op = "stop" /\ pc' \in {"idle", "over"}
      BY <3>1, ReturnTyped DEF IInv, TypeOK, Call, Return
    <3>3. QED  BY <3>2
  <2>3. QED  BY <2>1, <2>2
<1>16. CASE Signal
  BY <1>16 DEF Signal, world, docker, wait, ghosts
<1>17. CASE LosesReadiness
  BY <1>17 DEF LosesReadiness, world, docker, wait, ghosts
<1>18. CASE Exits
  BY <1>18 DEF Exits, world, docker, wait, ghosts, IInv, TypeOK
<1>19. CASE Expire
  BY <1>19 DEF Expire, world, docker, wait, ghosts
<1>20. ASSUME NEW k \in Indexes, Answer(k)
      PROVE  Sighted'
  BY <1>20 DEF Answer, world, docker, wait, ghosts
<1>21. CASE UNCHANGED vars
  BY <1>21 DEF vars, world, docker, wait, ghosts
<1>22. QED
  BY <1>1, <1>2, <1>3, <1>4, <1>5, <1>6, <1>7, <1>8, <1>9, <1>10, <1>11, <1>12, <1>13, <1>14, <1>15, <1>16, <1>17, <1>18, <1>19, <1>20, <1>21
  DEF Next, Program, Environment, Terminated

\* A Check that passes has found none that had exited before it.
THEOREM DeadHolds == Spec => []DeadAreFound
<1>1. IInv /\ Sighted /\ [Next]_vars => Sighted'
  BY NextSighted
<1>2. Sighted => DeadAreFound
  BY DEF Sighted
<1>3. QED  BY InitSighted, <1>1, <1>2, ComponentsInvariant, PTL DEF Spec

\* A component starts in its turn, into surroundings that are complete.
THEOREM TurnHolds == Spec => []StartedInTurn
BY OrderHolds, AttachedHolds, PTL DEF StartedInTurn

\* Whatever fails, no container of the role is left that neither an error names
\* nor the end of the run explains.
THEOREM AccountHolds == Spec => []LeftIsAccounted
BY UnknownHolds, LeftHolds, PTL DEF LeftIsAccounted

-----------------------------------------------------------------------------
(***************************************************************************)
(* The safety half of CallsReturn, for any number of components.           *)
(***************************************************************************)

Outside == {"idle", "over"}
Waiting == {"poll", "probe", "wait"}

\* How far a loop is with the component it is at.
Turn(point) ==
  CASE point \in {"create", "inspect", "stop"} -> 1
    [] point \in {"connect", "check", "remove"} -> 2
    [] point = "start" -> 3 [] point = "endpoint" -> 4 [] point = "deadline" -> 5
    [] point = "poll" -> 6 [] point = "probe" -> 7 [] point = "wait" -> 8
    [] OTHER -> 0

CallOf(point) ==
  CASE point \in StartPoints -> "start" [] point \in {"inspect", "check"} -> "check"
    [] point \in {"stop", "remove"} -> "stop" [] OTHER -> "none"

\* The step ends the call, or takes up the next component, or comes further with
\* the present one, or begins another poll of it.
Nearer ==
  \/ pc' \in Outside
  \/ /\ CallOf(pc') = CallOf(pc)
     /\ \/ at' = (IF CallOf(pc) = "stop" THEN at - 1 ELSE at + 1)
        \/ at' = at /\ Turn(pc') > Turn(pc)
        \/ at' = at /\ pc' = pc /\ attached'[at] > attached[at]
        \/ at' = at /\ pc = "wait" /\ pc' = "poll"

\* No call goes back, nor does what runs beside it send it back; it may only poll a
\* component again, until the deadline: behind it the next poll ends the call
\* (manager.go: StartAll, WaitReady, Check, StopAll).
CallsGoOn ==
  [][/\ pc \notin Outside => Nearer \/ UNCHANGED <<pc, at, attached>>
     /\ Program /\ pc \notin Outside => Nearer
     /\ expired /\ pc \in Waiting /\ pc' \in Waiting => expired'
     /\ expired /\ pc = "poll" => pc' \in {"poll"} \union Outside]_vars

\* A call always has a next step: the component it looks at has been started, the
\* probe answers something, and the loop is inside the role.
CallsHaveSteps ==
  /\ pc \in {"endpoint", "poll", "inspect"} => state[at] \in {"running", "exited"}
  /\ pc \in {"probe", "check"} => ProbeResults # {}
  /\ pc \in {"inspect", "check", "stop", "remove"} => at <= held

LEMMA ProbeAnswers == ProbeResults # {}
<1>1. CASE Readiness[at] = "docker-health"
  BY <1>1 DEF ProbeResults
<1>2. CASE Readiness[at] # "docker-health" /\ Answers
  <2>1. "ready" \in ProbeResults
    BY <1>2 DEF ProbeResults
  <2> QED BY <2>1
<1>3. CASE Readiness[at] # "docker-health" /\ ~ Answers
  <2>1. "failure" \in ProbeResults
    BY <1>3 DEF ProbeResults
  <2> QED BY <2>1
<1> QED BY <1>1, <1>2, <1>3

LEMMA StepGoesOn ==
  ASSUME IInv, [Next]_vars
  PROVE  /\ pc \notin Outside => Nearer \/ UNCHANGED <<pc, at, attached>>
         /\ Program /\ pc \notin Outside => Nearer
         /\ expired /\ pc \in Waiting /\ pc' \in Waiting => expired'
         /\ expired /\ pc = "poll" => pc' \in {"poll"} \union Outside
<1> USE DEF Outside, Waiting, StartPoints, Turn, CallOf
<1>0. /\ at \in Nat /\ attached \in [Indexes -> 0 .. Networks] /\ at \in Indexes
      /\ \A op, result : Return(op, result) => pc' \in Outside
  BY DEF IInv, TypeOK, Indexes, Return
<1>1. CASE BeginStart \/ BeginCheck \/ BeginStop
  BY <1>1 DEF BeginStart, BeginCheck, BeginStop
<1>2. CASE CreateContainer \/ StartContainer \/ HostEndpoint
  BY <1>0, <1>2 DEF CreateContainer, StartContainer, HostEndpoint, Nearer
<1>3. CASE ConnectNetwork
  <2>1. CASE Connected /\ pc' = "start"
    BY <1>3, <2>1 DEF ConnectNetwork, Nearer
  <2>2. CASE attached' = [attached EXCEPT ![at] = @ + 1] /\ pc' = pc
    <3>1. attached[at] \in Nat
      BY <1>0
    <3>2. attached'[at] = attached[at] + 1
      BY <1>0, <2>2
    <3>3. attached'[at] > attached[at]
      BY <3>1, <3>2
    <3> QED BY <1>3, <2>2, <3>3 DEF ConnectNetwork, Nearer
  <2>3. CASE Return("start", "operational")
    BY <1>0, <1>3, <2>3 DEF ConnectNetwork, Nearer
  <2> QED BY <1>3, <2>1, <2>2, <2>3 DEF ConnectNetwork
<1>4. CASE BeginWait \/ Wait
  BY <1>0, <1>4 DEF BeginWait, Wait, wait, Nearer
<1>5. CASE Poll
  BY <1>0, <1>5 DEF Poll, Nearer
<1>6. CASE Probe
  BY <1>0, <1>6 DEF Probe, Nearer
<1>7. CASE Inspect \/ CheckProbe
  BY <1>0, <1>7 DEF Inspect, CheckProbe, Nearer
<1>8. CASE StopContainer \/ RemoveContainer
  BY <1>0, <1>8 DEF StopContainer, RemoveContainer, Onward, Nearer
<1>9. CASE ~ Program
  <2>1. UNCHANGED <<pc, at, attached>> /\ (expired => expired')
    BY <1>9 DEF Next, Environment, Terminated, Signal, Answer, LosesReadiness, Exits,
       Expire, vars, wait, docker, world
  <2> QED BY <1>9, <2>1
<1> QED BY <1>1, <1>2, <1>3, <1>4, <1>5, <1>6, <1>7, <1>8, <1>9 DEF Program

\* A call of a role comes nearer to its end with every step, but for the polls
\* before the deadline.
THEOREM CallsGoOnHolds == Spec => CallsGoOn
<1>1. IInv /\ [Next]_vars =>
        [/\ pc \notin Outside => Nearer \/ UNCHANGED <<pc, at, attached>>
         /\ Program /\ pc \notin Outside => Nearer
         /\ expired /\ pc \in Waiting /\ pc' \in Waiting => expired'
         /\ expired /\ pc = "poll" => pc' \in {"poll"} \union Outside]_vars
  BY StepGoesOn
<1> QED BY <1>1, ComponentsInvariant, PTL DEF Spec, CallsGoOn

\* No call gets stuck.
THEOREM CallsHaveStepsHolds == Spec => []CallsHaveSteps
<1>1. IInv => CallsHaveSteps
  BY ProbeAnswers, CountAssumption DEF IInv, TypeOK, Counted, Placed, Ran, StartPoints,
     Whole, CallsHaveSteps, Indexes
<1> QED BY <1>1, ComponentsInvariant, PTL
=============================================================================
