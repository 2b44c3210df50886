-------------------------- MODULE WorkloadsProofs ---------------------------
(***************************************************************************)
(* What an accepted configuration guarantees the run, and what the         *)
(* lifecycle may count on of a scenario, for every configuration and every *)
(* set of faults.                                                          *)
(***************************************************************************)
EXTENDS Workloads, TLAPS

-----------------------------------------------------------------------------
(***************************************************************************)
(* The defaults and the reuse of the baseline keep the types.              *)
(***************************************************************************)

\* The defaults of a step leave a step.
LEMMA StepDefaultsTyped ==
  ASSUME NEW s \in Step, NEW d \in [timeout : Int, revision : Revisions]
  PROVE  StepDefaults(s, d) \in Step
BY DEF StepDefaults, Step, OrDefault

\* The defaults of a scenario leave a scenario.
LEMMA ScenarioDefaultsTyped ==
  ASSUME NEW s \in Scenario, NEW d \in [timeout : Int, revision : Revisions]
  PROVE  ScenarioDefaults(s, d) \in Scenario
<1> DEFINE steps == [i \in DOMAIN s.steps |-> StepDefaults(s.steps[i], d)]
<1>1. s.steps \in Seq(Step) /\ s.name \in Names /\ s.mutates \in BOOLEAN /\ s.repeat \in Int
  BY DEF Scenario
<1>2. steps \in Seq(Step)
  <2>1. \A i \in DOMAIN s.steps : StepDefaults(s.steps[i], d) \in Step
    BY <1>1, StepDefaultsTyped
  <2>2. QED  BY <1>1, <2>1
<1>3. ScenarioDefaults(s, d) =
        [name |-> s.name, mutates |-> s.mutates, repeat |-> OrDefault(s.repeat, 1), steps |-> steps]
  BY DEF ScenarioDefaults
<1>4. OrDefault(s.repeat, 1) \in Int
  BY <1>1 DEF OrDefault
<1> HIDE DEF steps
<1>5. QED  BY <1>1, <1>2, <1>3, <1>4 DEF Scenario

\* The defaults of a configuration leave a configuration.
LEMMA WithDefaultsTyped ==
  ASSUME NEW c \in Config
  PROVE  WithDefaults(c) \in Config
<1> DEFINE components == [i \in DOMAIN c.components |-> ComponentDefaults(c.components[i])]
           hooks == [h \in HookLists |-> [i \in DOMAIN c.hooks[h] |-> HookDefaults(c.hooks[h][i])]]
           lists == [l \in Lists |->
                       [i \in DOMAIN c.lists[l] |-> ScenarioDefaults(c.lists[l][i], c.defaults)]]
<1>1. /\ c.components \in Seq(Component)
      /\ c.hooks \in [HookLists -> Seq(Hook)]
      /\ c.lists \in [Lists -> Seq(Scenario)]
      /\ c.defaults \in [timeout : Int, revision : Revisions]
  BY DEF Config
<1>2. /\ c.services \in Seq((Roles \union {"none"}) \X Names)
      /\ c.reuse \in [Groups -> BOOLEAN]
      /\ c.logLimit \in Int /\ c.startup \in Int /\ c.shutdown \in Int /\ c.defects \in Defects
  BY DEF Config
<1>3. components \in Seq(Component)
  <2>1. \A k \in Component : ComponentDefaults(k) \in Component
    BY DEF Component, ComponentDefaults, OrDefault
  <2>2. QED  BY <1>1, <2>1
<1>4. hooks \in [HookLists -> Seq(Hook)]
  <2>1. \A h \in Hook : HookDefaults(h) \in Hook
    BY DEF Hook, HookDefaults, OrDefault
  <2>2. \A l \in HookLists : [i \in DOMAIN c.hooks[l] |-> HookDefaults(c.hooks[l][i])] \in Seq(Hook)
    BY SMTT(30), <1>1, <2>1
  <2>3. QED  BY <2>2
<1>5. lists \in [Lists -> Seq(Scenario)]
  <2>1. \A s \in Scenario : ScenarioDefaults(s, c.defaults) \in Scenario
    BY <1>1, ScenarioDefaultsTyped
  <2>2. \A l \in Lists :
          [i \in DOMAIN c.lists[l] |-> ScenarioDefaults(c.lists[l][i], c.defaults)] \in Seq(Scenario)
    BY <1>1, <2>1
  <2>3. QED  BY <2>2
<1>6. WithDefaults(c) =
        [components |-> components, services |-> c.services, hooks |-> hooks, lists |-> lists,
         reuse |-> c.reuse, defaults |-> c.defaults, logLimit |-> c.logLimit,
         startup |-> c.startup, shutdown |-> c.shutdown, defects |-> c.defects]
  BY DEF WithDefaults
<1> HIDE DEF components, hooks, lists
<1>7. QED  BY <1>1, <1>2, <1>3, <1>4, <1>5, <1>6 DEF Config

\* A reused baseline has the steps it had, with other targets.
LEMMA RemapTyped ==
  ASSUME NEW scenarios \in Seq(Scenario), NEW role \in Roles
  PROVE  /\ RemapBaseline(scenarios, role) \in Seq(Scenario)
         /\ DOMAIN RemapBaseline(scenarios, role) = DOMAIN scenarios
<1>1. \A s \in Step : Remapped(s, role) \in Step
  BY DEF Remapped, Step, NoTarget
<1>2. ASSUME NEW s \in Scenario
      PROVE  [name |-> s.name, mutates |-> s.mutates, repeat |-> s.repeat,
              steps |-> [k \in DOMAIN s.steps |-> Remapped(s.steps[k], role)]] \in Scenario
  <2> DEFINE steps == [k \in DOMAIN s.steps |-> Remapped(s.steps[k], role)]
  <2>1. s.steps \in Seq(Step) /\ s.name \in Names /\ s.mutates \in BOOLEAN /\ s.repeat \in Int
    BY DEF Scenario
  <2>2. steps \in Seq(Step)
    BY <1>1, <2>1
  <2> HIDE DEF steps
  <2>3. [name |-> s.name, mutates |-> s.mutates, repeat |-> s.repeat, steps |-> steps] \in Scenario
    BY <2>1, <2>2 DEF Scenario
  <2>4. QED  BY <2>3 DEF steps
<1>3. QED  BY <1>2 DEF RemapBaseline

\* The scenarios of every stage are scenarios.
LEMMA StageTyped ==
  ASSUME NEW c \in Config, NEW s \in Stages
  PROVE  StageScenarios(c, s) \in Seq(Scenario)
<1>1. c.lists \in [Lists -> Seq(Scenario)]
  BY DEF Config
<1>2. ASSUME NEW g \in Groups, NEW role \in Roles
      PROVE  GroupScenarios(c, g, role) \in Seq(Scenario)
  BY <1>1, RemapTyped DEF GroupScenarios, Groups, Lists
<1>3. CASE s = "COEXISTENCE"
  BY <1>1, <1>3 DEF StageScenarios, Lists
<1>4. CASE s \in {"BASELINE", "CANDIDATE_TRAFFIC"}
  BY <1>1, <1>4 DEF StageScenarios, Lists
<1>5. CASE s \in {"BASE_AFTER_TRANSITION_CONTROL", "CANDIDATE_CONTROL",
                  "BASE_WITH_CANDIDATE_CONTROL", "ROLLBACK"}
  BY <1>2, <1>5 DEF StageScenarios, Groups, Roles
<1>6. QED  BY <1>3, <1>4, <1>5 DEF Stages

-----------------------------------------------------------------------------
(***************************************************************************)
(* What Validate accepted.                                                 *)
(***************************************************************************)

JudgedIn(s) ==
  IF s = "COEXISTENCE" THEN Roles
  ELSE IF s \in {"CANDIDATE_CONTROL", "CANDIDATE_TRAFFIC"} THEN {"candidate"}
  ELSE {"base"}

\* A target that a stage may have.
Fits(c, roles, target) ==
  target = NoTarget \/ (target[1] \in roles /\ target[2] \in Addressable(c))

\* A scenario that can be run, by components of these roles.
Sound(c, roles, s) ==
  /\ s.repeat \in 1 .. MaxRepeat
  /\ s.steps # <<>>
  /\ \A k \in DOMAIN s.steps : Fits(c, roles, s.steps[k].target)

\* Whatever the list, its accepted scenarios are sound for its roles.
LEMMA ListSound ==
  ASSUME NEW c \in Config, Accepts(c), NEW l \in Lists, NEW i \in DOMAIN c.lists[l]
  PROVE  Sound(c, RolesOf(l), c.lists[l][i])
BY DEF Accepts, ValidList, ValidScenario, ValidStep, Sound, Fits

\* A scenario is as sound after RemapBaseline, for the new role.
LEMMA RemapSound ==
  ASSUME NEW c \in Config, NEW list \in Seq(Scenario), NEW role \in Roles, NEW i \in DOMAIN list,
         Sound(c, {"base"}, list[i])
  PROVE  Sound(c, {role}, RemapBaseline(list, role)[i])
<1> DEFINE s == list[i]
           steps == [k \in DOMAIN s.steps |-> Remapped(s.steps[k], role)]
<1>1. RemapBaseline(list, role)[i] =
        [name |-> s.name, mutates |-> s.mutates, repeat |-> s.repeat, steps |-> steps]
  BY DEF RemapBaseline
<1>2. s \in Scenario /\ s.steps \in Seq(Step)
  <2>1. s \in Scenario
    OBVIOUS
  <2> HIDE DEF s
  <2>2. QED  BY <2>1 DEF Scenario
<1>3. steps # <<>>
  BY <1>2 DEF Sound
<1>4. \A k \in DOMAIN steps : Fits(c, {role}, steps[k].target)
  BY <1>2 DEF Sound, Fits, Remapped, Step, NoTarget
<1>5. s.repeat \in 1 .. MaxRepeat
  BY DEF Sound
<1> HIDE DEF steps, s
<1> DEFINE r == RemapBaseline(list, role)[i]
<1>6. r.repeat = s.repeat /\ r.steps = steps
  BY <1>1
<1> HIDE DEF r
<1>7. Sound(c, {role}, r)
  BY <1>3, <1>4, <1>5, <1>6 DEF Sound
<1>8. QED  BY <1>7 DEF r

\* A group of an accepted configuration has scenarios, all sound in its role.
LEMMA GroupSound ==
  ASSUME NEW c \in Config, Accepts(c), NEW g \in Groups, NEW role \in Roles, RolesOf(g) = {role}
  PROVE  /\ GroupScenarios(c, g, role) # <<>>
         /\ \A i \in DOMAIN GroupScenarios(c, g, role) :
              Sound(c, {role}, GroupScenarios(c, g, role)[i])
<1>1. /\ c.lists \in [Lists -> Seq(Scenario)]
      /\ c.lists["baseline"] \in Seq(Scenario) /\ g \in Lists /\ "baseline" \in Lists
  BY DEF Config, Lists, Groups
<1>2. c.reuse[g] = (c.lists[g] = <<>>) /\ c.lists["baseline"] # <<>>
  BY DEF Accepts, ValidGroup
<1>3. CASE c.reuse[g]
  <2>1. GroupScenarios(c, g, role) = RemapBaseline(c.lists["baseline"], role)
    BY <1>3 DEF GroupScenarios
  <2>2. RemapBaseline(c.lists["baseline"], role) # <<>>
    BY <1>1, <1>2, RemapTyped
  <2>3. \A i \in DOMAIN c.lists["baseline"] : Sound(c, {"base"}, c.lists["baseline"][i])
    BY <1>1, ListSound DEF RolesOf
  <2>4. QED  BY <1>1, <2>1, <2>2, <2>3, RemapSound, RemapTyped
<1>4. CASE ~ c.reuse[g]
  <2>1. GroupScenarios(c, g, role) = c.lists[g]
    BY <1>4 DEF GroupScenarios
  <2>2. QED  BY <1>1, <1>2, <1>4, <2>1, ListSound
<1>5. QED  BY <1>3, <1>4

\* Every stage of an accepted configuration has scenarios, and they are sound
\* for the releases the stage judges.
LEMMA StageSound ==
  ASSUME NEW c \in Config, Accepts(c), NEW s \in Stages
  PROVE  /\ StageScenarios(c, s) # <<>>
         /\ \A i \in DOMAIN StageScenarios(c, s) :
              Sound(c, JudgedIn(s), StageScenarios(c, s)[i])
<1>1. /\ c.lists["baseline"] \in Seq(Scenario) /\ c.lists["base_to_candidate"] \in Seq(Scenario)
      /\ c.lists["candidate_to_base"] \in Seq(Scenario) /\ c.lists["alternating"] \in Seq(Scenario)
      /\ c.lists["candidate_traffic"] \in Seq(Scenario)
  BY DEF Config, Lists
<1>2. /\ c.lists["baseline"] # <<>> /\ c.lists["base_to_candidate"] # <<>>
      /\ c.lists["candidate_to_base"] # <<>> /\ c.lists["candidate_traffic"] # <<>>
  BY <1>1 DEF Accepts, Mutates
<1>3. CASE s = "COEXISTENCE"
  <2> DEFINE a == c.lists["base_to_candidate"]
             b == c.lists["candidate_to_base"]
             d == c.lists["alternating"]
  <2>1. StageScenarios(c, s) = a \o b \o d
    BY <1>3 DEF StageScenarios
  <2>2. /\ \A i \in DOMAIN a : Sound(c, Roles, a[i])
        /\ \A i \in DOMAIN b : Sound(c, Roles, b[i])
        /\ \A i \in DOMAIN d : Sound(c, Roles, d[i])
    BY ListSound DEF RolesOf, Lists
  <2>3. a \in Seq(Scenario) /\ b \in Seq(Scenario) /\ d \in Seq(Scenario) /\ a # <<>>
    BY <1>1, <1>2
  <2>4. JudgedIn(s) = Roles
    BY <1>3 DEF JudgedIn
  <2> HIDE DEF a, b, d
  <2>5. a \o b \o d # <<>>
    BY <2>3
  <2>6. ASSUME NEW i \in DOMAIN (a \o b \o d)
        PROVE  Sound(c, Roles, (a \o b \o d)[i])
    <3>1. CASE i \in DOMAIN a
      BY <2>2, <2>3, <3>1
    <3>2. CASE i - Len(a) \in DOMAIN b /\ i > Len(a)
      BY <2>2, <2>3, <3>2
    <3>3. CASE i - Len(a) - Len(b) \in DOMAIN d /\ i > Len(a) + Len(b)
      BY <2>2, <2>3, <3>3
    <3>4. QED  BY <2>3, <3>1, <3>2, <3>3
  <2>7. QED  BY <2>1, <2>4, <2>5, <2>6
<1>4. CASE s = "BASELINE"
  BY <1>2, <1>4, ListSound DEF StageScenarios, JudgedIn, RolesOf, Lists
<1>5. CASE s = "CANDIDATE_TRAFFIC"
  BY <1>2, <1>5, ListSound DEF StageScenarios, JudgedIn, RolesOf, Lists
<1>6. CASE s \in {"BASE_AFTER_TRANSITION_CONTROL", "BASE_WITH_CANDIDATE_CONTROL", "ROLLBACK"}
  <2>1. JudgedIn(s) = {"base"}
    BY <1>6 DEF JudgedIn
  <2>2. PICK g \in {"base_after_transition", "base_with_candidate_running", "rollback"} :
          StageScenarios(c, s) = GroupScenarios(c, g, "base")
    BY <1>6 DEF StageScenarios
  <2>3. RolesOf(g) = {"base"} /\ g \in Groups /\ "base" \in Roles
    BY DEF RolesOf, Groups, Roles
  <2>4. QED  BY <2>1, <2>2, <2>3, GroupSound
<1>7. CASE s = "CANDIDATE_CONTROL"
  <2>1. /\ JudgedIn(s) = {"candidate"}
        /\ StageScenarios(c, s) = GroupScenarios(c, "candidate_before_coexistence", "candidate")
    BY <1>7 DEF JudgedIn, StageScenarios
  <2>2. /\ RolesOf("candidate_before_coexistence") = {"candidate"}
        /\ "candidate_before_coexistence" \in Groups /\ "candidate" \in Roles
    BY DEF RolesOf, Groups, Roles
  <2>3. QED  BY <2>1, <2>2, GroupSound
<1>8. QED  BY <1>3, <1>4, <1>5, <1>6, <1>7 DEF Stages

-----------------------------------------------------------------------------
(***************************************************************************)
(* The inductive invariant.                                                *)
(***************************************************************************)

Result == [outcome : Outcomes, began : BOOLEAN, lost : BOOLEAN]

Logs == (Names \X Nat \X Names) \union {NoLog}

Finding == [at : Nat, name : Names, repeat : Nat, step : Nat, outcome : Outcomes,
            exited : BOOLEAN, launched : BOOLEAN, log : Logs]

Typed == TypeOK /\ results \in Seq(Finding)

\* The points at which a stage has scenarios before it.
Within == {"scenario", "step", "command", "between"}

\* The plan is that of an accepted configuration.
Planned ==
  pc \in Within \union {"done"} =>
    stage \in Stages /\ Accepts(config) /\ plan = StageScenarios(config, stage)

\* The loops stand at the scenario after the last one that returned.
Placed ==
  /\ pc \in Within => at \in DOMAIN plan
  /\ pc \in {"parse", "scenario", "between"} => repeat = 1 /\ step = 1
  /\ pc = "parse" => at = 1
  /\ pc \in Within \union {"parse"} =>
       /\ Len(returned) = at - 1
       /\ \A i \in DOMAIN returned : returned[i].outcome # "INCOMPLETE"

\* A scenario that has begun has a command that was started, and only a lost
\* event makes an error of it.
Evidence ==
  /\ BeganIsSound
  /\ pc \in {"step", "command"} /\ began =>
       \E i \in DOMAIN results : results[i].at = at /\ results[i].launched
  /\ lost => "artifacts" \in faults

WInv == Typed /\ Planned /\ Placed /\ Evidence

\* The type invariant without what it says of the loops.
Plain ==
  /\ faults \in FaultSets /\ config \in Config /\ plan \in Seq(Scenario)
  /\ stage \in Stages \union {"none"}
  /\ pc \in Within \union {"parse", "rejected", "done"}
  /\ at \in Nat /\ repeat \in Nat /\ step \in Nat

\* What the loops are at.
Looped ==
  pc \in {"step", "command"} =>
    at \in DOMAIN plan /\ repeat \in 1 .. Current.repeat /\ step \in DOMAIN Current.steps

Booleans == canceled \in BOOLEAN /\ began \in BOOLEAN /\ lost \in BOOLEAN

Recorded ==
  /\ returned \in Seq(Result) /\ results \in Seq(Finding)
  /\ DOMAIN files \subseteq Names \X Nat \X Names

\* The type invariant in parts, for the steps that disturb one of them.
LEMMA TypedParts == Typed <=> Plain /\ Looped /\ Booleans /\ Recorded
BY DEF Typed, TypeOK, Plain, Looped, Booleans, Recorded, Within, Result

\* The invariant holds before the configuration is parsed.
LEMMA InitInvariant == Init => WInv
<1> SUFFICES ASSUME Init
             PROVE  WInv
  OBVIOUS
<1>1. Plain
  BY DocumentsAssumption DEF Init, Plain
<1>2. Looped /\ Recorded /\ Booleans
  <2>1. Looped /\ Booleans
    BY DEF Init, Looped, Booleans
  <2>2. returned \in Seq(Result) /\ results \in Seq(Finding)
    BY DEF Init
  <2>3. DOMAIN files \subseteq Names \X Nat \X Names
    BY DEF Init
  <2>4. QED  BY <2>1, <2>2, <2>3 DEF Recorded
<1>3. Planned /\ Placed
  BY DEF Init, Planned, Placed, Within
<1>4. Evidence
  BY DEF Init, Evidence, BeganIsSound
<1>5. QED  BY <1>1, <1>2, <1>3, <1>4, TypedParts DEF WInv

\* The scenario that the loops are at.
LEMMA CurrentSound ==
  ASSUME WInv, pc \in Within
  PROVE  /\ plan \in Seq(Scenario) /\ at \in DOMAIN plan /\ at \in Nat
         /\ Current \in Scenario /\ Current.name \in Names /\ Current.steps \in Seq(Step)
         /\ Current.repeat \in 1 .. MaxRepeat /\ Current.steps # <<>>
         /\ \A k \in DOMAIN Current.steps : Fits(config, JudgedIn(stage), Current.steps[k].target)
<1>1. plan \in Seq(Scenario) /\ at \in DOMAIN plan /\ at \in Nat /\ config \in Config
  BY DEF WInv, Typed, TypeOK, Placed
<1>2. stage \in Stages /\ Accepts(config) /\ plan = StageScenarios(config, stage)
  BY DEF WInv, Planned
<1>3. Sound(config, JudgedIn(stage), Current)
  BY <1>1, <1>2, StageSound DEF Current
<1>4. Current \in Scenario
  BY <1>1 DEF Current
<1>5. Current.name \in Names /\ Current.steps \in Seq(Step)
  BY <1>4 DEF Scenario
<1>6. /\ Current.repeat \in 1 .. MaxRepeat /\ Current.steps # <<>>
      /\ \A k \in DOMAIN Current.steps : Fits(config, JudgedIn(stage), Current.steps[k].target)
  BY <1>3 DEF Sound
<1>7. QED  BY <1>1, <1>4, <1>5, <1>6

\* No step of an accepted configuration is without its component.
LEMMA TargetsFit ==
  ASSUME WInv
  PROVE  TargetsRun
<1> SUFFICES ASSUME pc \in {"step", "command"}
             PROVE  /\ Resolves(CurrentStep.target)
                    /\ CurrentStep.target # NoTarget => CurrentStep.target[1] \in Judged
  BY DEF TargetsRun
<1>1. step \in DOMAIN Current.steps
  BY DEF WInv, Typed, TypeOK
<1>2. Fits(config, JudgedIn(stage), CurrentStep.target)
  BY <1>1, CurrentSound DEF CurrentStep, Within
<1>3. JudgedIn(stage) = Judged
  BY DEF JudgedIn, Judged
<1>4. Judged \subseteq Deployed(stage)
  BY DEF Judged, Deployed, Roles
<1>5. QED  BY <1>2, <1>3, <1>4 DEF Fits, Resolves

\* What a step may come to.
LEMMA StepFound ==
  ASSUME WInv, pc = "command", NEW found \in StepFinds
  PROVE  /\ found \in Finding /\ found.at = at
         /\ found.exited => found.launched
         /\ found.outcome \in {"PASS", "FAIL"} => found.exited
         /\ found.outcome = "FAIL" => "command" \in faults
         /\ found.outcome = "ERROR" => faults \intersect {"launch", "artifacts"} # {}
         /\ found.outcome = "INCOMPLETE" => canceled
         /\ found.log \in {NoLog, LogPath} /\ LogPath \in Names \X Nat \X Names
<1>1. /\ Current.name \in Names /\ Current.steps \in Seq(Step) /\ step \in DOMAIN Current.steps
      /\ at \in Nat /\ repeat \in Nat /\ step \in Nat
  BY CurrentSound DEF WInv, Typed, TypeOK, Within
<1>2. CurrentStep.name \in Names
  <2>1. CurrentStep \in Step
    BY <1>1 DEF CurrentStep
  <2>2. QED  BY <2>1 DEF Step
<1>3. LogPath \in Names \X Nat \X Names
  BY <1>1, <1>2, DirectoryAssumption DEF LogPath
<1>4. ASSUME NEW outcome \in Outcomes, NEW exited \in BOOLEAN, NEW launched \in BOOLEAN,
             NEW log \in {NoLog, LogPath}
      PROVE  /\ Found(outcome, exited, launched, log) \in Finding
             /\ Found(outcome, exited, launched, log).at = at
             /\ Found(outcome, exited, launched, log).outcome = outcome
             /\ Found(outcome, exited, launched, log).exited = exited
             /\ Found(outcome, exited, launched, log).launched = launched
             /\ Found(outcome, exited, launched, log).log = log
  BY <1>1, <1>3 DEF Found, Finding, Logs
<1> DEFINE Good(f) ==
      /\ f \in Finding /\ f.at = at
      /\ f.exited => f.launched
      /\ f.outcome \in {"PASS", "FAIL"} => f.exited
      /\ f.outcome = "FAIL" => "command" \in faults
      /\ f.outcome = "ERROR" => faults \intersect {"launch", "artifacts"} # {}
      /\ f.outcome = "INCOMPLETE" => canceled
      /\ f.log \in {NoLog, LogPath}
<1>5. ASSUME NEW f \in CommandFinds
      PROVE  Good(f)
  <2>1. PICK a \in Runner!Expected("command" \in faults, "launch" \in faults, canceled) :
          f = Found(Reading[a.reading], a.launched /\ a.reading # "error", a.launched, LogPath)
    BY DEF CommandFinds
  <2>2. /\ a.reading \in {"pass", "fail", "error", "canceled"} /\ a.launched \in BOOLEAN
        /\ a.reading \in {"pass", "fail"} => a.launched
        /\ a.reading = "fail" => "command" \in faults
        /\ a.reading = "error" => "launch" \in faults
        /\ a.reading = "canceled" => canceled
    BY DEF Runner!Expected, Runner!Answer
  <2> DEFINE outcome == Reading[a.reading]
             exited == a.launched /\ a.reading # "error"
  <2>3. /\ outcome \in Outcomes /\ exited \in BOOLEAN
        /\ outcome \in {"PASS", "FAIL"} => a.reading \in {"pass", "fail"}
        /\ outcome = "FAIL" => a.reading = "fail"
        /\ outcome = "ERROR" => a.reading = "error"
        /\ outcome = "INCOMPLETE" => a.reading = "canceled"
    BY <2>2 DEF Reading, Outcomes
  <2>4. /\ exited => a.launched
        /\ outcome \in {"PASS", "FAIL"} => exited
    BY <2>2, <2>3
  <2> HIDE DEF outcome, exited
  <2>5. /\ f \in Finding /\ f.at = at /\ f.outcome = outcome /\ f.exited = exited
        /\ f.launched = a.launched /\ f.log = LogPath
    <3>1. f = Found(outcome, exited, a.launched, LogPath) /\ LogPath \in {NoLog, LogPath}
      BY <2>1 DEF outcome, exited
    <3>2. outcome \in Outcomes /\ exited \in BOOLEAN /\ a.launched \in BOOLEAN
      BY <2>2, <2>3
    <3>3. /\ Found(outcome, exited, a.launched, LogPath) \in Finding
          /\ Found(outcome, exited, a.launched, LogPath).at = at
          /\ Found(outcome, exited, a.launched, LogPath).outcome = outcome
          /\ Found(outcome, exited, a.launched, LogPath).exited = exited
          /\ Found(outcome, exited, a.launched, LogPath).launched = a.launched
          /\ Found(outcome, exited, a.launched, LogPath).log = LogPath
      BY <1>4, <3>1, <3>2
    <3> QED BY <3>1, <3>3
  <2> QED BY <2>2, <2>3, <2>4, <2>5
<1>6. Resolves(CurrentStep.target)
  BY TargetsFit DEF TargetsRun
<1>7. CASE found \in CommandFinds
  BY <1>3, <1>5, <1>7
<1>8. CASE found \notin CommandFinds
  <2>1. PICK f \in CommandFinds : found = Found("ERROR", FALSE, f.launched, NoLog) /\ "artifacts" \in faults
    BY <1>6, <1>8 DEF StepFinds
  <2>2. f \in Finding
    BY <1>5
  <2>3. f.launched \in BOOLEAN
    BY <2>2 DEF Finding
  <2>4. found \in Finding /\ found.at = at /\ found.outcome = "ERROR" /\ found.exited = FALSE
    BY ZenonT(60), <1>3, <1>4, <2>1, <2>3 DEF Outcomes
  <2>5. found.log = NoLog
    BY ZenonT(60), <1>4, <2>1, <2>3 DEF Outcomes
  <2>6. ~ found.exited /\ faults \intersect {"launch", "artifacts"} # {}
    BY <2>1, <2>4
  <2>7. QED  BY <1>3, <2>4, <2>5, <2>6
<1>9. QED  BY <1>7, <1>8

\* A scenario that returns, and is no longer the one the loops are at.
LEMMA ReturnTyped ==
  ASSUME WInv, pc \in {"scenario", "step", "command"}, NEW outcome \in Outcomes,
         Return(outcome), began' \in BOOLEAN, lost' \in BOOLEAN,
         UNCHANGED <<faults, config, stage, plan>>
  PROVE  /\ Plain' /\ Looped' /\ Planned' /\ Placed' /\ returned' \in Seq(Result)
         /\ returned' = Append(returned, [outcome |-> outcome, began |-> began', lost |-> lost'])
         /\ pc' \in {"done", "between"} /\ at' = at + 1
<1> DEFINE result == [outcome |-> outcome, began |-> began', lost |-> lost']
<1>1. result \in Result /\ result.outcome = outcome
  BY DEF Result
<1>2. /\ returned \in Seq(Result) /\ at \in Nat /\ at \in DOMAIN plan /\ plan \in Seq(Scenario)
      /\ faults \in FaultSets /\ config \in Config /\ stage \in Stages \union {"none"}
  BY DEF WInv, Typed, TypeOK, Placed, Within, Result
<1>3. /\ returned' = Append(returned, result) /\ at' = at + 1 /\ repeat' = 1 /\ step' = 1
      /\ pc' = IF outcome = "INCOMPLETE" \/ at = Len(plan) THEN "done" ELSE "between"
  BY DEF Return
<1> HIDE DEF result
<1>4. returned' \in Seq(Result)
  BY <1>1, <1>2, <1>3
<1>5. Plain' /\ Looped'
  BY <1>2, <1>3 DEF Plain, Looped, Within
<1>6. Planned'
  BY <1>3 DEF WInv, Planned, Within
<1>7. Placed'
  <2>1. CASE pc' = "done"
    BY <2>1 DEF Placed, Within
  <2>2. CASE pc' # "done"
    <3>1. pc' = "between" /\ at # Len(plan) /\ outcome # "INCOMPLETE"
      BY <2>2, <1>3
    <3>2. at' \in DOMAIN plan'
      BY <1>2, <1>3, <3>1
    <3>3. Len(returned) = at - 1 /\ \A i \in DOMAIN returned : returned[i].outcome # "INCOMPLETE"
      BY DEF WInv, Placed, Within
    <3>4. Len(returned') = at' - 1
      BY <1>1, <1>2, <1>3, <3>3
    <3>5. \A i \in DOMAIN returned' : returned'[i].outcome # "INCOMPLETE"
      BY <1>1, <1>2, <1>3, <3>1, <3>3
    <3>6. QED  BY <1>3, <3>1, <3>2, <3>4, <3>5 DEF Placed
  <2>3. QED  BY <2>1, <2>2
<1>8. QED  BY <1>3, <1>4, <1>5, <1>6, <1>7 DEF result

\* The evidence of a scenario that returns.
LEMMA ReturnEvidence ==
  ASSUME WInv, pc \in {"scenario", "step", "command"}, NEW outcome \in Outcomes,
         Return(outcome), UNCHANGED <<faults, config, stage, plan>>,
         began' \in BOOLEAN, lost' \in BOOLEAN,
         results' = results \/ \E f \in Finding : results' = Append(results, f),
         began' => \E i \in DOMAIN results' : results'[i].at = at /\ results'[i].launched,
         lost' => "artifacts" \in faults
  PROVE  Evidence'
<1>1. /\ returned' = Append(returned, [outcome |-> outcome, began |-> began', lost |-> lost'])
      /\ pc' \in {"done", "between"} /\ returned \in Seq(Result) /\ results \in Seq(Finding)
      /\ Len(returned) = at - 1 /\ at \in Nat
  BY ReturnTyped DEF WInv, Typed, TypeOK, Placed, Within, Result
<1>2. /\ DOMAIN results \subseteq DOMAIN results'
      /\ \A i \in DOMAIN results : results'[i] = results[i]
  <2>1. CASE results' = results
    BY <2>1
  <2>2. ASSUME NEW f \in Finding, results' = Append(results, f)
        PROVE  /\ DOMAIN results \subseteq DOMAIN results'
               /\ \A i \in DOMAIN results : results'[i] = results[i]
    BY <1>1, <2>2
  <2>3. QED  BY <2>1, <2>2
<1>3. ASSUME NEW n \in DOMAIN returned', returned'[n].began
      PROVE  \E i \in DOMAIN results' : results'[i].at = n /\ results'[i].launched
  <2>1. CASE n \in DOMAIN returned
    <3>1. returned'[n] = returned[n]
      BY <1>1, <2>1
    <3>2. QED  BY <1>2, <1>3, <2>1, <3>1 DEF WInv, Evidence, BeganIsSound
  <2>2. CASE n \notin DOMAIN returned
    <3>1. n = at
      BY <1>1, <2>2
    <3>2. returned'[n].began = began'
      BY <1>1, <2>2, <3>1
    <3>3. QED  BY <1>3, <3>1, <3>2
  <2>3. QED  BY <2>1, <2>2
<1>4. BeganIsSound'
  BY <1>3 DEF BeganIsSound
<1>5. QED  BY <1>1, <1>4 DEF Evidence

\* Every step of the program and of its environment keeps the invariant.
LEMMA NextInvariant == WInv /\ [Next]_vars => WInv'
<1> SUFFICES ASSUME WInv, [Next]_vars
             PROVE  WInv'
  OBVIOUS
<1>0. Plain /\ Looped /\ Booleans /\ Recorded /\ Planned /\ Placed /\ Evidence
  BY TypedParts DEF WInv
<1>1. CASE Parse
  <2>1. /\ pc = "parse" /\ UNCHANGED <<faults, loop, canceled, scenario, returned, output>>
        /\ config' = WithDefaults(config)
    BY <1>1 DEF Parse
  <2>2. config' \in Config
    BY <2>1, <1>0, WithDefaultsTyped DEF Plain
  <2>3. CASE pc' = "rejected"
    <3>1. UNCHANGED <<stage, plan>>
      BY <2>3, <1>1 DEF Parse
    <3>2. Plain' /\ Looped' /\ Booleans' /\ Recorded'
      BY <1>0, <2>1, <2>2, <2>3, <3>1
         DEF Plain, Looped, Booleans, Recorded, loop, scenario, output
    <3>3. Planned' /\ Placed' /\ Evidence'
      BY <1>0, <2>1, <2>3 DEF Planned, Placed, Evidence, BeganIsSound, Within, scenario, output
    <3>4. QED  BY <3>2, <3>3, TypedParts, PTL DEF WInv
  <2>4. CASE pc' # "rejected"
    <3>1. /\ Accepts(config') /\ pc' = "scenario" /\ stage' \in Stages
          /\ plan' = StageScenarios(config', stage')
      BY <2>4, <1>1 DEF Parse
    <3>2. plan' \in Seq(Scenario) /\ plan' # <<>>
      BY <2>2, <3>1, StageTyped, StageSound
    <3>3. Plain' /\ Looped' /\ Booleans' /\ Recorded'
      BY <1>0, <2>1, <2>2, <3>1, <3>2
         DEF Plain, Looped, Booleans, Recorded, Within, loop, scenario, output
    <3>4. Planned'
      BY <3>1 DEF Planned
    <3>5. Placed'
      <4>1. at' = 1 /\ repeat' = 1 /\ step' = 1 /\ returned' = returned
        BY <1>0, <2>1 DEF Placed, loop
      <4>2. 1 \in DOMAIN plan'
        BY <3>2
      <4>3. QED  BY <1>0, <2>1, <3>1, <4>1, <4>2 DEF Placed, Within
    <3>6. Evidence'
      BY <1>0, <2>1, <3>1 DEF Evidence, BeganIsSound, scenario, output
    <3>7. QED  BY <3>3, <3>4, <3>5, <3>6, TypedParts, PTL DEF WInv
  <2>5. QED  BY <2>3, <2>4
<1>2. CASE BeginScenario
  <2>1. /\ pc = "scenario" /\ began' = FALSE /\ lost' = FALSE
        /\ UNCHANGED <<faults, config, stage, plan, canceled, files>>
    BY <1>2 DEF BeginScenario
  <2>2. Booleans' /\ DOMAIN files' \subseteq Names \X Nat \X Names
    BY <1>0, <2>1 DEF Booleans, Recorded
  <2>3. CASE pc' = "step"
    <3>1. UNCHANGED <<returned, at, repeat, step, results>>
      BY <2>3, <1>2 DEF BeginScenario, Return, loop
    <3>2. Plain' /\ Looped' /\ Recorded'
      <4>1. Plain' /\ Recorded'
        BY <1>0, <2>1, <2>2, <2>3, <3>1 DEF Plain, Recorded, Within
      <4>2. /\ at \in DOMAIN plan /\ Current.repeat \in 1 .. MaxRepeat
            /\ Current.steps \in Seq(Step) /\ Current.steps # <<>>
        BY <2>1, CurrentSound DEF Within
      <4>3. 1 \in 1 .. Current.repeat /\ 1 \in DOMAIN Current.steps
        BY <4>2
      <4>4. repeat = 1 /\ step = 1 /\ Current' = Current
        BY <1>0, <2>1, <3>1 DEF Placed, Current
      <4>5. QED  BY <2>1, <3>1, <4>1, <4>2, <4>3, <4>4 DEF Looped
    <3>3. Planned' /\ Placed'
      BY <1>0, <2>1, <2>3, <3>1 DEF Planned, Placed, Within
    <3>4. Evidence'
      BY <1>0, <2>1, <2>3, <3>1 DEF Evidence, BeganIsSound
    <3>5. QED  BY <2>2, <3>2, <3>3, <3>4, TypedParts, PTL DEF WInv
  <2>4. CASE pc' # "step"
    <3>1. /\ \E outcome \in Outcomes : Return(outcome)
          /\ results' = results \/ \E f \in Finding : results' = Append(results, f)
      <4>1. \/ Return("INCOMPLETE") /\ results' = results
            \/ Return("ERROR") /\ results' = Append(results, Found("ERROR", FALSE, FALSE, NoLog))
        BY <2>4, <1>2 DEF BeginScenario
      <4>2. Found("ERROR", FALSE, FALSE, NoLog) \in Finding
        <5>1. Current.name \in Names /\ at \in Nat /\ repeat \in Nat /\ step \in Nat
          BY <1>0, <2>1, CurrentSound DEF Plain, Within
        <5>2. QED  BY <5>1 DEF Found, Finding, Outcomes, Logs
      <4>3. QED  BY <4>1, <4>2 DEF Outcomes
    <3>2. PICK outcome \in Outcomes : Return(outcome)
      BY <3>1
    <3>3. Plain' /\ Looped' /\ Planned' /\ Placed' /\ returned' \in Seq(Result)
      BY <2>1, <3>2, ReturnTyped
    <3>4. Evidence'
      BY <2>1, <3>1, <3>2, ReturnEvidence
    <3>5. results' \in Seq(Finding)
      <4>1. results \in Seq(Finding)
        BY <1>0 DEF Recorded
      <4>2. QED  BY <3>1, <4>1
    <3>6. Recorded'
      BY <2>2, <3>3, <3>5 DEF Recorded
    <3>7. Booleans'
      BY <2>2
    <3>8. QED  BY <3>3, <3>4, <3>6, <3>7, TypedParts, PTL DEF WInv
  <2>5. QED  BY <2>3, <2>4
<1>3. CASE BeginStep
  <2>1. pc = "step" /\ UNCHANGED <<faults, config, stage, plan, canceled, began, lost, results, files>>
    BY <1>3 DEF BeginStep, scenario, output
  <2>2. Booleans'
    BY <1>0, <2>1 DEF Booleans
  <2>3. CASE pc' = "command"
    <3>1. UNCHANGED <<returned, at, repeat, step>>
      BY <2>3, <1>3 DEF BeginStep, Return, loop
    <3>2. Plain' /\ Looped' /\ Recorded'
      BY <1>0, <2>1, <2>3, <3>1 DEF Plain, Looped, Recorded, Current, Within
    <3>3. Planned' /\ Placed'
      BY <1>0, <2>1, <2>3, <3>1 DEF Planned, Placed, Within
    <3>4. Evidence'
      BY <1>0, <2>1, <2>3, <3>1 DEF Evidence, BeganIsSound
    <3>5. QED  BY <2>2, <3>2, <3>3, <3>4, TypedParts, PTL DEF WInv
  <2>4. CASE pc' # "command"
    <3>1. Return("INCOMPLETE") /\ "INCOMPLETE" \in Outcomes
      BY <2>4, <1>3 DEF BeginStep, Outcomes
    <3>2. /\ began' \in BOOLEAN /\ lost' \in BOOLEAN /\ (lost' => "artifacts" \in faults)
          /\ began' => \E i \in DOMAIN results' : results'[i].at = at /\ results'[i].launched
      BY <1>0, <2>1 DEF Booleans, Evidence
    <3>3. Plain' /\ Looped' /\ Planned' /\ Placed' /\ returned' \in Seq(Result)
      BY <2>1, <3>1, <3>2, ReturnTyped
    <3>4. Evidence'
      <4>1. results' = results \/ \E f \in Finding : results' = Append(results, f)
        BY <2>1
      <4>2. UNCHANGED <<faults, config, stage, plan>> /\ pc \in {"scenario", "step", "command"}
        BY <2>1
      <4>3. QED  BY <3>1, <3>2, <4>1, <4>2, ReturnEvidence
    <3>5. Recorded'
      BY <1>0, <2>1, <3>3 DEF Recorded
    <3>6. QED  BY <2>2, <3>3, <3>4, <3>5, TypedParts, PTL DEF WInv
  <2>5. QED  BY <2>3, <2>4
<1>4. CASE RunStep
  <2>1. PICK found \in StepFinds :
          /\ Record(found) /\ Emits /\ WriteLog(found)
          /\ \/ found.outcome = "PASS" /\ Advance
             \/ found.outcome # "PASS" /\ Return(found.outcome)
    BY <1>4 DEF RunStep
  <2>2. pc = "command" /\ UNCHANGED <<faults, config, stage, plan, canceled>>
    BY <1>4 DEF RunStep
  <2>3. /\ found \in Finding /\ found.at = at /\ (found.exited => found.launched)
        /\ found.exited \in BOOLEAN /\ found.outcome \in Outcomes
        /\ found.log \in {NoLog, LogPath} /\ LogPath \in Names \X Nat \X Names
    BY <2>2, StepFound DEF Finding
  <2>4. /\ results' = Append(results, found) /\ began' = (began \/ found.exited)
        /\ results' \in Seq(Finding)
    BY <1>0, <2>1, <2>3 DEF Record, Recorded
  <2>5. DOMAIN files' \subseteq Names \X Nat \X Names
    BY <1>0, <2>1, <2>3 DEF WriteLog, Recorded
  <2>6. began' \in BOOLEAN
    BY <1>0, <2>3, <2>4 DEF Booleans
  <2>7. lost' \in BOOLEAN /\ (lost' => "artifacts" \in faults)
    <3>1. lost' = lost \/ lost' = (lost \/ "artifacts" \in faults)
      BY <2>1 DEF Emits
    <3>2. lost \in BOOLEAN
      BY <1>0 DEF Booleans
    <3>3. lost => "artifacts" \in faults
      BY <1>0 DEF Evidence
    <3>4. CASE lost' = lost
      BY <3>2, <3>3, <3>4
    <3>5. CASE lost' = (lost \/ "artifacts" \in faults)
      BY <3>2, <3>3, <3>5
    <3>6. QED  BY <3>1, <3>4, <3>5
  <2>8. Booleans'
    BY <1>0, <2>2, <2>6, <2>7 DEF Booleans
  <2>9. began' => \E i \in DOMAIN results' : results'[i].at = at /\ results'[i].launched
    <3>1. CASE found.exited
      <4>1. Len(results') \in DOMAIN results' /\ results'[Len(results')] = found
        BY <1>0, <2>3, <2>4 DEF Recorded
      <4>2. QED  BY <2>3, <3>1, <4>1
    <3>2. CASE ~ found.exited
      <4>1. began' => began
        BY <2>4, <3>2
      <4>2. /\ DOMAIN results \subseteq DOMAIN results'
            /\ \A i \in DOMAIN results : results'[i] = results[i]
        BY <1>0, <2>3, <2>4 DEF Recorded
      <4>3. QED  BY <1>0, <2>2, <4>1, <4>2 DEF Evidence
    <3>3. QED  BY <3>1, <3>2
  <2>10. CASE \E outcome \in Outcomes : Return(outcome)
    <3>1. PICK outcome \in Outcomes : Return(outcome)
      BY <2>10
    <3>2. Plain' /\ Looped' /\ Planned' /\ Placed' /\ returned' \in Seq(Result)
      BY <2>2, <2>6, <2>7, <3>1, ReturnTyped
    <3>3. Evidence'
      <4>1. results' = results \/ \E f \in Finding : results' = Append(results, f)
        BY <2>3, <2>4
      <4>2. UNCHANGED <<faults, config, stage, plan>> /\ pc \in {"scenario", "step", "command"}
        BY <2>2
      <4>3. QED  BY <2>6, <2>7, <2>9, <3>1, <4>1, <4>2, ReturnEvidence
    <3>4. Recorded'
      BY <2>4, <2>5, <3>2 DEF Recorded
    <3>5. QED  BY <2>8, <3>2, <3>3, <3>4, TypedParts, PTL DEF WInv
  <2>11. CASE /\ UNCHANGED <<at, returned>> /\ pc' = "step"
              /\ repeat' \in 1 .. Current.repeat /\ step' \in DOMAIN Current.steps
    <3>1. /\ at \in DOMAIN plan /\ Current' = Current /\ Current.repeat \in Nat
          /\ Current.steps \in Seq(Step)
      BY <2>2, <2>11, CurrentSound DEF Current, Within
    <3>2. Looped'
      BY <2>2, <2>11, <3>1 DEF Looped
    <3>3. repeat' \in Nat /\ step' \in Nat
      BY <2>11, <3>1
    <3>4. Plain'
      BY <1>0, <2>2, <2>11, <3>3 DEF Plain, Within
    <3>5. Planned' /\ Placed'
      BY <1>0, <2>2, <2>11 DEF Planned, Placed, Within
    <3>6. BeganIsSound'
      <4>1. /\ DOMAIN results \subseteq DOMAIN results'
            /\ \A i \in DOMAIN results : results'[i] = results[i]
        BY <1>0, <2>3, <2>4 DEF Recorded
      <4>2. QED  BY <1>0, <2>11, <4>1 DEF Evidence, BeganIsSound
    <3>7. Evidence'
      BY <2>2, <2>7, <2>9, <2>11, <3>6 DEF Evidence
    <3>8. returned' \in Seq(Result)
      <4>1. returned \in Seq(Result)
        BY <1>0 DEF Recorded
      <4>2. returned' = returned
        BY <2>11
      <4>3. QED  BY <4>1, <4>2
    <3>9. Recorded'
      BY <2>4, <2>5, <3>8 DEF Recorded
    <3>10. QED  BY <2>8, <3>2, <3>4, <3>5, <3>7, <3>9, TypedParts, PTL DEF WInv
  <2>12. QED
    <3>1. CASE found.outcome # "PASS"
      BY <2>1, <2>3, <2>10, <3>1
    <3>2. CASE Advance
      <4>1. /\ Current.repeat \in Nat /\ Current.steps \in Seq(Step)
            /\ repeat \in 1 .. Current.repeat /\ step \in DOMAIN Current.steps
            /\ Current.steps # <<>>
        BY <1>0, <2>2, CurrentSound DEF Looped, Within
      <4>2. CASE Return("PASS")
        BY <2>10, <4>2 DEF Outcomes
      <4>3. CASE ~ Return("PASS")
        BY <2>11, <3>2, <4>1, <4>3 DEF Advance
      <4>4. QED  BY <4>2, <4>3
    <3>3. QED  BY <2>1, <3>1, <3>2
<1>5. CASE NextScenario
  <2>1. /\ pc = "between" /\ pc' \in {"scenario", "done"}
        /\ UNCHANGED <<faults, config, stage, plan, at, repeat, step, canceled, began, lost,
                       returned, results, files>>
    BY <1>5 DEF NextScenario, loop, scenario, output
  <2>2. Plain' /\ Looped' /\ Recorded'
    BY <1>0, <2>1 DEF Plain, Looped, Recorded, Within
  <2>3. Booleans'
    BY <1>0, <2>1 DEF Booleans
  <2>4. Planned' /\ Placed'
    BY <1>0, <2>1 DEF Planned, Placed, Within
  <2>5. Evidence'
    BY <1>0, <2>1 DEF Evidence, BeganIsSound
  <2>6. QED  BY <2>2, <2>3, <2>4, <2>5, TypedParts, PTL DEF WInv
<1>6. CASE Signal
  <2>1. /\ canceled' = TRUE
        /\ UNCHANGED <<faults, config, pc, stage, plan, at, repeat, step, began, lost,
                       returned, results, files>>
    BY <1>6 DEF Signal, loop, scenario, output
  <2>2. Plain' /\ Looped' /\ Recorded'
    BY <1>0, <2>1 DEF Plain, Looped, Recorded, Current
  <2>3. Booleans'
    BY <1>0, <2>1 DEF Booleans
  <2>4. Planned' /\ Placed'
    BY <1>0, <2>1 DEF Planned, Placed
  <2>5. Evidence'
    BY <1>0, <2>1 DEF Evidence, BeganIsSound
  <2>6. QED  BY <2>2, <2>3, <2>4, <2>5, TypedParts, PTL DEF WInv
<1>7. CASE UNCHANGED vars
  <2>1. UNCHANGED <<faults, config, pc, stage, plan, at, repeat, step, canceled, began, lost,
                    returned, results, files>>
    BY <1>7 DEF vars, loop, scenario, output
  <2>2. Plain' /\ Looped' /\ Recorded'
    BY <1>0, <2>1 DEF Plain, Looped, Recorded, Current
  <2>3. Booleans'
    BY <1>0, <2>1 DEF Booleans
  <2>4. Planned' /\ Placed'
    BY <1>0, <2>1 DEF Planned, Placed
  <2>5. Evidence'
    BY <1>0, <2>1 DEF Evidence, BeganIsSound
  <2>6. QED  BY <2>2, <2>3, <2>4, <2>5, TypedParts, PTL DEF WInv
<1>8. QED
  BY <1>1, <1>2, <1>3, <1>4, <1>5, <1>6, <1>7 DEF Next, Program, Terminated

-----------------------------------------------------------------------------
(***************************************************************************)
(* What follows from the invariant.                                        *)
(***************************************************************************)

\* The inductive invariant holds in every state of a run.
THEOREM WorkloadsInvariant == Spec => []WInv
<1>1. WInv /\ [Next]_vars => WInv'
  BY NextInvariant
<1>2. QED  BY InitInvariant, <1>1, PTL DEF Spec

\* Type correctness, with loops that stand at a step of the plan.
THEOREM WorkloadsTypes == Spec => []TypeOK
<1>1. WInv => TypeOK
  BY DEF WInv, Typed
<1>2. QED  BY <1>1, WorkloadsInvariant, PTL

\* Every accepted configuration has something to run in every stage, and
\* traffic that mutates.
THEOREM GuaranteedHolds == Spec => []WorkloadGuaranteed
<1>1. WInv => WorkloadGuaranteed
  <2> SUFFICES ASSUME WInv, pc \notin {"parse", "rejected"}
               PROVE  /\ \A s \in Stages : StageScenarios(config, s) # <<>>
                      /\ \E i \in DOMAIN StageScenarios(config, "CANDIDATE_TRAFFIC") :
                           StageScenarios(config, "CANDIDATE_TRAFFIC")[i].mutates
    BY DEF WorkloadGuaranteed
  <2>1. config \in Config /\ Accepts(config)
    BY DEF WInv, Typed, TypeOK, Planned, Within
  <2>2. \A s \in Stages : StageScenarios(config, s) # <<>>
    BY <2>1, StageSound
  <2>3. StageScenarios(config, "CANDIDATE_TRAFFIC") = config.lists["candidate_traffic"]
    BY DEF StageScenarios
  <2>4. QED  BY <2>1, <2>2, <2>3 DEF Accepts, Mutates
<1>2. QED  BY <1>1, WorkloadsInvariant, PTL

\* No accepted configuration aims a step at a component that does not run, or
\* at the release the stage does not judge.
THEOREM TargetsHold == Spec => []TargetsRun
<1>1. WInv => TargetsRun
  BY TargetsFit
<1>2. QED  BY <1>1, WorkloadsInvariant, PTL

\* A scenario counts as begun only if a command of it was started.
THEOREM BeganHolds == Spec => []BeganIsSound
<1>1. WInv => BeganIsSound
  BY DEF WInv, Evidence
<1>2. QED  BY <1>1, WorkloadsInvariant, PTL

-----------------------------------------------------------------------------
(***************************************************************************)
(* The contract of a stage.                                                *)
(***************************************************************************)

\* A scenario that returns with these returns as the contract says.
LEMMA ReturnIsPromised ==
  ASSUME WInv, pc \in {"scenario", "step", "command"}, NEW outcome \in Outcomes,
         Return(outcome), UNCHANGED <<faults, canceled>>,
         began' \in BOOLEAN, lost' \in BOOLEAN,
         outcome = "FAIL" => "command" \in faults,
         outcome = "INCOMPLETE" => canceled,
         outcome = "ERROR" => faults \intersect {"launch", "artifacts"} # {},
         outcome \in {"PASS", "FAIL"} => began',
         lost' => "artifacts" \in faults
  PROVE  Contract!Return
<1> DEFINE result == [outcome |-> outcome, began |-> began', lost |-> lost']
<1>1. result \in Contract!Result
  BY DEF Contract!Result, Outcomes
<1>2. /\ result.outcome = outcome /\ result.began = began' /\ result.lost = lost'
      /\ returned' = Append(returned, result)
  BY DEF Return
<1> HIDE DEF result
<1>3. Contract!Allowed(result)
  <2>1. /\ result.outcome = "FAIL" => "command" \in faults
        /\ result.outcome = "INCOMPLETE" => canceled
        /\ result.outcome = "ERROR" => faults \intersect {"launch", "artifacts"} # {}
    BY <1>2
  <2>2. result.outcome \in {"PASS", "FAIL"} => result.began
    BY <1>2
  <2>3. result.lost => "artifacts" \in faults
    BY <1>2
  <2>4. QED  BY <2>1, <2>2, <2>3 DEF Contract!Allowed
<1>4. \A i \in DOMAIN returned : returned[i].outcome # "INCOMPLETE"
  BY DEF WInv, Placed, Within
<1>5. QED  BY <1>1, <1>2, <1>3, <1>4 DEF Contract!Return

\* Every step is one of the contract, or is not seen by the lifecycle.
LEMMA StepIsPromised ==
  ASSUME WInv, [Next]_vars
  PROVE  [Contract!Next]_<<faults, canceled, returned>>
<1>0. /\ canceled \in BOOLEAN /\ began \in BOOLEAN /\ lost \in BOOLEAN
      /\ (lost => "artifacts" \in faults)
  BY DEF WInv, Typed, TypeOK, Evidence
<1>1. CASE Parse
  BY <1>1 DEF Parse
<1>2. CASE BeginScenario
  <2>1. pc = "scenario" /\ began' = FALSE /\ lost' = FALSE /\ UNCHANGED <<faults, canceled>>
    BY <1>2 DEF BeginScenario
  <2>2. CASE canceled /\ Return("INCOMPLETE")
    BY <2>1, <2>2, ReturnIsPromised DEF Outcomes, Contract!Next
  <2>3. CASE "artifacts" \in faults /\ Return("ERROR")
    BY <2>1, <2>3, ReturnIsPromised DEF Outcomes, Contract!Next
  <2>4. CASE UNCHANGED returned
    BY <2>1, <2>4
  <2>5. QED  BY <1>2, <2>2, <2>3, <2>4 DEF BeginScenario
<1>3. CASE BeginStep
  <2>1. pc = "step" /\ UNCHANGED <<faults, canceled, began, lost>>
    BY <1>3 DEF BeginStep, scenario
  <2>2. CASE canceled /\ Return("INCOMPLETE")
    <3>1. began' \in BOOLEAN /\ lost' \in BOOLEAN /\ (lost' => "artifacts" \in faults)
      BY <1>0, <2>1
    <3>2. QED  BY <2>1, <2>2, <3>1, ReturnIsPromised DEF Outcomes, Contract!Next
  <2>3. CASE UNCHANGED returned
    BY <2>1, <2>3
  <2>4. QED  BY <1>3, <2>2, <2>3 DEF BeginStep
<1>4. CASE RunStep
  <2>1. PICK found \in StepFinds :
          /\ Record(found) /\ Emits
          /\ \/ found.outcome = "PASS" /\ Advance
             \/ found.outcome # "PASS" /\ Return(found.outcome)
    BY <1>4 DEF RunStep
  <2>2. pc = "command" /\ UNCHANGED <<faults, canceled>>
    BY <1>4 DEF RunStep
  <2>3. /\ found.exited \in BOOLEAN /\ found.outcome \in Outcomes
        /\ found.outcome \in {"PASS", "FAIL"} => found.exited
        /\ found.outcome = "FAIL" => "command" \in faults
        /\ found.outcome = "ERROR" => faults \intersect {"launch", "artifacts"} # {}
        /\ found.outcome = "INCOMPLETE" => canceled
    BY <2>2, StepFound DEF Finding
  <2>4. began' \in BOOLEAN /\ (found.exited => began')
    BY <1>0, <2>1, <2>3 DEF Record
  <2>5. lost' \in BOOLEAN /\ (lost' => "artifacts" \in faults)
    <3>1. CASE lost' = lost
      BY <1>0, <3>1
    <3>2. CASE lost' = (lost \/ "artifacts" \in faults)
      BY <1>0, <3>2
    <3>3. QED  BY <2>1, <3>1, <3>2 DEF Emits
  <2>6. CASE found.outcome # "PASS" /\ Return(found.outcome)
    BY <2>2, <2>3, <2>4, <2>5, <2>6, ReturnIsPromised DEF Contract!Next
  <2>7. CASE found.outcome = "PASS" /\ Return("PASS")
    BY <2>2, <2>3, <2>4, <2>5, <2>7, ReturnIsPromised DEF Outcomes, Contract!Next
  <2>8. CASE UNCHANGED returned
    BY <2>2, <2>8
  <2>9. QED  BY <2>1, <2>6, <2>7, <2>8 DEF Advance
<1>5. CASE NextScenario
  BY <1>5 DEF NextScenario
<1>6. CASE Signal
  BY <1>6 DEF Signal, Contract!Next, Contract!Signal
<1>7. CASE UNCHANGED vars
  BY <1>7 DEF vars
<1>8. QED
  BY <1>1, <1>2, <1>3, <1>4, <1>5, <1>6, <1>7 DEF Next, Program, Terminated

\* Whatever the configuration and its faults, the scenarios of a stage return
\* as the lifecycle takes them to.
THEOREM PromiseKept == Spec => Promise
<1>1. Init => Contract!Init
  BY DEF Init, Contract!Init
<1>2. WInv /\ [Next]_vars => [Contract!Next]_<<faults, canceled, returned>>
  BY StepIsPromised
<1>3. QED  BY <1>1, <1>2, WorkloadsInvariant, PTL DEF Spec, Promise, Contract!Spec

-----------------------------------------------------------------------------
(***************************************************************************)
(* The order of the results.                                               *)
(***************************************************************************)

\* A result comes before this place of the loops.
Before(r, a, p, k) ==
  r.at < a \/ (r.at = a /\ (r.repeat < p \/ (r.repeat = p /\ r.step < k)))

Own(n) == {i \in DOMAIN results : results[i].at = n}

PathOf(r, scenarios) ==
  <<Directory[scenarios[r.at].name], r.repeat, Directory[scenarios[r.at].steps[r.step].name]>>

\* A result is of a step of the plan, and its log is there.
Fitting(r, scenarios, logs) ==
  /\ r.at \in DOMAIN scenarios /\ r.name = scenarios[r.at].name
  /\ r.repeat \in 1 .. scenarios[r.at].repeat /\ r.step \in DOMAIN scenarios[r.at].steps
  /\ r.log # NoLog => r.log = PathOf(r, scenarios) /\ r.log \in logs

Fitted == \A i \in DOMAIN results : Fitting(results[i], plan, DOMAIN files)

\* The results stand in the order of the loops.
Sorted ==
  \A i, j \in DOMAIN results :
    i < j => Before(results[i], results[j].at, results[j].repeat, results[j].step)

\* All of them are behind the loops.
Behind == pc \in Within => \A i \in DOMAIN results : Before(results[i], at, repeat, step)

\* What a scenario that returned ran.
Settled(n) ==
  /\ n \in DOMAIN plan
  /\ returned[n].outcome = "PASS" =>
       \A p \in 1 .. plan[n].repeat, k \in DOMAIN plan[n].steps :
         \E i \in Own(n) : results[i].repeat = p /\ results[i].step = k
  /\ \A i \in Own(n) : results[i].outcome # "PASS" =>
       (\A j \in Own(n) : j <= i) /\ returned[n].outcome = results[i].outcome
  /\ returned[n].outcome \in {"FAIL", "ERROR"} =>
       \E i \in Own(n) : results[i].outcome = returned[n].outcome

AllSettled == \A n \in DOMAIN returned : Settled(n)

\* What the scenario the loops are in has run so far, all of it passed.
PassedSoFar ==
  pc \in {"step", "command"} =>
    /\ \A i \in Own(at) : results[i].outcome = "PASS"
    /\ \A p \in 1 .. Current.repeat, k \in DOMAIN Current.steps :
         p < repeat \/ (p = repeat /\ k < step) =>
           \E i \in Own(at) : results[i].repeat = p /\ results[i].step = k

Nothing ==
  pc \in {"parse", "rejected"} => results = <<>> /\ returned = <<>> /\ stage = "none"

OInv == Nothing /\ Fitted /\ Sorted /\ Behind /\ LogsKept /\ AllSettled /\ PassedSoFar

\* The invariant holds before the configuration is parsed.
LEMMA InitOrdered == Init => OInv
BY DEF Init, OInv, Nothing, Fitted, Sorted, Behind, LogsKept, LogsAreTheirs, AllSettled,
       PassedSoFar

\* What the loops and the results are made of.
LEMMA Parts ==
  ASSUME WInv
  PROVE  /\ results \in Seq(Finding) /\ returned \in Seq(Result)
         /\ at \in Nat /\ repeat \in Nat /\ step \in Nat
         /\ \A i \in DOMAIN results :
              /\ results[i].at \in Nat /\ results[i].repeat \in Nat /\ results[i].step \in Nat
              /\ results[i].outcome \in Outcomes
<1>1. Recorded /\ Plain
  BY TypedParts DEF WInv
<1>2. results \in Seq(Finding) /\ returned \in Seq(Result)
  BY <1>1 DEF Recorded
<1>3. \A i \in DOMAIN results : results[i] \in Finding
  BY <1>2
<1>4. QED  BY <1>1, <1>2, <1>3 DEF Plain, Finding

\* Nothing of the scenario before the loops has run when it begins.
LEMMA NothingOwn ==
  ASSUME WInv, OInv, pc \in Within, repeat = 1, step = 1
  PROVE  Own(at) = {}
<1> SUFFICES ASSUME NEW i \in DOMAIN results, results[i].at = at
             PROVE  FALSE
  BY DEF Own
<1>1. Before(results[i], at, repeat, step)
  BY DEF OInv, Behind
<1>2. results[i].repeat >= 1 /\ results[i].step >= 1
  <2>1. results[i].at \in DOMAIN plan /\ plan[results[i].at].steps \in Seq(Step)
    BY CurrentSound DEF Current
  <2>2. results[i].repeat \in 1 .. plan[results[i].at].repeat
    BY DEF OInv, Fitted, Fitting
  <2>3. results[i].step \in DOMAIN plan[results[i].at].steps
    BY DEF OInv, Fitted, Fitting
  <2>4. QED  BY <2>1, <2>2, <2>3, Parts
<1>3. QED  BY <1>1, <1>2, Parts DEF Before

\* A result of the step the loops are at.
AtLoops(found) ==
  /\ found \in Finding /\ found.at = at /\ found.name = Current.name
  /\ found.repeat = repeat /\ found.step = step
  /\ found.log \in {NoLog, LogPath} /\ (found.log = LogPath => pc = "command")

\* Such a result comes last, and keeps what was written before.
LEMMA AppendOrdered ==
  ASSUME WInv, OInv, pc \in {"scenario", "command"}, NEW found, AtLoops(found),
         results' = Append(results, found), WriteLog(found), UNCHANGED plan,
         repeat \in 1 .. Current.repeat, step \in DOMAIN Current.steps
  PROVE  /\ Fitted' /\ Sorted' /\ LogsKept'
         /\ DOMAIN results' = DOMAIN results \union {Len(results) + 1}
         /\ Len(results) + 1 \notin DOMAIN results /\ results'[Len(results) + 1] = found
         /\ \A i \in DOMAIN results : results'[i] = results[i]
         /\ \A i \in DOMAIN results : i < Len(results) + 1
<1>1. /\ results \in Seq(Finding) /\ found \in Finding
      /\ at \in DOMAIN plan /\ Current = plan[at]
  BY Parts, CurrentSound DEF AtLoops, Within, Current
<1>2. /\ DOMAIN results' = DOMAIN results \union {Len(results) + 1}
      /\ Len(results) + 1 \notin DOMAIN results /\ results'[Len(results) + 1] = found
      /\ \A i \in DOMAIN results : results'[i] = results[i]
      /\ \A i \in DOMAIN results : i < Len(results) + 1
  BY <1>1
<1> DEFINE last == Len(results) + 1
<1>3. /\ DOMAIN files \subseteq DOMAIN files'
      /\ found.log # NoLog => found.log \in DOMAIN files' /\ files'[found.log] = last
      /\ \A path \in DOMAIN files : path # found.log => files'[path] = files[path]
      /\ found.log = NoLog => files' = files
  BY DEF WriteLog
<1>4. found.log # NoLog => found.log = PathOf(found, plan)
  <2>1. found.log # NoLog => found.log = LogPath
    BY DEF AtLoops
  <2>2. LogPath = PathOf(found, plan)
    BY DEF LogPath, PathOf, AtLoops, Current, CurrentStep
  <2>3. QED  BY <2>1, <2>2
<1> HIDE DEF last
<1>5. Fitted'
  <2>1. ASSUME NEW i \in DOMAIN results'
        PROVE  Fitting(results'[i], plan, DOMAIN files')
    <3>1. CASE i \in DOMAIN results
      <4>1. Fitting(results[i], plan, DOMAIN files) /\ results'[i] = results[i]
        BY <1>2, <3>1 DEF OInv, Fitted
      <4>2. QED  BY <1>3, <4>1 DEF Fitting
    <3>2. CASE i \notin DOMAIN results
      <4>1. results'[i] = found
        BY <1>2, <3>2
      <4>2. Fitting(found, plan, DOMAIN files')
        BY <1>1, <1>3, <1>4 DEF Fitting, AtLoops
      <4>3. QED  BY <4>1, <4>2
    <3>3. QED  BY <3>1, <3>2
  <2>2. QED  BY <2>1 DEF Fitted
<1>6. Sorted'
  <2>1. ASSUME NEW i \in DOMAIN results', NEW j \in DOMAIN results', i < j
        PROVE  Before(results'[i], results'[j].at, results'[j].repeat, results'[j].step)
    <3>1. i \in DOMAIN results /\ results'[i] = results[i]
      BY <1>1, <1>2, <2>1
    <3>2. CASE j \in DOMAIN results
      BY <1>2, <2>1, <3>1, <3>2 DEF OInv, Sorted
    <3>3. CASE j \notin DOMAIN results
      <4>1. results'[j] = found
        BY <1>2, <3>3
      <4>2. Before(results[i], at, repeat, step)
        BY <3>1 DEF OInv, Behind, Within
      <4>3. QED  BY <3>1, <4>1, <4>2 DEF AtLoops
    <3>4. QED  BY <3>2, <3>3
  <2>2. QED  BY <2>1 DEF Sorted, Before
<1>7. LogsKept'
  <2> SUFFICES ASSUME FilesDiffer'
               PROVE  LogsAreTheirs'
    BY DEF LogsKept
  <2>1. FilesDiffer
    BY DEF FilesDiffer
  <2>2. LogsAreTheirs
    BY <2>1 DEF OInv, LogsKept
  <2>3. ASSUME NEW i \in DOMAIN results', results'[i].log # NoLog
        PROVE  files'[results'[i].log] = i
    <3>1. CASE i \notin DOMAIN results
      BY <1>2, <1>3, <2>3, <3>1 DEF last
    <3>2. CASE i \in DOMAIN results
      <4>1. /\ results'[i] = results[i] /\ files[results[i].log] = i
            /\ results[i].log = PathOf(results[i], plan) /\ results[i].log \in DOMAIN files
        BY <1>2, <2>2, <2>3, <3>2 DEF LogsAreTheirs, OInv, Fitted, Fitting
      <4>2. CASE found.log = NoLog
        BY <1>3, <4>1, <4>2
      <4>3. CASE found.log # NoLog
        <5>1. PathOf(results[i], plan) # PathOf(found, plan)
          <6> SUFFICES ASSUME PathOf(results[i], plan) = PathOf(found, plan)
                       PROVE  FALSE
            OBVIOUS
          <6>1. /\ Directory[plan[results[i].at].name] = Directory[plan[found.at].name]
                /\ results[i].repeat = found.repeat
                /\ Directory[plan[results[i].at].steps[results[i].step].name]
                     = Directory[plan[found.at].steps[found.step].name]
            BY DEF PathOf
          <6>2. results[i].at \in DOMAIN plan /\ results[i].step \in DOMAIN plan[results[i].at].steps
            BY <3>2 DEF OInv, Fitted, Fitting
          <6>3. results[i].at = found.at
            BY <1>1, <2>1, <6>1, <6>2 DEF FilesDiffer, AtLoops
          <6>4. results[i].step = found.step
            BY <1>1, <2>1, <6>1, <6>2, <6>3 DEF FilesDiffer, AtLoops
          <6>5. Before(results[i], at, repeat, step)
            BY <3>2 DEF OInv, Behind, Within
          <6>6. QED  BY <6>1, <6>3, <6>4, <6>5, <3>2, Parts DEF Before, AtLoops
        <5>2. results[i].log # found.log
          BY <1>4, <4>1, <4>3, <5>1
        <5>3. QED  BY <1>3, <4>1, <5>2
      <4>4. QED  BY <4>2, <4>3
    <3>3. QED  BY <3>1, <3>2
  <2>4. QED  BY <2>3 DEF LogsAreTheirs
<1>8. QED  BY <1>2, <1>5, <1>6, <1>7

\* The results grow by none, or by one of the scenario the loops are at.
Grown ==
  \/ results' = results
  \/ /\ DOMAIN results' = DOMAIN results \union {Len(results) + 1}
     /\ Len(results) + 1 \notin DOMAIN results /\ results'[Len(results) + 1].at = at
     /\ \A i \in DOMAIN results : results'[i] = results[i]

\* A scenario that had returned stays as it is.
LEMMA SettledStays ==
  ASSUME WInv, OInv, pc \in Within, UNCHANGED plan, Grown,
         NEW n \in DOMAIN returned, returned'[n] = returned[n]
  PROVE  Settled(n)'
<1>1. n # at
  BY Parts DEF WInv, Placed
<1>2. Own(n)' = Own(n) /\ \A i \in Own(n) : results'[i] = results[i]
  BY <1>1 DEF Own, Grown
<1>3. Settled(n)
  BY DEF OInv, AllSettled
<1>4. QED  BY <1>2, <1>3 DEF Settled

\* What the scenario that returns has to show.
Shown(outcome) ==
  /\ outcome = "PASS" =>
       \A p \in 1 .. Current.repeat, k \in DOMAIN Current.steps :
         \E i \in Own(at) : results[i].repeat = p /\ results[i].step = k
  /\ \A i \in Own(at) : results[i].outcome # "PASS" =>
       (\A j \in Own(at) : j <= i) /\ outcome = results[i].outcome
  /\ outcome \in {"FAIL", "ERROR"} => \E i \in Own(at) : results[i].outcome = outcome

\* The same of the results after a step, for the scenario it began in.
ShownNext(n, scenario1, outcome) ==
  LET own == {i \in DOMAIN results' : results'[i].at = n}
  IN  /\ outcome = "PASS" =>
           \A p \in 1 .. scenario1.repeat, k \in DOMAIN scenario1.steps :
             \E i \in own : results'[i].repeat = p /\ results'[i].step = k
      /\ \A i \in own : results'[i].outcome # "PASS" =>
           (\A j \in own : j <= i) /\ outcome = results'[i].outcome
      /\ outcome \in {"FAIL", "ERROR"} => \E i \in own : results'[i].outcome = outcome

\* A scenario that returns leaves the results in order and settled.
LEMMA ReturnOrdered ==
  ASSUME WInv, OInv, pc \in {"scenario", "step", "command"}, NEW outcome \in Outcomes,
         Return(outcome), began' \in BOOLEAN, lost' \in BOOLEAN,
         UNCHANGED <<faults, config, stage, plan>>,
         Fitted', Sorted', LogsKept', Grown, ShownNext(at, Current, outcome)
  PROVE  OInv'
<1>1. /\ returned' = Append(returned, [outcome |-> outcome, began |-> began', lost |-> lost'])
      /\ pc' \in {"done", "between"} /\ at' = at + 1 /\ repeat' = 1 /\ step' = 1
  BY ReturnTyped DEF Return
<1>2. /\ returned \in Seq(Result) /\ at \in Nat /\ Len(returned) = at - 1
      /\ at \in DOMAIN plan /\ Current = plan[at]
  BY Parts, CurrentSound DEF WInv, Placed, Within, Current
<1>3. Behind'
  <2>1. \A i \in DOMAIN results : results[i].at <= at
    BY Parts DEF OInv, Behind, Before, Within
  <2>2. \A i \in DOMAIN results' : results'[i].at < at + 1
    BY <2>1, <1>2, Parts DEF Grown
  <2>3. QED  BY <1>1, <2>2 DEF Behind, Before
<1>4. AllSettled'
  <2>1. ASSUME NEW n \in DOMAIN returned'
        PROVE  Settled(n)'
    <3>1. CASE n \in DOMAIN returned
      <4>1. returned'[n] = returned[n]
        BY <1>1, <1>2, <3>1
      <4>2. QED  BY <3>1, <4>1, SettledStays DEF Within
    <3>2. CASE n \notin DOMAIN returned
      <4>1. n = at /\ returned'[n].outcome = outcome
        BY <1>1, <1>2, <3>2
      <4>2. QED  BY <1>2, <4>1 DEF Settled, ShownNext, Own
    <3>3. QED  BY <3>1, <3>2
  <2>2. QED  BY <2>1 DEF AllSettled
<1>5. Nothing' /\ PassedSoFar'
  BY <1>1 DEF Nothing, PassedSoFar
<1>6. QED  BY <1>3, <1>4, <1>5 DEF OInv

\* A step that records nothing and leaves the loops keeps the order.
LEMMA QuietOrdered ==
  ASSUME OInv, UNCHANGED <<plan, at, repeat, step, returned, results, files>>,
         pc' \in Within => pc \in Within,
         pc' \in {"step", "command"} => pc \in {"step", "command"},
         pc' \notin {"parse", "rejected"}
  PROVE  OInv'
<1>1. Fitted' /\ Sorted' /\ LogsKept' /\ Nothing' /\ AllSettled'
  <2>1. Fitted' /\ Sorted' /\ Nothing'
    BY DEF OInv, Fitted, Sorted, Nothing
  <2>2. LogsKept'
    BY DEF OInv, LogsKept, FilesDiffer, LogsAreTheirs
  <2>3. AllSettled'
    BY DEF OInv, AllSettled, Settled, Own
  <2>4. QED  BY <2>1, <2>2, <2>3
<1>2. Behind' /\ PassedSoFar'
  BY DEF OInv, Behind, PassedSoFar, Own, Current
<1>3. QED  BY <1>1, <1>2 DEF OInv

\* Every step keeps the results in order.
LEMMA NextOrdered == WInv /\ OInv /\ [Next]_vars => OInv'
<1> SUFFICES ASSUME WInv, OInv, [Next]_vars
             PROVE  OInv'
  OBVIOUS
<1>0. /\ results \in Seq(Finding) /\ returned \in Seq(Result)
      /\ canceled \in BOOLEAN /\ began \in BOOLEAN /\ lost \in BOOLEAN
  BY Parts DEF WInv, Typed, TypeOK
<1>1. CASE Parse
  <2>1. /\ results = <<>> /\ returned = <<>> /\ results' = <<>> /\ returned' = <<>>
        /\ pc' # "parse" /\ pc' \notin {"step", "command"}
    BY <1>1 DEF Parse, OInv, Nothing, output
  <2>2. Nothing'
    BY <1>1, <2>1 DEF Parse, OInv, Nothing
  <2>3. QED
    BY <2>1, <2>2 DEF OInv, Fitted, Sorted, Behind, LogsKept, LogsAreTheirs, AllSettled, PassedSoFar
<1>2. CASE BeginScenario
  <2>1. /\ pc = "scenario" /\ began' = FALSE /\ lost' = FALSE
        /\ UNCHANGED <<faults, config, stage, plan, canceled, files>>
    BY <1>2 DEF BeginScenario
  <2>2. repeat = 1 /\ step = 1 /\ Own(at) = {}
    BY <2>1, NothingOwn DEF WInv, Placed, Within
  <2>3. CASE pc' = "step"
    <3>1. UNCHANGED <<returned, at, repeat, step, results>>
      BY <2>3, <1>2 DEF BeginScenario, Return, loop
    <3>2. PassedSoFar'
      <4>1. Own(at)' = {} /\ Current' = Current
        BY <2>1, <2>2, <3>1 DEF Own, Current
      <4>2. \A k \in DOMAIN Current.steps : k >= 1
        BY <2>1, CurrentSound DEF Within
      <4>3. \A p \in 1 .. Current.repeat, k \in DOMAIN Current.steps : ~ (p < 1 \/ (p = 1 /\ k < 1))
        BY <2>1, <4>2, CurrentSound DEF Within
      <4>4. repeat' = 1 /\ step' = 1
        BY <2>2, <3>1
      <4>5. QED  BY <4>1, <4>3, <4>4 DEF PassedSoFar
    <3>3. Fitted' /\ Sorted' /\ Nothing' /\ Behind'
      BY <2>1, <2>3, <3>1 DEF OInv, Fitted, Sorted, Nothing, Behind, Within
    <3>4. LogsKept'
      BY <2>1, <3>1 DEF OInv, LogsKept, FilesDiffer, LogsAreTheirs
    <3>5. AllSettled'
      BY <2>1, <3>1 DEF OInv, AllSettled, Settled, Own
    <3>6. QED  BY <3>2, <3>3, <3>4, <3>5 DEF OInv
  <2>4. CASE Return("INCOMPLETE") /\ UNCHANGED results
    <3>1. Fitted' /\ Sorted' /\ LogsKept' /\ Grown
      BY <2>1, <2>4 DEF OInv, Fitted, Sorted, LogsKept, FilesDiffer, LogsAreTheirs, Grown
    <3>2. ShownNext(at, Current, "INCOMPLETE")
      BY <2>2, <2>4 DEF ShownNext, Own
    <3>3. QED  BY <2>1, <2>4, <3>1, <3>2, ReturnOrdered DEF Outcomes
  <2>5. CASE /\ Return("ERROR")
             /\ results' = Append(results, Found("ERROR", FALSE, FALSE, NoLog))
    <3> DEFINE found == Found("ERROR", FALSE, FALSE, NoLog)
    <3>1. AtLoops(found) /\ found.outcome = "ERROR"
      <4>1. Current.name \in Names /\ at \in Nat /\ repeat \in Nat /\ step \in Nat
        BY <2>1, Parts, CurrentSound DEF Within
      <4>2. found.log = NoLog /\ (found.log = LogPath => pc = "command")
        <5>1. LogPath # NoLog
          BY <2>2 DEF LogPath, NoLog
        <5>2. QED  BY <5>1 DEF Found
      <4>3. QED  BY <4>1, <4>2 DEF AtLoops, Found, Finding, Outcomes, Logs
    <3>2. WriteLog(found)
      BY <2>1 DEF WriteLog, Found
    <3>3. repeat \in 1 .. Current.repeat /\ step \in DOMAIN Current.steps
      BY <2>1, <2>2, CurrentSound DEF Within
    <3> HIDE DEF found
    <3>4. results' = Append(results, found)
      BY <2>5 DEF found
    <3>5. /\ Fitted' /\ Sorted' /\ LogsKept'
          /\ DOMAIN results' = DOMAIN results \union {Len(results) + 1}
          /\ Len(results) + 1 \notin DOMAIN results /\ results'[Len(results) + 1] = found
          /\ \A i \in DOMAIN results : results'[i] = results[i]
      BY <2>1, <3>1, <3>2, <3>3, <3>4, AppendOrdered
    <3>6. Grown
      BY <3>1, <3>5 DEF Grown, AtLoops
    <3>7. ShownNext(at, Current, "ERROR")
      <4>1. \A i \in DOMAIN results' : results'[i].at = at <=> i = Len(results) + 1
        BY <2>2, <3>1, <3>5 DEF Own, AtLoops
      <4>2. Len(results) + 1 \in Nat
        BY <1>0
      <4>3. QED  BY <3>1, <3>5, <4>1, <4>2 DEF ShownNext
    <3>8. QED  BY <2>1, <2>5, <3>5, <3>6, <3>7, ReturnOrdered DEF Outcomes
  <2>6. QED  BY <1>2, <2>3, <2>4, <2>5 DEF BeginScenario
<1>3. CASE BeginStep
  <2>1. pc = "step" /\ UNCHANGED <<faults, config, stage, plan, canceled, began, lost, results, files>>
    BY <1>3 DEF BeginStep, scenario, output
  <2>2. CASE pc' = "command"
    <3>1. UNCHANGED <<returned, at, repeat, step>>
      BY <2>2, <1>3 DEF BeginStep, Return, loop
    <3>2. QED  BY <2>1, <2>2, <3>1, QuietOrdered DEF Within
  <2>3. CASE Return("INCOMPLETE")
    <3>1. Fitted' /\ Sorted' /\ LogsKept' /\ Grown
      BY <2>1 DEF OInv, Fitted, Sorted, LogsKept, FilesDiffer, LogsAreTheirs, Grown
    <3>2. ShownNext(at, Current, "INCOMPLETE")
      BY <2>1 DEF ShownNext, Own, OInv, PassedSoFar
    <3>3. began' \in BOOLEAN /\ lost' \in BOOLEAN
      BY <1>0, <2>1
    <3>4. QED  BY <2>1, <2>3, <3>1, <3>2, <3>3, ReturnOrdered DEF Outcomes
  <2>4. QED  BY <1>3, <2>2, <2>3 DEF BeginStep
<1>4. CASE RunStep
  <2>1. PICK found \in StepFinds :
          /\ Record(found) /\ Emits /\ WriteLog(found)
          /\ \/ found.outcome = "PASS" /\ Advance
             \/ found.outcome # "PASS" /\ Return(found.outcome)
    BY <1>4 DEF RunStep
  <2>2. pc = "command" /\ UNCHANGED <<faults, config, stage, plan, canceled>>
    BY <1>4 DEF RunStep
  <2>3. /\ AtLoops(found) /\ found.outcome \in Outcomes /\ found.exited \in BOOLEAN
    <3>1. /\ found \in Finding /\ found.at = at /\ found.log \in {NoLog, LogPath}
      BY <2>2, StepFound
    <3>2. found.name = Current.name /\ found.repeat = repeat /\ found.step = step
      <4>1. \E o, e, l, g : found = Found(o, e, l, g)
        BY DEF StepFinds, CommandFinds
      <4>2. QED  BY <4>1 DEF Found
    <3>3. QED  BY <2>2, <3>1, <3>2 DEF AtLoops, Finding
  <2>4. /\ repeat \in 1 .. Current.repeat /\ step \in DOMAIN Current.steps
        /\ Current.repeat \in Nat /\ Current.steps \in Seq(Step) /\ at \in DOMAIN plan
        /\ repeat \in Nat /\ step \in Nat
    BY <2>2, Parts, CurrentSound DEF WInv, Typed, TypeOK, Within
  <2>5. results' = Append(results, found) /\ began' \in BOOLEAN /\ lost' \in BOOLEAN
    <3>1. results' = Append(results, found) /\ began' = (began \/ found.exited)
      BY <2>1 DEF Record
    <3>2. began' \in BOOLEAN
      BY <1>0, <2>3, <3>1
    <3>3. lost' \in BOOLEAN
      <4>1. CASE lost' = lost
        BY <1>0, <4>1
      <4>2. CASE lost' = (lost \/ "artifacts" \in faults)
        BY <1>0, <4>2
      <4>3. QED  BY <2>1, <4>1, <4>2 DEF Emits
    <3>4. QED  BY <3>1, <3>2, <3>3
  <2>6. /\ Fitted' /\ Sorted' /\ LogsKept'
        /\ DOMAIN results' = DOMAIN results \union {Len(results) + 1}
        /\ Len(results) + 1 \notin DOMAIN results /\ results'[Len(results) + 1] = found
        /\ \A i \in DOMAIN results : results'[i] = results[i]
        /\ \A i \in DOMAIN results : i < Len(results) + 1
    BY <2>1, <2>2, <2>3, <2>4, <2>5, AppendOrdered
  <2>7. Grown
    BY <2>3, <2>6 DEF Grown, AtLoops
  <2> DEFINE own == {i \in DOMAIN results' : results'[i].at = at}
  <2>8. own = Own(at) \union {Len(results) + 1}
    BY <2>3, <2>6 DEF Own, AtLoops
  <2>9. \A i \in Own(at) : results'[i] = results[i] /\ results[i].outcome = "PASS"
                           /\ i < Len(results) + 1
    BY <2>2, <2>6 DEF OInv, PassedSoFar, Own
  <2>10. ASSUME NEW p \in 1 .. Current.repeat, NEW k \in DOMAIN Current.steps,
                p < repeat \/ (p = repeat /\ k <= step)
         PROVE  \E i \in own : results'[i].repeat = p /\ results'[i].step = k
    <3>1. CASE p = repeat /\ k = step
      BY <2>3, <2>6, <2>8, <3>1 DEF AtLoops
    <3>2. CASE p < repeat \/ (p = repeat /\ k < step)
      BY <2>2, <2>8, <2>9, <3>2 DEF OInv, PassedSoFar
    <3>3. QED  BY <2>4, <2>10, <3>1, <3>2
  <2>11. found.outcome = "PASS" => \A i \in own : results'[i].outcome = "PASS"
    BY <2>6, <2>8, <2>9
  <2>12. CASE found.outcome # "PASS" /\ Return(found.outcome)
    <3>1. ShownNext(at, Current, found.outcome)
      <4>1. \A i \in own : results'[i].outcome # "PASS" => i = Len(results) + 1
        BY <2>8, <2>9
      <4>2. \A j \in own : j <= Len(results) + 1
        <5>1. Len(results) + 1 \in Nat /\ \A i \in DOMAIN results : i \in Nat
          BY <1>0
        <5>2. QED  BY <2>8, <2>9, <5>1 DEF Own
      <4>3. QED  BY <2>6, <2>8, <2>12, <4>1, <4>2 DEF ShownNext
    <3>2. QED  BY <2>2, <2>3, <2>5, <2>6, <2>7, <2>12, <3>1, ReturnOrdered
  <2>13. CASE found.outcome = "PASS" /\ step = Len(Current.steps) /\ repeat = Current.repeat
              /\ Return("PASS")
    <3>1. \A p \in 1 .. Current.repeat, k \in DOMAIN Current.steps :
            p < repeat \/ (p = repeat /\ k <= step)
      BY <2>4, <2>13
    <3>2. ShownNext(at, Current, "PASS")
      BY <2>10, <2>11, <2>13, <3>1 DEF ShownNext
    <3>3. QED  BY <2>2, <2>5, <2>6, <2>7, <2>13, <3>2, ReturnOrdered DEF Outcomes
  <2>14. CASE /\ found.outcome = "PASS" /\ UNCHANGED <<at, returned>> /\ pc' = "step"
              /\ \/ step' = step + 1 /\ repeat' = repeat
                 \/ repeat' = repeat + 1 /\ step' = 1 /\ step = Len(Current.steps)
    <3>1. Own(at)' = own /\ Current' = Current
      BY <2>2, <2>14 DEF Own, Current
    <3>2. Behind'
      <4>1. ASSUME NEW i \in DOMAIN results'
            PROVE  Before(results'[i], at', repeat', step')
        <5>1. \/ Before(results'[i], at, repeat, step)
              \/ results'[i].at = at /\ results'[i].repeat = repeat /\ results'[i].step = step
          BY <2>2, <2>3, <2>6 DEF OInv, Behind, AtLoops, Within
        <5>2. results'[i].repeat \in Nat /\ results'[i].step \in Nat /\ results'[i].at \in Nat /\ at \in Nat
          BY <2>3, <2>4, <2>6, Parts DEF AtLoops
        <5>3. results'[i].at = at => results'[i].step <= Len(Current.steps)
          BY <2>4, <2>6, <2>2 DEF Fitted, Fitting, Current
        <5>4. QED  BY <2>4, <2>14, <5>1, <5>2, <5>3 DEF Before
      <4>2. QED  BY <4>1 DEF Behind
    <3>3. PassedSoFar'
      <4>1. ASSUME NEW p \in 1 .. Current.repeat, NEW k \in DOMAIN Current.steps,
                   p < repeat' \/ (p = repeat' /\ k < step')
            PROVE  p < repeat \/ (p = repeat /\ k <= step)
        BY <2>4, <2>14, <4>1
      <4>2. ASSUME NEW p \in 1 .. Current.repeat, NEW k \in DOMAIN Current.steps,
                   p < repeat' \/ (p = repeat' /\ k < step')
            PROVE  \E i \in own : results'[i].repeat = p /\ results'[i].step = k
        BY <2>10, <4>1, <4>2
      <4>3. QED  BY <2>11, <2>14, <3>1, <4>2 DEF PassedSoFar
    <3>4. AllSettled'
      <4>1. ASSUME NEW n \in DOMAIN returned'
            PROVE  Settled(n)'
        <5>1. n \in DOMAIN returned /\ returned'[n] = returned[n]
          BY <2>14
        <5>2. QED  BY <2>2, <2>7, <5>1, SettledStays DEF Within
      <4>2. QED  BY <4>1 DEF AllSettled
    <3>5. Nothing'
      BY <2>14 DEF Nothing
    <3>6. QED  BY <2>6, <3>2, <3>3, <3>4, <3>5 DEF OInv
  <2>15. QED
    <3>1. CASE found.outcome # "PASS"
      BY <2>1, <2>12, <3>1
    <3>2. CASE found.outcome = "PASS" /\ Advance
      BY <2>13, <2>14, <3>2 DEF Advance
    <3>3. QED  BY <2>1, <3>1, <3>2
<1>5. CASE NextScenario
  BY <1>5, QuietOrdered DEF NextScenario, loop, output, Within
<1>6. CASE Signal
  BY <1>6, QuietOrdered DEF Signal, loop, output, Within
<1>7. CASE UNCHANGED vars
  <2>1. UNCHANGED <<plan, at, repeat, step, returned, results, files, pc, stage>>
    BY <1>7 DEF vars, loop, output
  <2>2. CASE pc \notin {"parse", "rejected"}
    BY <2>1, <2>2, QuietOrdered
  <2>3. CASE pc \in {"parse", "rejected"}
    <3>1. /\ results' = <<>> /\ returned' = <<>> /\ stage' = "none"
          /\ pc' \in {"parse", "rejected"}
      BY <2>1, <2>3 DEF OInv, Nothing
    <3>2. QED
      BY <3>1 DEF OInv, Nothing, Fitted, Sorted, Behind, LogsKept, LogsAreTheirs, AllSettled,
                  PassedSoFar, Within
  <2>4. QED  BY <2>2, <2>3
<1>8. QED
  BY <1>1, <1>2, <1>3, <1>4, <1>5, <1>6, <1>7 DEF Next, Program, Terminated

\* The results of every run stand in the order of the loops.
THEOREM ResultsOrdered == Spec => []OInv
<1>1. WInv /\ OInv /\ [Next]_vars => OInv'
  BY NextOrdered
<1>2. QED  BY InitOrdered, <1>1, WorkloadsInvariant, PTL DEF Spec

\* A log file that a result names holds the output of that step, where no two
\* names of the stage come to the same file name.
THEOREM LogsHold == Spec => []LogsKept
<1>1. OInv => LogsKept
  BY DEF OInv
<1>2. QED  BY <1>1, ResultsOrdered, PTL

\* A scenario passes on every repeat of every step, run once, and nothing of it
\* runs after the step that decided it.
THEOREM PassHolds == Spec => []PassRanEverything
<1>1. WInv /\ OInv => PassRanEverything
  <2> SUFFICES ASSUME WInv, OInv, NEW n \in DOMAIN returned
               PROVE  LET own == {i \in DOMAIN results : results[i].at = n}
                      IN  /\ returned[n].outcome = "PASS" =>
                               /\ {<<results[i].repeat, results[i].step>> : i \in own}
                                    = (1 .. plan[n].repeat) \X DOMAIN plan[n].steps
                               /\ \A i, j \in own :
                                    results[i].repeat = results[j].repeat
                                      /\ results[i].step = results[j].step => i = j
                          /\ \A i \in own : results[i].outcome # "PASS" =>
                               /\ \A j \in own : j <= i
                               /\ returned[n].outcome = results[i].outcome
    BY DEF PassRanEverything
  <2>1. Settled(n)
    BY DEF OInv, AllSettled
  <2>2. \A i \in Own(n) : /\ results[i].repeat \in 1 .. plan[n].repeat
                          /\ results[i].step \in DOMAIN plan[n].steps
    BY DEF OInv, Fitted, Fitting, Own
  <2>3. ASSUME returned[n].outcome = "PASS"
        PROVE  {<<results[i].repeat, results[i].step>> : i \in Own(n)}
                 = (1 .. plan[n].repeat) \X DOMAIN plan[n].steps
    <3>1. \A p \in 1 .. plan[n].repeat, k \in DOMAIN plan[n].steps :
            \E i \in Own(n) : results[i].repeat = p /\ results[i].step = k
      BY <2>1, <2>3 DEF Settled
    <3>2. QED  BY <2>2, <3>1
  <2>4. ASSUME NEW i \in Own(n), NEW j \in Own(n),
               results[i].repeat = results[j].repeat, results[i].step = results[j].step
        PROVE  i = j
    <3>1. i \in DOMAIN results /\ j \in DOMAIN results /\ results[i].at = n /\ results[j].at = n
      BY DEF Own
    <3>2. results \in Seq(Finding)
      BY Parts
    <3>3. i \in Nat /\ j \in Nat
      BY <3>1, <3>2
    <3>4. ~ i < j /\ ~ j < i
      BY <2>4, <3>1, Parts DEF OInv, Sorted, Before
    <3>5. QED  BY <3>3, <3>4
  <2>5. \A i \in Own(n) : results[i].outcome # "PASS" =>
          (\A j \in Own(n) : j <= i) /\ returned[n].outcome = results[i].outcome
    BY <2>1 DEF Settled
  <2>6. QED  BY <2>3, <2>4, <2>5 DEF Own
<1>2. QED  BY <1>1, WorkloadsInvariant, ResultsOrdered, PTL

\* The results of two steps of a scenario that passed stand in their order.
LEMMA PassedInOrder ==
  ASSUME WInv, OInv, NEW n \in DOMAIN returned, returned[n].outcome = "PASS",
         NEW a \in DOMAIN plan[n].steps, NEW b \in DOMAIN plan[n].steps, a < b,
         plan[n].repeat \in 1 .. MaxRepeat
  PROVE  \E i, j \in Own(n) : i < j /\ results[i].step = a /\ results[j].step = b
<1>1. 1 \in 1 .. plan[n].repeat
  OBVIOUS
<1>2. PICK i \in Own(n) : results[i].repeat = 1 /\ results[i].step = a
  BY <1>1 DEF OInv, AllSettled, Settled
<1>3. PICK j \in Own(n) : results[j].repeat = 1 /\ results[j].step = b
  BY <1>1 DEF OInv, AllSettled, Settled
<1>4. i \in DOMAIN results /\ j \in DOMAIN results /\ results[i].at = n /\ results[j].at = n
  BY DEF Own
<1>5. i \in Nat /\ j \in Nat /\ a \in Nat /\ b \in Nat /\ n \in Nat
  <2>1. results \in Seq(Finding)
    BY Parts
  <2>2. i \in Nat /\ j \in Nat /\ results[i] \in Finding /\ results[j] \in Finding
    BY <1>4, <2>1
  <2>3. results[i].at \in Nat /\ results[i].step \in Nat /\ results[j].step \in Nat
    BY <2>2 DEF Finding
  <2>4. QED  BY <1>2, <1>3, <1>4, <2>2, <2>3
<1>6. i # j
  BY <1>2, <1>3, <1>5
<1>7. ~ j < i
  <2>1. SUFFICES ASSUME j < i  PROVE FALSE
    OBVIOUS
  <2>2. Before(results[j], n, 1, a)
    BY <1>2, <1>4, <2>1 DEF OInv, Sorted
  <2>3. QED  BY <1>3, <1>4, <1>5, <2>2 DEF Before
<1>8. QED  BY <1>2, <1>3, <1>5, <1>6, <1>7

\* The plan of the coexistence stage has a scenario in each direction.
LEMMA DirectionsPlanned ==
  ASSUME NEW c \in Config, Accepts(c), NEW first \in Roles, NEW second \in Roles, first # second
  PROVE  \E n \in DOMAIN StageScenarios(c, "COEXISTENCE") :
           OrderedRoles(StageScenarios(c, "COEXISTENCE")[n].steps, first, second)
<1> DEFINE a == c.lists["base_to_candidate"]
           b == c.lists["candidate_to_base"]
           d == c.lists["alternating"]
<1>1. StageScenarios(c, "COEXISTENCE") = a \o b \o d
  BY DEF StageScenarios
<1>2. a \in Seq(Scenario) /\ b \in Seq(Scenario) /\ d \in Seq(Scenario)
  BY DEF Config, Lists
<1>3. a # <<>> /\ b # <<>>
  BY DEF Accepts
<1>4. OrderedRoles(a[1].steps, "base", "candidate") /\ OrderedRoles(b[1].steps, "candidate", "base")
  <2>1. 1 \in DOMAIN a /\ 1 \in DOMAIN b
    BY <1>2, <1>3
  <2>2. ValidList(c, "base_to_candidate") /\ ValidList(c, "candidate_to_base")
    BY DEF Accepts, Lists
  <2>3. QED  BY <2>1, <2>2 DEF ValidList, ValidScenario, ValidOrder
<1> HIDE DEF a, b, d
<1>5. /\ 1 \in DOMAIN (a \o b \o d) /\ (a \o b \o d)[1] = a[1]
      /\ Len(a) + 1 \in DOMAIN (a \o b \o d) /\ (a \o b \o d)[Len(a) + 1] = b[1]
  BY <1>2, <1>3
<1>6. \/ first = "base" /\ second = "candidate"
      \/ first = "candidate" /\ second = "base"
  BY DEF Roles
<1>7. QED  BY <1>1, <1>4, <1>5, <1>6

\* Data has crossed in both directions when a coexistence stage has passed.
THEOREM DirectionsHold == Spec => []BothDirections
<1>1. WInv /\ OInv => BothDirections
  <2> SUFFICES ASSUME WInv, OInv, stage = "COEXISTENCE", Len(returned) = Len(plan),
                      \A n \in DOMAIN returned : returned[n].outcome = "PASS",
                      NEW first \in Roles, NEW second \in Roles, first # second
               PROVE  \E i, j \in DOMAIN results :
                        /\ i < j /\ results[i].at = results[j].at
                        /\ RoleOf(results[i]) = first /\ RoleOf(results[j]) = second
    BY DEF BothDirections
  <2>1. /\ config \in Config /\ Accepts(config) /\ plan = StageScenarios(config, "COEXISTENCE")
        /\ plan \in Seq(Scenario) /\ returned \in Seq(Result) /\ stage \in Stages
    <3>1. pc \in Within \union {"done"}
      BY DEF OInv, Nothing, WInv, Typed, TypeOK, Within
    <3>2. QED  BY <3>1, Parts DEF WInv, Typed, TypeOK, Planned
  <2>2. PICK n \in DOMAIN plan : OrderedRoles(plan[n].steps, first, second)
    BY <2>1, DirectionsPlanned
  <2>3. n \in DOMAIN returned /\ returned[n].outcome = "PASS"
    BY <2>1, <2>2
  <2>4. Sound(config, JudgedIn(stage), plan[n])
    BY <2>1, <2>2, StageSound
  <2>5. PICK a \in DOMAIN plan[n].steps, b \in DOMAIN plan[n].steps :
          a < b /\ plan[n].steps[a].target[1] = first /\ plan[n].steps[b].target[1] = second
    BY <2>2 DEF OrderedRoles
  <2>6. PICK i \in Own(n), j \in Own(n) : i < j /\ results[i].step = a /\ results[j].step = b
    BY <2>3, <2>4, <2>5, PassedInOrder DEF Sound
  <2>7. QED  BY <2>5, <2>6 DEF Own, RoleOf
<1>2. QED  BY <1>1, WorkloadsInvariant, ResultsOrdered, PTL

\* Where scenario names differ, the test case of a scenario has its outcome.
THEOREM CasesHold == Spec => []CasesAgree
<1>1. WInv /\ OInv => CasesAgree
  <2> SUFFICES ASSUME WInv, OInv, \A m, n \in DOMAIN plan : plan[m].name = plan[n].name => m = n,
                      NEW n \in DOMAIN returned, returned[n].outcome # "INCOMPLETE"
               PROVE  plan[n].name \in Cases /\ CaseOutcome(plan[n].name) = returned[n].outcome
    BY DEF CasesAgree
  <2>1. Settled(n) /\ n \in DOMAIN plan
    BY DEF OInv, AllSettled, Settled
  <2>2. returned[n].outcome \in {"PASS", "FAIL", "ERROR"} /\ returned \in Seq(Result)
    <3>1. returned \in Seq(Result)
      BY Parts
    <3>2. returned[n] \in Result
      BY <3>1
    <3>3. QED  BY <3>1, <3>2 DEF Result, Outcomes
  <2>3. \A i \in DOMAIN results : results[i].name = plan[n].name <=> i \in Own(n)
    BY <2>1 DEF OInv, Fitted, Fitting, Own
  <2>4. Own(n) # {}
    <3>1. CASE returned[n].outcome = "PASS"
      <4>1. plan[n].repeat \in 1 .. MaxRepeat /\ plan[n].steps # <<>> /\ plan[n].steps \in Seq(Step)
        <5>1. pc \in Within \union {"done"}
          BY DEF OInv, Nothing, WInv, Typed, TypeOK, Within
        <5>2. /\ config \in Config /\ Accepts(config) /\ plan = StageScenarios(config, stage)
              /\ stage \in Stages /\ plan \in Seq(Scenario)
          BY <5>1 DEF WInv, Typed, TypeOK, Planned
        <5>3. Sound(config, JudgedIn(stage), plan[n]) /\ plan[n] \in Scenario
          BY <2>1, <5>2, StageSound
        <5>4. QED  BY <5>3 DEF Sound, Scenario
      <4>2. 1 \in 1 .. plan[n].repeat /\ 1 \in DOMAIN plan[n].steps
        BY <4>1
      <4>3. QED  BY <2>1, <3>1, <4>2 DEF Settled
    <3>2. CASE returned[n].outcome \in {"FAIL", "ERROR"}
      BY <2>1, <3>2 DEF Settled
    <3>3. QED  BY <2>2, <3>1, <3>2
  <2>5. plan[n].name \in Cases
    BY <2>3, <2>4 DEF Cases, Own
  <2> DEFINE bad == {i \in DOMAIN results :
                       results[i].name = plan[n].name /\ results[i].outcome # "PASS"}
  <2>6. bad = {i \in Own(n) : results[i].outcome # "PASS"}
    BY <2>3 DEF Own
  <2>7. CaseOutcome(plan[n].name) =
          IF bad = {} THEN "PASS"
          ELSE results[CHOOSE i \in bad : \A j \in bad : i <= j].outcome
    BY DEF CaseOutcome
  <2> HIDE DEF bad
  <2>8. CASE returned[n].outcome = "PASS"
    <3>1. bad = {}
      BY <2>1, <2>6, <2>8 DEF Settled
    <3>2. QED  BY <2>5, <2>7, <2>8, <3>1
  <2>9. CASE returned[n].outcome \in {"FAIL", "ERROR"}
    <3>1. PICK i \in bad : results[i].outcome = returned[n].outcome
      BY <2>1, <2>6, <2>9 DEF Settled
    <3>2. \A j \in bad : j = i
      <4>1. results \in Seq(Finding) /\ bad \subseteq DOMAIN results
        BY <2>6, Parts DEF Own
      <4>2. \A j \in bad : j <= i /\ i <= j
        BY <2>1, <2>6 DEF Settled
      <4>3. QED  BY <4>1, <4>2
    <3>3. i <= i
      BY <2>1, <2>6 DEF Settled
    <3>4. (CHOOSE k \in bad : \A j \in bad : k <= j) = i
      BY <3>2, <3>3
    <3>5. QED  BY <2>5, <2>7, <3>1, <3>4
  <2>10. QED  BY <2>2, <2>8, <2>9
<1>2. QED  BY <1>1, WorkloadsInvariant, ResultsOrdered, PTL

\* What a scenario answers with is what was run.
THEOREM EvidenceHolds == Spec => []EvidenceIsRun
BY PassHolds, BeganHolds, PTL DEF EvidenceIsRun

\* Scenarios and steps that are told apart by their names keep their own logs and
\* their own test cases.
THEOREM RecordsHold == Spec => []RecordsKept
BY LogsHold, CasesHold, PTL DEF RecordsKept
=============================================================================
