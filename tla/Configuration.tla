--------------------------- MODULE Configuration ----------------------------
(***************************************************************************)
(* internal/config: the defaults Parse fills in and what Validate accepts, *)
(* for the parts of a configuration a run depends on.                      *)
(*                                                                         *)
(* A configuration is a record.  `lists' holds the nine lists of scenarios *)
(* under their YAML names and `reuse' the reuse_baseline of the four       *)
(* groups among them; `hooks' holds the four lists of hooks.  A target is  *)
(* <<role, component>>, or NoTarget for a step without one.  Commands,     *)
(* variables and the other texts that only have to be well formed are the  *)
(* set of the defects they have.                                           *)
(***************************************************************************)
EXTENDS Integers, Sequences

CONSTANT Names  \* of scenarios, steps, components, hooks and services

Lists == {"baseline", "base_after_transition", "candidate_before_coexistence",
          "base_with_candidate_running", "base_to_candidate",
          "candidate_to_base", "alternating", "candidate_traffic", "rollback"}

\* The lists that are scenario groups: they may reuse the baseline.
Groups == {"base_after_transition", "candidate_before_coexistence",
           "base_with_candidate_running", "rollback"}

HookLists == {"bootstrap", "transition", "candidate_only", "rollback"}

Roles == {"base", "candidate"}

NoTarget == <<"none", "none">>

MaxRepeat == 100

MaxSeconds == 3600

\* What is wrong with the texts at some place of a document: a command, a
\* variable or a path that is missing, malformed or reserved for Backline, and
\* at the top a document that does not decode, has a key twice or needs a
\* variable of the environment that is not set.
Defects == SUBSET {"malformed", "reserved", "missing", "undecodable"}

\* The types.  A value that is left out of a document is zero or empty.
Revisions == Roles \union {""}

Step == [name : Names, target : (Roles \X Names) \union {NoTarget},
         timeout : Int, revision : Revisions, defects : Defects]

Scenario == [name : Names, mutates : BOOLEAN, repeat : Int, steps : Seq(Step)]

Component == [name : Names, port : Int, readiness : STRING, timeout : Int,
              defects : Defects]

Hook == [name : Names, revision : Revisions, runner : Names \union {"host"},
         timeout : Int, defects : Defects]

Config ==
  [components : Seq(Component),
   services   : Seq((Roles \union {"none"}) \X Names),
   hooks      : [HookLists -> Seq(Hook)],
   lists      : [Lists -> Seq(Scenario)],
   reuse      : [Groups -> BOOLEAN],
   defaults   : [timeout : Int, revision : Revisions],
   logLimit   : Int, startup : Int, shutdown : Int, defects : Defects]

-----------------------------------------------------------------------------
\* applyNestedDefaults.

OrDefault(value, default) == IF value = 0 THEN default ELSE value

StepDefaults(s, defaults) ==
  [name |-> s.name, target |-> s.target, defects |-> s.defects,
   timeout |-> OrDefault(s.timeout, defaults.timeout),
   revision |-> IF s.revision = "" THEN defaults.revision ELSE s.revision]

ScenarioDefaults(s, defaults) ==
  [name |-> s.name, mutates |-> s.mutates, repeat |-> OrDefault(s.repeat, 1),
   steps |-> [i \in DOMAIN s.steps |-> StepDefaults(s.steps[i], defaults)]]

ComponentDefaults(k) ==
  [name |-> k.name, port |-> k.port, readiness |-> k.readiness,
   timeout |-> OrDefault(k.timeout, 90), defects |-> k.defects]

HookDefaults(h) ==
  [name |-> h.name, revision |-> h.revision, runner |-> h.runner,
   timeout |-> OrDefault(h.timeout, 60), defects |-> h.defects]

WithDefaults(c) ==
  [components |-> [i \in DOMAIN c.components |-> ComponentDefaults(c.components[i])],
   services |-> c.services,
   hooks |-> [h \in HookLists |->
                [i \in DOMAIN c.hooks[h] |-> HookDefaults(c.hooks[h][i])]],
   lists |-> [l \in Lists |->
                [i \in DOMAIN c.lists[l] |-> ScenarioDefaults(c.lists[l][i], c.defaults)]],
   reuse |-> c.reuse, defaults |-> c.defaults,
   logLimit |-> c.logLimit, startup |-> c.startup, shutdown |-> c.shutdown,
   defects |-> c.defects]

-----------------------------------------------------------------------------
\* Validate.

NamesDiffer(list) ==
  \A i, j \in DOMAIN list : list[i].name = list[j].name => i = j

InSeconds(value) == value \in 1 .. MaxSeconds

\* validateReadiness.
ValidReadiness(component) ==
  /\ InSeconds(component.timeout)
  /\ component.readiness \in {"http", "tcp", "docker-health", "command"}
  /\ component.readiness \in {"http", "tcp"} => component.port # 0

ValidComponents(c) ==
  /\ NamesDiffer(c.components)
  /\ \A i \in DOMAIN c.components :
       /\ c.components[i].port \in 0 .. 65535
       /\ ValidReadiness(c.components[i])
       /\ c.components[i].defects = {}
  /\ \E i \in DOMAIN c.components : c.components[i].port > 0

\* A shared service may not answer to the name or the alias of a component.
ValidServices(c) ==
  /\ c.services # <<>>
  /\ \A i, j \in DOMAIN c.services : c.services[i] = c.services[j] => i = j
  /\ \A i \in DOMAIN c.services, k \in DOMAIN c.components :
       c.services[i] \notin {<<"none", c.components[k].name>>,
                             <<"base", c.components[k].name>>,
                             <<"candidate", c.components[k].name>>}

\* The revision validateHooks requires of a list.
HookRevisions(list) ==
  CASE list = "bootstrap" -> {"base"}
    [] list \in {"transition", "candidate_only"} -> {"candidate"}
    [] list = "rollback" -> Roles

\* validateHooks.
ValidHooks(c, list) ==
  /\ NamesDiffer(c.hooks[list])
  /\ \A i \in DOMAIN c.hooks[list] :
       LET hook == c.hooks[list][i]
       IN  /\ hook.revision \in HookRevisions(list)
           /\ \/ hook.runner = "host"
              \/ \E k \in DOMAIN c.components : hook.runner = c.components[k].name
           /\ InSeconds(hook.timeout)
           /\ hook.defects = {}

\* The components a step may target: those with an internal port.
Addressable(c) ==
  {c.components[i].name : i \in {k \in DOMAIN c.components : c.components[k].port > 0}}

\* roleRuleBase and roleRuleCandidate; the other rules admit both roles.
RolesOf(list) ==
  CASE list \in {"baseline", "base_after_transition",
                 "base_with_candidate_running", "rollback"} -> {"base"}
    [] list \in {"candidate_before_coexistence", "candidate_traffic"} -> {"candidate"}
    [] OTHER -> Roles

\* Mutant of OrderedRoles: both roles occur, in whatever order.
BothRoles(steps, first, second) ==
  \E i, j \in DOMAIN steps : steps[i].target[1] = first /\ steps[j].target[1] = second

\* orderedRoles: a target of the first role with one of the second after it.
OrderedRoles(steps, first, second) ==
  \E i, j \in DOMAIN steps :
    i < j /\ steps[i].target[1] = first /\ steps[j].target[1] = second

\* What a list requires of the roles of a scenario as a whole.
ValidOrder(list, steps) ==
  CASE list = "base_to_candidate" -> OrderedRoles(steps, "base", "candidate")
    [] list = "candidate_to_base" -> OrderedRoles(steps, "candidate", "base")
    [] list = "alternating" ->
         \A role \in Roles : \E i \in DOMAIN steps : steps[i].target[1] = role
    [] OTHER -> TRUE

ValidStep(c, list, s) ==
  /\ s.defects = {}
  /\ InSeconds(s.timeout)
  /\ s.revision \in Roles
  /\ \/ s.target = NoTarget
     \/ s.target[1] \in RolesOf(list) /\ s.target[2] \in Addressable(c)

ValidScenario(c, list, s) ==
  /\ s.repeat \in 1 .. MaxRepeat
  /\ s.steps # <<>>
  /\ NamesDiffer(s.steps)
  /\ \A i \in DOMAIN s.steps : ValidStep(c, list, s.steps[i])
  /\ ValidOrder(list, s.steps)

\* validateScenarioList.  Names differ within the list.
ValidList(c, list) ==
  /\ NamesDiffer(c.lists[list])
  /\ \A i \in DOMAIN c.lists[list] : ValidScenario(c, list, c.lists[list][i])

\* Mutant of ValidGroup: a group that reuses the baseline may be empty, and
\* one that does not may be too.
ValidGroupIfReused(c, group) == c.reuse[group] => c.lists[group] = <<>>

\* validateScenarioGroup: exactly one of reuse_baseline and scenarios.
ValidGroup(c, group) == c.reuse[group] = (c.lists[group] = <<>>)

\* The settings outside the lists, with the bounds of the captured logs.
ValidSettings(c) ==
  /\ c.logLimit \in 4096 .. 104857600
  /\ InSeconds(c.startup) /\ InSeconds(c.shutdown)
  /\ c.defaults.revision \in Roles /\ InSeconds(c.defaults.timeout)
  /\ c.defects = {}

Mutates(c) ==
  \E i \in DOMAIN c.lists["candidate_traffic"] : c.lists["candidate_traffic"][i].mutates

Accepts(c) ==
  /\ ValidSettings(c) /\ ValidComponents(c) /\ ValidServices(c)
  /\ \A h \in HookLists : ValidHooks(c, h)
  /\ \A l \in Lists : ValidList(c, l)
  /\ \A g \in Groups : ValidGroup(c, g)
  /\ \A l \in {"baseline", "base_to_candidate", "candidate_to_base"} :
       c.lists[l] # <<>>
  /\ Mutates(c)

-----------------------------------------------------------------------------
\* What the orchestrator runs from an accepted configuration.

Stages == {"BASELINE", "BASE_AFTER_TRANSITION_CONTROL", "CANDIDATE_CONTROL",
           "BASE_WITH_CANDIDATE_CONTROL", "COEXISTENCE", "CANDIDATE_TRAFFIC",
           "ROLLBACK"}

\* Mutant of RemapBaseline: the reused scenarios keep their targets.
KeepTargets(scenarios, role) == scenarios

\* workloads.RemapBaseline.
Remapped(s, role) ==
  [name |-> s.name, timeout |-> s.timeout, revision |-> s.revision, defects |-> s.defects,
   target |-> IF s.target = NoTarget THEN NoTarget ELSE <<role, s.target[2]>>]

RemapBaseline(scenarios, role) ==
  [i \in DOMAIN scenarios |->
     [name |-> scenarios[i].name, mutates |-> scenarios[i].mutates,
      repeat |-> scenarios[i].repeat,
      steps |-> [k \in DOMAIN scenarios[i].steps |-> Remapped(scenarios[i].steps[k], role)]]]

\* workloads.GroupScenarios.
GroupScenarios(c, group, role) ==
  IF c.reuse[group] THEN RemapBaseline(c.lists["baseline"], role)
                    ELSE c.lists[group]

\* The scenarios runLifecycle and runRollback pass to a stage.
StageScenarios(c, stage) ==
  CASE stage = "BASELINE" -> c.lists["baseline"]
    [] stage = "BASE_AFTER_TRANSITION_CONTROL" ->
         GroupScenarios(c, "base_after_transition", "base")
    [] stage = "CANDIDATE_CONTROL" ->
         GroupScenarios(c, "candidate_before_coexistence", "candidate")
    [] stage = "BASE_WITH_CANDIDATE_CONTROL" ->
         GroupScenarios(c, "base_with_candidate_running", "base")
    [] stage = "COEXISTENCE" ->
         c.lists["base_to_candidate"] \o c.lists["candidate_to_base"]
           \o c.lists["alternating"]
    [] stage = "CANDIDATE_TRAFFIC" -> c.lists["candidate_traffic"]
    [] stage = "ROLLBACK" -> GroupScenarios(c, "rollback", "base")

\* The roles whose components run during a stage: allInstances.
Deployed(stage) ==
  CASE stage \in {"BASELINE", "BASE_AFTER_TRANSITION_CONTROL", "ROLLBACK"} -> {"base"}
    [] stage = "CANDIDATE_TRAFFIC" -> {"candidate"}
    [] OTHER -> Roles
=============================================================================
