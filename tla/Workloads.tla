----------------------------- MODULE Workloads ------------------------------
(***************************************************************************)
(* internal/workloads: from the configuration to the step results of one   *)
(* scenario stage, the log files the steps leave and the test cases        *)
(* internal/reporting makes of the results.                                *)
(*                                                                         *)
(* The stage is any of the seven a run may come to, with the components    *)
(* running that the lifecycle has running there.  What the lifecycle does  *)
(* between two scenarios is external here: it goes on or ends the stage.   *)
(***************************************************************************)
EXTENDS Configuration

CONSTANTS
  Documents,   \* the configurations as the YAML document gives them
  Directory,   \* sanitize: the name of a scenario or step |-> a file name
  FaultSets    \* the sets of kinds of faults a run may meet

\* "launch" is a process that cannot be started or ended, "command" a command
\* of the project, "artifacts" a write to the artifact directory or the
\* scenario directory, "signal" an interruption.
FaultKinds == {"launch", "command", "artifacts", "signal"}

ASSUME FaultsAssumption == FaultSets \subseteq SUBSET FaultKinds
ASSUME DocumentsAssumption == Documents \subseteq Config
ASSUME DirectoryAssumption == Directory \in [Names -> Names]

VARIABLES
  faults,    \* the kinds of faults this run meets
  config,    \* the configuration
  pc,        \* the point of the program
  stage,     \* the stage that runs, "none" before one does
  plan,      \* its scenarios
  at,        \* the scenario, the repeat and the step the loops are at
  repeat,
  step,
  canceled,  \* ctx.Err() # nil
  began,     \* the fields of the ScenarioResult of the current scenario
  lost,      \* its OperationalErrors are not empty
  returned,  \* the ScenarioResults of the scenarios that returned
  results,   \* execution.steps: the StepResults of the stage
  files      \* log path |-> the number of the result whose output it holds

loop     == <<at, repeat, step>>
scenario == <<began, lost>>
output   == <<results, files>>

vars == <<faults, config, pc, stage, plan, loop, canceled, scenario, returned, output>>

NoLog == <<"none", 0, "none">>

Outcomes == {"PASS", "FAIL", "ERROR", "INCOMPLETE"}

Init ==
  /\ faults \in FaultSets /\ config \in Documents
  /\ pc = "parse" /\ stage = "none" /\ plan = <<>>
  /\ at = 1 /\ repeat = 1 /\ step = 1
  /\ canceled = FALSE /\ began = FALSE /\ lost = FALSE
  /\ returned = <<>> /\ results = <<>> /\ files = <<>>

\* Parse, then the stage the lifecycle has come to.
Parse ==
  /\ pc = "parse"
  /\ config' = WithDefaults(config)
  /\ \/ ~ Accepts(config') /\ pc' = "rejected" /\ UNCHANGED <<stage, plan>>
     \/ /\ Accepts(config')
        /\ \E s \in Stages :
             stage' = s /\ plan' = StageScenarios(config', s)
        /\ pc' = "scenario"
  /\ UNCHANGED <<faults, loop, canceled, scenario, returned, output>>

-----------------------------------------------------------------------------
\* RunScenario.

Current == plan[at]
CurrentStep == Current.steps[step]

\* RunScenario returns: the loops of the next scenario start anew.
Return(outcome) ==
  /\ returned' = Append(returned,
       [outcome |-> outcome, began |-> began', lost |-> lost'])
  /\ at' = at + 1 /\ repeat' = 1 /\ step' = 1
  /\ pc' = IF outcome = "INCOMPLETE" \/ at = Len(plan) THEN "done" ELSE "between"

\* Mutant of Record: a step without an exit code counts as begun too.
RecordAsBegun(found) ==
  /\ results' = Append(results, found)
  /\ began' = TRUE

\* Mutant of Record: only a step that passed counts as begun.
RecordPassed(found) ==
  /\ results' = Append(results, found)
  /\ began' = (began \/ found.outcome = "PASS")

\* The step result is appended; ExitCode # nil is what makes Began.
Record(found) ==
  /\ results' = Append(results, found)
  /\ began' = (began \/ found.exited)

\* Emit may fail before or after the step; either is an operational error.
Emits == lost' \in {lost, lost \/ "artifacts" \in faults}

\* A step result.  `exited' is ExitCode # nil and `launched' what really
\* happened: the command was started.
Found(outcome, exited, launched, log) ==
  [at |-> at, name |-> Current.name, repeat |-> repeat, step |-> step,
   outcome |-> outcome, exited |-> exited, launched |-> launched, log |-> log]

\* The entry of RunScenario: an interruption, then the scenario directory.
BeginScenario ==
  /\ pc = "scenario"
  /\ began' = FALSE /\ lost' = FALSE
  /\ \/ canceled /\ Return("INCOMPLETE") /\ UNCHANGED results
     \/ ~ canceled /\ pc' = "step" /\ UNCHANGED <<returned, loop, results>>
     \/ /\ ~ canceled /\ "artifacts" \in faults
        /\ results' = Append(results, Found("ERROR", FALSE, FALSE, NoLog))
        /\ Return("ERROR")
  /\ UNCHANGED <<faults, config, stage, plan, canceled, files>>

\* The head of the loop over the steps.
BeginStep ==
  /\ pc = "step"
  /\ UNCHANGED <<faults, config, stage, plan, canceled, scenario, output>>
  /\ \/ canceled /\ Return("INCOMPLETE")
     \/ ~ canceled /\ pc' = "command" /\ UNCHANGED <<returned, loop>>

\* components.Find and the endpoint: the target runs and is addressable.
Resolves(target) ==
  \/ target = NoTarget
  \/ /\ target[1] \in Deployed(stage)
     /\ target[2] \in Addressable(config)

\* Mutant of LogPath: the file is named without the repeat index.
LogPathOfStep == <<Directory[Current.name], 0, Directory[CurrentStep.name]>>

\* logs/<stage>/<scenario>/<repeat>-<step>.log: the stage is the same for all.
LogPath == <<Directory[Current.name], repeat, Directory[CurrentStep.name]>>

Runner == INSTANCE CallAnswers

Reading == [pass |-> "PASS", fail |-> "FAIL", error |-> "ERROR", canceled |-> "INCOMPLETE"]

\* What runStep makes of an answer of the runner: an error has no exit code.
CommandFinds ==
  {Found(Reading[a.reading], a.launched /\ a.reading # "error", a.launched, LogPath) :
     a \in Runner!Expected("command" \in faults, "launch" \in faults, canceled)}

\* operationalStep: a target that does not run, or a log that cannot be
\* written, which makes the step an error whatever the command did.
StepFinds ==
  IF ~ Resolves(CurrentStep.target) THEN {Found("ERROR", FALSE, FALSE, NoLog)}
  ELSE CommandFinds
         \union {Found("ERROR", FALSE, f.launched, NoLog) :
                   f \in {g \in CommandFinds : "artifacts" \in faults}}

WriteLog(found) ==
  files' = IF found.log = NoLog THEN files
           ELSE [path \in DOMAIN files \union {found.log} |->
                   IF path = found.log THEN Len(results) + 1 ELSE files[path]]

\* Mutant of Advance: the last step of a repeat is followed by the return.
AdvanceOnce ==
  \/ /\ step < Len(Current.steps)
     /\ step' = step + 1 /\ pc' = "step" /\ UNCHANGED <<at, repeat, returned>>
  \/ step = Len(Current.steps) /\ Return("PASS")

\* Mutant of Advance: the step after the last one is looked for.
AdvancePast ==
  \/ /\ step <= Len(Current.steps)
     /\ step' = step + 1 /\ pc' = "step" /\ UNCHANGED <<at, repeat, returned>>
  \/ step > Len(Current.steps) /\ Return("PASS")

\* The loops go on after a step that passed, or the scenario is complete.
Advance ==
  \/ /\ step < Len(Current.steps)
     /\ step' = step + 1 /\ pc' = "step" /\ UNCHANGED <<at, repeat, returned>>
  \/ /\ step = Len(Current.steps) /\ repeat < Current.repeat
     /\ repeat' = repeat + 1 /\ step' = 1 /\ pc' = "step"
     /\ UNCHANGED <<at, returned>>
  \/ /\ step = Len(Current.steps) /\ repeat = Current.repeat
     /\ Return("PASS")

\* runStep and what RunScenario makes of its result.
RunStep ==
  /\ pc = "command"
  /\ \E found \in StepFinds :
       /\ Record(found) /\ Emits /\ WriteLog(found)
       /\ \/ found.outcome = "PASS" /\ Advance
          \/ found.outcome # "PASS" /\ Return(found.outcome)
  /\ UNCHANGED <<faults, config, stage, plan, canceled>>

\* runScenarioStage between two scenarios: it goes on unless the shared
\* services, a component or an interruption end the stage.
NextScenario ==
  /\ pc = "between"
  /\ \/ ~ canceled /\ pc' = "scenario"
     \/ pc' = "done"
  /\ UNCHANGED <<faults, config, stage, plan, loop, canceled, scenario, returned, output>>

Signal ==
  /\ "signal" \in faults /\ ~ canceled /\ pc \in {"scenario", "step", "command", "between"}
  /\ canceled' = TRUE
  /\ UNCHANGED <<faults, config, pc, stage, plan, loop, scenario, returned, output>>

Terminated == pc \in {"rejected", "done"} /\ UNCHANGED vars

Program == Parse \/ BeginScenario \/ BeginStep \/ RunStep \/ NextScenario

Next == Program \/ Signal \/ Terminated

Spec == Init /\ [][Next]_vars

-----------------------------------------------------------------------------
\* reporting.groupScenarios and junitFromOutcome.  A test case per stage and
\* scenario name, with the outcome of its first step that did not pass.

\* Mutant of CaseOutcome: only a failed step counts against its scenario.
CaseOutcomeIfFailed(name) ==
  IF \E i \in DOMAIN results : results[i].name = name /\ results[i].outcome = "FAIL"
  THEN "FAIL" ELSE "PASS"

CaseOutcome(name) ==
  LET bad == {i \in DOMAIN results :
                results[i].name = name /\ results[i].outcome # "PASS"}
  IN  IF bad = {} THEN "PASS"
      ELSE results[CHOOSE i \in bad : \A j \in bad : i <= j].outcome

Cases == {results[i].name : i \in DOMAIN results}

-----------------------------------------------------------------------------
\* Properties.

\* Every variable holds a value the code could have stored in it.
TypeOK ==
  /\ faults \in FaultSets /\ config \in Config /\ plan \in Seq(Scenario) /\ stage \in Stages \union {"none"}
  /\ pc \in {"parse", "rejected", "scenario", "step", "command", "between", "done"}
  /\ at \in Nat /\ repeat \in Nat /\ step \in Nat
  /\ pc \in {"step", "command"} =>
       at \in DOMAIN plan /\ repeat \in 1 .. Current.repeat /\ step \in DOMAIN Current.steps
  /\ canceled \in BOOLEAN /\ began \in BOOLEAN /\ lost \in BOOLEAN
  /\ returned \in Seq([outcome : Outcomes, began : BOOLEAN, lost : BOOLEAN])
  /\ DOMAIN files \subseteq Names \X Nat \X Names

\* An accepted configuration keeps what the lifecycle is built on: there is
\* something to run in every stage, and mutating candidate traffic among it.
WorkloadGuaranteed ==
  pc \notin {"parse", "rejected"} =>
    /\ \A s \in Stages : StageScenarios(config, s) # <<>>
    /\ \E i \in DOMAIN StageScenarios(config, "CANDIDATE_TRAFFIC") :
         StageScenarios(config, "CANDIDATE_TRAFFIC")[i].mutates

\* The releases a stage gives evidence about.
Judged == IF stage = "COEXISTENCE" THEN Roles
          ELSE IF stage \in {"CANDIDATE_CONTROL", "CANDIDATE_TRAFFIC"} THEN {"candidate"}
          ELSE {"base"}

\* Whatever list a step was written for and whatever stage reuses it, the
\* component it targets runs in that stage, is addressable and is of a release
\* the stage judges: an accepted configuration never turns into an operational
\* error of the run, and a control never tests the other release.
TargetsRun ==
  pc \in {"step", "command"} =>
    /\ Resolves(CurrentStep.target)
    /\ CurrentStep.target # NoTarget => CurrentStep.target[1] \in Judged

\* A scenario passes on the evidence of every repeat of every step, each one
\* run once and passed; one that does not pass ran nothing after the step
\* that decided it.
PassRanEverything ==
  \A n \in DOMAIN returned :
    LET own == {i \in DOMAIN results : results[i].at = n}
    IN  /\ returned[n].outcome = "PASS" =>
             /\ {<<results[i].repeat, results[i].step>> : i \in own}
                  = (1 .. plan[n].repeat) \X DOMAIN plan[n].steps
             /\ \A i, j \in own :
                  results[i].repeat = results[j].repeat /\ results[i].step = results[j].step
                    => i = j
        /\ \A i \in own : results[i].outcome # "PASS" =>
             /\ \A j \in own : j <= i
             /\ returned[n].outcome = results[i].outcome

\* The mutation evidence is sound: a scenario that counts as begun started a
\* command.
BeganIsSound ==
  \A n \in DOMAIN returned : returned[n].began =>
    \E i \in DOMAIN results : results[i].at = n /\ results[i].launched

\* What a scenario answers with is what was run: it passes on every step, stops
\* where it was decided, and has begun only with a command.
EvidenceIsRun == PassRanEverything /\ BeganIsSound

RoleOf(result) == plan[result.at].steps[result.step].target[1]

\* A coexistence stage that passed has shown data crossing in both directions:
\* one scenario reached the base and then the candidate, and one the candidate
\* and then the base.
BothDirections ==
  /\ stage = "COEXISTENCE" /\ Len(returned) = Len(plan)
  /\ \A n \in DOMAIN returned : returned[n].outcome = "PASS"
  => \A first, second \in Roles : first # second =>
       \E i, j \in DOMAIN results :
         /\ i < j /\ results[i].at = results[j].at
         /\ RoleOf(results[i]) = first /\ RoleOf(results[j]) = second

\* No two names of the stage come to the same file name.
FilesDiffer ==
  /\ \A m, n \in DOMAIN plan :
       Directory[plan[m].name] = Directory[plan[n].name] => m = n
  /\ \A n \in DOMAIN plan : \A i, j \in DOMAIN plan[n].steps :
       Directory[plan[n].steps[i].name] = Directory[plan[n].steps[j].name] => i = j

LogsAreTheirs ==
  \A i \in DOMAIN results : results[i].log # NoLog => files[results[i].log] = i

\* Where file names differ, the log a step result names still holds the output
\* of that step at the end of the stage, over all repeats.
LogsKept == FilesDiffer => LogsAreTheirs

\* Where scenario names differ, the test case of a scenario that was not
\* interrupted has its outcome.
CasesAgree ==
  (\A m, n \in DOMAIN plan : plan[m].name = plan[n].name => m = n) =>
    \A n \in DOMAIN returned : returned[n].outcome # "INCOMPLETE" =>
      /\ plan[n].name \in Cases
      /\ CaseOutcome(plan[n].name) = returned[n].outcome

\* Scenarios and steps that the configuration tells apart are told apart in what
\* is left of the stage, in its logs and in its test cases.
RecordsKept == LogsKept /\ CasesAgree

\* The lifecycle may count on what the module StageContract says.
Contract == INSTANCE StageContract

Promise == Contract!Spec
=============================================================================
