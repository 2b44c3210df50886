------------------------- MODULE LifecycleInvariant -------------------------
(***************************************************************************)
(* The inductive invariants behind the safety properties of LifecycleProps:*)
(* which points a lifecycle state has, which containers Docker knows and   *)
(* which evidence is established at each of them, and what the record of   *)
(* the run and its exit code owe to that evidence.                         *)
(***************************************************************************)
EXTENDS LifecycleParts

\* The points of a scenario stage.
Loop == {"begin", "stageHealth", "run", "inspect", "probe", "ended"}

CheckBase == {"sharedHealth", "baseInspect", "baseProbe"}

\* The lifecycle state a point of the program belongs to.
Reach ==
  /\ pc \in {"session", "prepare"} => machine = "PREFLIGHT"
  /\ pc = "build" => machine = "BUILD"
  /\ pc = "shared" => machine = "SHARED_ENVIRONMENT"
  /\ pc \in {"hooks", "hook"} =>
       machine \in {"BOOTSTRAP", "TRANSITION", "CANDIDATE_ONLY", "ROLLBACK"}
  /\ pc \in {"start", "ready"} =>
       machine \in {"BASE_STARTUP", "CANDIDATE_STARTUP", "ROLLBACK"}
  /\ pc \in Loop => machine \in {"BASELINE", "BASE_AFTER_TRANSITION_CONTROL",
                                 "CANDIDATE_CONTROL", "BASE_WITH_CANDIDATE_CONTROL",
                                 "COEXISTENCE", "CANDIDATE_TRAFFIC", "ROLLBACK"}
  /\ pc \in CheckBase => machine \in BaseControls
  /\ pc \in {"coexist", "stopBase"} => machine = "COEXISTENCE"
  /\ pc \in {"healthInspect", "healthProbe"} => machine = "CANDIDATE_ONLY"
  /\ pc = "skipTraffic" => machine = "CANDIDATE_TRAFFIC"
  /\ pc = "stopCandidate" => machine = "ROLLBACK"
  /\ pc = "report" => machine \notin {"REPORTING", "CLEANUP", "COMPLETE"}
  /\ pc = "clean" => machine = "REPORTING"
  /\ pc = "publish" => machine = "CLEANUP"
  /\ pc \in {"verify", "exited"} => machine \in {"PREFLIGHT", "CLEANUP", "COMPLETE"}

-----------------------------------------------------------------------------
\* The states after a phase, in which what the phase established still holds.
Cutover == {"CANDIDATE_ONLY", "CANDIDATE_TRAFFIC", "ROLLBACK"}
AfterCandidateControl ==
  {"BASE_WITH_CANDIDATE_CONTROL", "COEXISTENCE"} \union Cutover
AfterCandidateStartup == {"CANDIDATE_CONTROL"} \union AfterCandidateControl
AfterTransition ==
  {"BASE_AFTER_TRANSITION_CONTROL", "CANDIDATE_STARTUP"} \union AfterCandidateStartup
AfterBaseline == {"TRANSITION"} \union AfterTransition
Closing == {"REPORTING", "CLEANUP", "COMPLETE"}

\* A phase is entered only after what attributes its failures.
Attributable ==
  /\ machine \in AfterBaseline => "BaselinePassed" \in established
  /\ machine \in AfterTransition => "TransitionPassed" \in established
  /\ machine \in AfterCandidateStartup => "CandidateStarted" \in established
  /\ machine \in AfterCandidateControl => "CandidateControlPassed" \in established
  /\ machine = "COEXISTENCE" /\ pc \in Loop =>
       {"BaseAfterTransitionPassed", "BaseWithCandidatePassed"} \subseteq established

\* The containers Docker knows while execute runs.
Expected ==
  CASE machine \in {"PREFLIGHT", "BUILD", "SHARED_ENVIRONMENT", "BOOTSTRAP"} -> {}
    [] machine = "BASE_STARTUP" -> IF pc = "start" THEN {} ELSE {"base"}
    [] machine \in {"BASELINE", "TRANSITION", "BASE_AFTER_TRANSITION_CONTROL"} ->
         {"base"}
    [] machine = "CANDIDATE_STARTUP" ->
         IF pc = "start" THEN {"base"} ELSE {"base", "candidate"}
    [] machine \in {"CANDIDATE_CONTROL", "BASE_WITH_CANDIDATE_CONTROL", "COEXISTENCE"} ->
         {"base", "candidate"}
    [] machine \in {"CANDIDATE_ONLY", "CANDIDATE_TRAFFIC"} -> {"candidate"}
    [] machine = "ROLLBACK" ->
         IF pc = "stopCandidate" THEN {"candidate"}
         ELSE IF pc \in {"hooks", "hook", "start"} THEN {}
         ELSE {"fresh"}
    [] OTHER -> {}

\* The points at which the execution refers to the original base and to the
\* candidate.
BaseAssigned ==
  \/ machine \in {"BASELINE", "TRANSITION", "CANDIDATE_STARTUP", "CANDIDATE_CONTROL",
                  "COEXISTENCE"} \union BaseControls
  \/ machine = "BASE_STARTUP" /\ pc = "ready"

CandidateAssigned ==
  \/ machine \in {"CANDIDATE_CONTROL", "BASE_WITH_CANDIDATE_CONTROL", "COEXISTENCE",
                  "CANDIDATE_ONLY", "CANDIDATE_TRAFFIC"}
  \/ machine = "CANDIDATE_STARTUP" /\ pc = "ready"
  \/ pc = "stopCandidate"

\* The containers are what the stage needs, and the execution refers to them.
Present ==
  pc \in ExecutePoints \union {"session", "prepare"} =>
    /\ exists = Expected
    /\ BaseAssigned => base = "base"
    /\ CandidateAssigned => candidate = "candidate"

\* No verdict fails before its phase, and none fails once it has passed.
Timely ==
  /\ machine \notin AfterTransition \union Closing => failures["mixed"] = {}
  /\ machine \notin {"ROLLBACK"} \union Closing \/ pc = "stopCandidate" =>
       failures["rollback"] = {}
  /\ "CoexistenceCompleted" \in established =>
       \/ machine = "COEXISTENCE" /\ pc \in {"stopBase", "report"}
       \/ machine \in Cutover \union Closing
  /\ "RollbackChecksCompleted" \in established =>
       \/ machine = "ROLLBACK" /\ pc = "report"
       \/ machine \in Closing

SomeFailure == \E v \in VerdictNames : failures[v] # {}

\* A failed verdict has decided the exit code once there is one.
Decided ==
  /\ pc = "verify" /\ SomeFailure => code = 10
  /\ pc = "exited" /\ SomeFailure => exit = 10

\* There is no exit code before the end, and the summary's is that of the evidence
\* unless there never was a session.
Coded ==
  /\ pc # "exited" => exit = NoExit
  /\ pc = "session" => code = 0
  /\ pc = "verify" => \/ code = ExitCode(established, failures, errors)
                      \/ code = 0 /\ runErr /\ ~ SomeFailure

\* The states in which the mixed verdict is settled.
Late == {"ROLLBACK"} \union Closing

\* How far a run has come that has evidence of a base beside the candidate, and
\* how one that found the base lost keeps away from it: through the mixed states
\* it knows the base is not usable, or that the candidate control has failed.
LeftAlone ==
  /\ EvidenceBeside # {} =>
       \/ machine \in {"COEXISTENCE"} \union Cutover \union Closing
       \/ machine = "BASE_WITH_CANDIDATE_CONTROL" /\ pc \in Loop \union {"report"}
  /\ BaseLost =>
       /\ machine \in {"CANDIDATE_STARTUP"} \union AfterCandidateStartup \union Closing
       /\ machine \in {"CANDIDATE_STARTUP", "BASE_WITH_CANDIDATE_CONTROL", "COEXISTENCE"} =>
            ~ baseUsable /\ pc \notin Loop
       /\ machine = "CANDIDATE_CONTROL" /\ pc \in Loop => ~ baseUsable \/ ~ Passed
       /\ EvidenceBeside = {}

\* The inductive invariant of the proofs: with it the run is always where its
\* recorded evidence and the containers of Docker say it is.
Inv ==
  /\ TypeOK /\ Reach /\ Attributable /\ Present /\ Timely /\ FailAttributed /\ Decided
-----------------------------------------------------------------------------
(***************************************************************************)
(* What the record of a run and the reasons of its verdicts owe to the     *)
(* evidence, for the properties Inv says nothing of.                       *)
(***************************************************************************)

\* A stage that did not pass knows why, and no mark outlives its stage.
Scored ==
  pc \in ExecutePoints \union {"session", "prepare"} =>
    /\ pc \notin Loop => marks = {}
    /\ "failed" \in marks => marks \intersect {"project", "operational", "incomplete"} # {}
    /\ marks \intersect {"project", "incomplete"} # {} => "failed" \in marks
    /\ "incomplete" \in marks => canceled
    /\ "operational" \in marks => "operational" \in errors
    /\ "project" \in marks => \A v \in Classification(machine) : failures[v] # {}

\* A verdict has a reason not to pass, or else the given part of its chain.
Explained(v) == failures[v] # {} \/ uncertainty[v] # {}
Open(v, flags) == Explained(v) \/ flags \subseteq established

\* The states in which the base has been checked after the transition.
BaseChecked == {"CANDIDATE_STARTUP", "CANDIDATE_CONTROL", "BASE_WITH_CANDIDATE_CONTROL",
                "COEXISTENCE"}

\* A base that is not usable has failed.
UsableOK ==
  /\ machine = "BASE_AFTER_TRANSITION_CONTROL" /\ pc \in Loop => baseUsable
  /\ machine \in BaseChecked => baseUsable \/ failures["mixed"] # {}

\* What the points of the run say of the mixed verdict and of the rollback.
OpenMixed ==
  /\ machine \in BaseChecked \union Cutover => Open("mixed", {"BaseAfterTransitionPassed"})
  /\ machine \in {"COEXISTENCE"} \union Cutover => Open("mixed", {"BaseWithCandidatePassed"})
  /\ pc = "stopBase" \/ machine \in Cutover => Open("mixed", {"CoexistenceCompleted"})

OpenRollback ==
  /\ pc = "skipTraffic" => Explained("rollback")
  /\ machine = "CANDIDATE_TRAFFIC" /\ pc \in Loop => Open("rollback", {"CandidateOnlyCompleted"})
  /\ machine = "ROLLBACK" =>
       Open("rollback", {"CandidateOnlyCompleted", "CandidateTrafficCompleted", "CandidateMutationRan"})
  /\ machine = "ROLLBACK" /\ pc \in {"start", "ready"} \union Loop =>
       Open("rollback", {"RollbackHooksCompleted"})
  /\ machine = "ROLLBACK" /\ pc \in Loop => Open("rollback", {"FreshBaseStarted"})

\* A run no error or interruption will explain leaves no verdict without its
\* chain or a reason.
Answerable ==
  /\ pc \in ExecutePoints /\ ~ canceled /\ ~ runErr => OpenMixed /\ OpenRollback
  /\ pc = "report" /\ ~ canceled /\ ~ runErr => \A v \in VerdictNames : Open(v, Chain(v))
  /\ pc \in {"clean", "publish"} => \A v \in VerdictNames : Open(v, Chain(v))

\* The stages a run has behind it in a lifecycle state.
Opening == {"BUILD", "SHARED_ENVIRONMENT", "BOOTSTRAP", "BASE_STARTUP"}
Behind ==
  CASE machine = "PREFLIGHT" -> {}
    [] machine = "BUILD" -> {}
    [] machine = "SHARED_ENVIRONMENT" -> {"BUILD"}
    [] machine = "BOOTSTRAP" -> {"BUILD", "SHARED_ENVIRONMENT"}
    [] machine = "BASE_STARTUP" -> {"BUILD", "SHARED_ENVIRONMENT", "BOOTSTRAP"}
    [] OTHER -> IF machine \in Closing THEN {} ELSE Opening

\* Every flag was established when its stage passed, and the run is past it.
CreditedMixed ==
  /\ "BaselinePassed" \in established =>
       /\ machine \in AfterBaseline \union Closing
       /\ \A s \in Opening \union {"BASELINE"} : stages[s] = "PASS"
  /\ "TransitionPassed" \in established =>
       machine \in AfterTransition \union Closing /\ stages["TRANSITION"] = "PASS"
  /\ "BaseAfterTransitionPassed" \in established =>
       /\ machine \in (AfterTransition \ {"BASE_AFTER_TRANSITION_CONTROL"}) \union Closing
       /\ stages["BASE_AFTER_TRANSITION_CONTROL"] = "PASS"
       /\ controls["BASE_AFTER_TRANSITION_CONTROL"] = "PASS"
  /\ "CandidateStarted" \in established =>
       machine \in AfterCandidateStartup \union Closing /\ stages["CANDIDATE_STARTUP"] = "PASS"
  /\ "CandidateControlPassed" \in established =>
       /\ machine \in AfterCandidateControl \union Closing
       /\ stages["CANDIDATE_CONTROL"] = "PASS" /\ controls["CANDIDATE_CONTROL"] = "PASS"
  /\ "BaseWithCandidatePassed" \in established =>
       /\ machine \in {"COEXISTENCE"} \union Cutover \union Closing
       /\ stages["BASE_WITH_CANDIDATE_CONTROL"] = "PASS"
       /\ controls["BASE_WITH_CANDIDATE_CONTROL"] = "PASS"
  /\ "CoexistenceCompleted" \in established => stages["COEXISTENCE"] = "PASS"

CreditedRollback ==
  /\ pc \in {"healthInspect", "healthProbe"} \/ (machine = "CANDIDATE_TRAFFIC" /\ pc \in Loop) =>
       stages["CANDIDATE_ONLY"] = "PASS"
  /\ "CandidateTrafficCompleted" \in established =>
       /\ machine \in {"ROLLBACK"} \union Closing
       /\ stages["CANDIDATE_ONLY"] = "PASS" /\ stages["CANDIDATE_TRAFFIC"] = "PASS"
  /\ machine = "ROLLBACK" /\ pc \in {"start", "ready"} \union Loop =>
       stages["ROLLBACK_HOOKS"] = "PASS" \/ failures["rollback"] # {}
  /\ machine = "ROLLBACK" /\ pc \in Loop => stages["BASE_RESTART"] = "PASS"
  /\ "RollbackChecksCompleted" \in established =>
       /\ stages["ROLLBACK_HOOKS"] = "PASS" \/ failures["rollback"] # {}
       /\ stages["BASE_RESTART"] = "PASS" /\ stages["ROLLBACK"] = "PASS"

Credited ==
  errors = {} =>
    /\ pc \in ExecutePoints => \A s \in Behind : stages[s] = "PASS"
    /\ CreditedMixed /\ CreditedRollback

\* What cleanup says is so.
Swept ==
  /\ cleanup # "none" => pc \in {"publish", "verify", "exited"}
  /\ cleanup = "SKIPPED" => ExitCode(established, failures, errors) # 0
  /\ cleanup = "ERROR" => "cleanup" \in errors
  /\ cleanup = "PASS" => exists = {} /\ shared = "absent" /\ ~ stray
  /\ pc = "publish" => cleanup # "none"

\* An exit code of 0 beside no error stands for everything.
Everything ==
  /\ \A v \in VerdictNames : failures[v] = {} /\ Chain(v) \subseteq established
  /\ errors = {} /\ machine = "COMPLETE" /\ cleanup # "none"

Paid ==
  /\ pc = "verify" /\ code = 0 /\ ~ runErr => Everything
  /\ pc = "exited" /\ exit = 0 => Everything /\ ~ runErr
  /\ exit = 0 => pc = "exited"

\* What the record shows of a failed verdict.
Shown(v) ==
  IF v = "mixed"
  THEN \/ \E c \in BaseControls : controls[c] = "FAIL"
       \/ stages["COEXISTENCE"] = "FAIL"
       \/ stages["CANDIDATE_CONTROL"] = "FAIL" /\ "BASE_LOST_READINESS" \in failures["mixed"]
  ELSE \E s \in {"ROLLBACK_HOOKS", "BASE_RESTART", "ROLLBACK"} : stages[s] = "FAIL"

\* The end of the current stage will show it.
ToShow(v) ==
  /\ pc \in Loop /\ "project" \in marks
  /\ \/ v \in Classification(machine)
     \/ v = "mixed" /\ machine = "CANDIDATE_CONTROL" /\ "BASE_LOST_READINESS" \in failures["mixed"]

\* What is shown has failed, what has failed is shown, and no later record
\* takes the place of the one that shows it.
Visible ==
  /\ \A v \in VerdictNames : Shown(v) => failures[v] # {}
  /\ ~ canceled /\ "internal" \notin errors =>
       \A v \in VerdictNames : failures[v] # {} => Shown(v) \/ ToShow(v)
  /\ pc \in ExecutePoints \union {"session", "prepare"} =>
       /\ controls["BASE_AFTER_TRANSITION_CONTROL"] = "FAIL" =>
            machine \in BaseChecked \union Cutover
       /\ controls["BASE_WITH_CANDIDATE_CONTROL"] = "FAIL" =>
            machine \in {"COEXISTENCE"} \union Cutover
       /\ stages["COEXISTENCE"] = "FAIL" => pc = "stopBase" \/ machine \in Cutover
       /\ stages["CANDIDATE_CONTROL"] # "FAIL"
       /\ stages["BASE_RESTART"] # "FAIL" /\ stages["ROLLBACK"] # "FAIL"
  /\ machine = "ROLLBACK" /\ pc \in {"hooks", "hook"} => failures["rollback"] = {}

\* The inductive invariant with what the record owes to the evidence.
FullInv ==
  /\ Inv /\ Scored /\ UsableOK /\ Answerable /\ Credited /\ Swept /\ Paid /\ Visible
-----------------------------------------------------------------------------
\* The loops stay within the configured hooks and scenarios, and start from the
\* first of them.
Counted ==
  /\ pc = "hooks" => next \in 1 .. Hooks[machine] + 1
  /\ pc = "hook" => next \in 1 .. Hooks[machine]
  /\ pc = "begin" => next \in 1 .. Workload[machine] + 1
  /\ pc \in {"stageHealth", "run", "inspect", "probe"} => next \in 1 .. Workload[machine]
  /\ pc \in (ExecutePoints \ (Loop \union {"hooks", "hook"})) \union {"session", "prepare"} =>
       next = 1

\* Only a run that got no artifact session exits without a decision on cleanup.
CleanupDecided ==
  pc \in {"verify", "exited"} => cleanup # "none" \/ machine = "PREFLIGHT"

\* The execution refers to no container Docker does not know.
Referred == pc \in ExecutePoints \union {"session", "prepare"} => allInstances \subseteq exists

\* From its restart on the base is the fresh one.
Restarted == machine = "ROLLBACK" /\ pc \in {"ready"} \union Loop => base = "fresh"
=============================================================================
