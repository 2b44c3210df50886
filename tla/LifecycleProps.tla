--------------------------- MODULE LifecycleProps ---------------------------
(***************************************************************************)
(* What a verification run promises: the properties of Lifecycle.          *)
(***************************************************************************)
EXTENDS Lifecycle

\* Every variable holds a value the code could have stored in it.
PlaceOK ==
  /\ machine \in States /\ pc \in Points
  /\ base \in {"none", "base", "fresh"} /\ candidate \in {"none", "candidate"}
  /\ baseUsable \in BOOLEAN
  /\ next \in Nat /\ marks \subseteq Marks

WorldOK ==
  /\ canceled \in BOOLEAN /\ shared \in {"absent", "healthy", "lost"}
  /\ exists \subseteq Instances /\ alive \subseteq exists /\ stray \in BOOLEAN

EvidenceOK ==
  /\ established \subseteq Flags
  /\ failures \in [VerdictNames -> SUBSET Reason]
  /\ uncertainty \in [VerdictNames -> SUBSET Reason]
  /\ errors \subseteq ErrorKinds

RecordOK ==
  /\ stages \in [ExpectedStages -> Outcomes \union {"none"}]
  /\ controls \in [ControlStages -> Outcomes]

FinalOK ==
  /\ runErr \in BOOLEAN
  /\ cleanup \in {"none", "PASS", "ERROR", "SKIPPED"}
  /\ code \in ExitCodes /\ exit \in ExitCodes \union {NoExit}

TypeOK == PlaceOK /\ WorldOK /\ EvidenceOK /\ RecordOK /\ FinalOK

-----------------------------------------------------------------------------
\* The containers that may exist while a command of the project runs.
Deployed ==
  CASE machine = "BASELINE"                      -> {"base"}
    [] machine = "TRANSITION"                    -> {"base"}
    [] machine = "BASE_AFTER_TRANSITION_CONTROL" -> {"base"}
    [] machine = "CANDIDATE_CONTROL"             -> {"base", "candidate"}
    [] machine = "BASE_WITH_CANDIDATE_CONTROL"   -> {"base", "candidate"}
    [] machine = "COEXISTENCE"                   -> {"base", "candidate"}
    [] machine = "CANDIDATE_ONLY"                -> {"candidate"}
    [] machine = "CANDIDATE_TRAFFIC"             -> {"candidate"}
    [] machine = "ROLLBACK" /\ pc = "run"        -> {"fresh"}
    [] OTHER                                     -> {}

\* Every hook and scenario runs against exactly the deployment its stage is
\* about: the original base alone, both releases, the candidate alone, and in
\* the end a base started after the candidate was removed.  A container a
\* failed stop or start left behind never shares a stage with a command.
Isolation == pc \in {"run", "hook"} => exists = Deployed

\* The phases before which no direct failure may be recorded.
BaseControls == {"BASE_AFTER_TRANSITION_CONTROL", "BASE_WITH_CANDIDATE_CONTROL"}

\* A failure is recorded after what makes it attributable: of the mixed verdict
\* after the baseline and the transition, of coexistence after all three
\* controls, of rollback after the candidate passed its control and both it and
\* the original base were removed.
FailAttributed ==
  /\ failures["mixed"] # {} =>
       {"BaselinePassed", "TransitionPassed"} \subseteq established
  /\ failures["mixed"] \intersect {"BASE_WITH_CANDIDATE_CONTROL_FAILED",
                                   "COEXISTENCE_SCENARIO_FAILED"} # {} =>
       {"CandidateStarted", "CandidateControlPassed"} \subseteq established
  /\ "COEXISTENCE_SCENARIO_FAILED" \in failures["mixed"] =>
       {"BaseAfterTransitionPassed", "BaseWithCandidatePassed"} \subseteq established
  /\ failures["rollback"] # {} =>
       /\ {"CandidateStarted", "CandidateControlPassed"} \subseteq established
       /\ exists \intersect {"base", "candidate"} = {}

\* What only a base that is ready beside the candidate gives evidence of.
EvidenceBeside ==
  (failures["mixed"] \union established) \intersect
    {"BASE_WITH_CANDIDATE_CONTROL_FAILED", "COEXISTENCE_SCENARIO_FAILED",
     "BaseWithCandidatePassed", "CoexistenceCompleted"}

BaseLost == "BASE_LOST_READINESS" \in failures["mixed"]

\* A verdict fails only on evidence gathered after what makes it attributable,
\* and an original base once found lost stays lost: what it would answer to a
\* later check is no evidence any more, neither for the release nor against it.
FailGrounded == FailAttributed /\ (BaseLost => EvidenceBeside = {})

\* No verdict is inconclusive for a reason nobody recorded: the
\* ORCHESTRATION_ERROR that Classify falls back to is never its own invention.
DoubtExplained ==
  pc \in {"clean", "publish"} =>
    \A v \in VerdictNames :
      Status(v, established, failures) = "INCONCLUSIVE" => uncertainty[v] # {}

\* The run as its caller sees it: the verdicts its evidence has come to, and how
\* the command ended.
Contract ==
  INSTANCE VerdictContract WITH
    mixed    <- Status("mixed", established, failures),
    rollback <- Status("rollback", established, failures)

\* Evidence only accumulates towards a decision: a verdict that has passed or
\* failed is not revised by anything the rest of the run meets, nothing that
\* happens after the cutover decides the mixed verdict, and the exit code is that
\* of the verdicts as they were when the command ended.
VerdictsFinal == Contract!Spec

\* Exit code 0 is earned twice: by the evidence, and independently by the
\* record the reader sees, where every stage and control passed, no error is
\* listed and nothing of the run is left behind.
PassIsEarned ==
  exit = 0 =>
    /\ \A v \in VerdictNames : Status(v, established, failures) = "PASS"
    /\ \A s \in ExpectedStages : stages[s] = "PASS"
    /\ \A c \in ControlStages : controls[c] = "PASS"
    /\ errors = {} /\ ~ runErr
    /\ cleanup = "PASS" /\ exists = {} /\ ~ stray /\ shared = "absent"
    /\ machine = "COMPLETE"

\* A direct failure decides the exit code whatever goes wrong after it:
\* interruption, panic, cleanup or artifact errors.
FailureWins ==
  pc = "exited" /\ (\E v \in VerdictNames : failures[v] # {}) => exit = 10

\* The report of a run that was neither interrupted nor cut short by a panic
\* shows each failed verdict as a failed stage or control, and each failed base control, coexistence stage
\* or rollback stage as a failed verdict.
FailureVisible ==
  pc \in {"clean", "publish"} /\ ~ canceled /\ "internal" \notin errors =>
    /\ failures["mixed"] # {} <=>
         \/ \E c \in BaseControls : controls[c] = "FAIL"
         \/ stages["COEXISTENCE"] = "FAIL"
         \/ stages["CANDIDATE_CONTROL"] = "FAIL"
              /\ "BASE_LOST_READINESS" \in failures["mixed"]
    /\ failures["rollback"] # {} <=>
         \E s \in {"ROLLBACK_HOOKS", "BASE_RESTART", "ROLLBACK"} : stages[s] = "FAIL"

\* After an interruption no command and no container is started; what runs
\* already may finish.
InterruptStopsLaunches ==
  [][canceled => /\ pc' \in {"run", "hook"} => pc' = pc
                 /\ alive' \subseteq alive]_vars

\* Every run that got its artifact session reaches a cleanup decision and
\* exits, interrupted or not.
AlwaysCleansUp == pc = "prepare" ~> (pc = "exited" /\ cleanup # "none")

-----------------------------------------------------------------------------
\* How far a run has come.

\* The lifecycle states in the order StateMachine.Advance allows.
StateOrder(state) ==
  CASE state = "PREFLIGHT"                     -> 0
    [] state = "BUILD"                         -> 1
    [] state = "SHARED_ENVIRONMENT"            -> 2
    [] state = "BOOTSTRAP"                     -> 3
    [] state = "BASE_STARTUP"                  -> 4
    [] state = "BASELINE"                      -> 5
    [] state = "TRANSITION"                    -> 6
    [] state = "BASE_AFTER_TRANSITION_CONTROL" -> 7
    [] state = "CANDIDATE_STARTUP"             -> 8
    [] state = "CANDIDATE_CONTROL"             -> 9
    [] state = "BASE_WITH_CANDIDATE_CONTROL"   -> 10
    [] state = "COEXISTENCE"                   -> 11
    [] state = "CANDIDATE_ONLY"                -> 12
    [] state = "CANDIDATE_TRAFFIC"             -> 13
    [] state = "ROLLBACK"                      -> 14
    [] state = "REPORTING"                     -> 15
    [] state = "CLEANUP"                       -> 16
    [] state = "COMPLETE"                      -> 17

\* The order in which a lifecycle state passes those of the points it has; the
\* points of a loop over hooks or scenarios share their place in it.
Section(point) ==
  CASE point \in {"session", "build", "shared", "stopCandidate"}     -> 0
    [] point \in {"prepare", "hooks", "hook"}                        -> 1
    [] point \in {"sharedHealth", "healthInspect", "coexist", "start"} -> 2
    [] point \in {"baseInspect", "healthProbe", "ready"}             -> 3
    [] point = "baseProbe"                                           -> 4
    [] point \in {"begin", "stageHealth", "run", "inspect", "probe"} -> 5
    [] point = "ended"                                               -> 6
    [] point \in {"stopBase", "skipTraffic"}                         -> 7
    [] point = "report"                                              -> 8
    [] point \in {"clean", "publish"}                                -> 9
    [] point = "verify"                                              -> 10
    [] point = "exited"                                              -> 11

\* The place within one round of a loop.
Turn(point) ==
  CASE point = "hook" \/ point = "stageHealth" -> 1
    [] point = "run"                           -> 2
    [] point = "inspect"                       -> 3
    [] point = "probe"                         -> 4
    [] OTHER                                   -> 0

\* The step enters a later state, or a later point of its state, or the next
\* hook or scenario, or comes closer to the end of the present one.
Further ==
  \/ StateOrder(machine') > StateOrder(machine)
  \/ machine' = machine /\ Section(pc') > Section(pc)
  \/ machine' = machine /\ Section(pc') = Section(pc) /\ next' > next
  \/ /\ machine' = machine /\ Section(pc') = Section(pc) /\ next' = next
     /\ Turn(pc') > Turn(pc)

\* The program stays where it is and what runs beside it becomes less.
Fades ==
  /\ UNCHANGED <<machine, pc, next, exists>>
  /\ canceled => canceled'
  /\ shared' # shared => shared = "healthy" /\ shared' = "lost"
  /\ alive' \subseteq alive /\ (stray' => stray)
  /\ world' # world

\* A run never goes back, not by a retry, not after a panic, not in a loop over
\* hooks or scenarios: no place is visited twice, so that with the bound of its
\* loops (Counted of LifecycleInvariant) every run has finitely many steps.
Onward == [][Further \/ Fades]_vars

-----------------------------------------------------------------------------
\* What the repository's documents say and the code does not do.

NoFailure == \A v \in VerdictNames : failures[v] = {}

\* PRD.md 24.6: an interruption leaves unfinished verdicts inconclusive.  When
\* nothing but a signal disturbed the run there is no direct failure.
InterruptionIsNotFailure == Faults \subseteq {"signal"} => NoFailure

\* PRD.md 15: rollback hooks run before fresh base components start; so no
\* hook runs beside the scenarios that follow it.
HooksAreOver == pc = "run" => ~ stray
=============================================================================
