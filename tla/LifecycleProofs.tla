-------------------------- MODULE LifecycleProofs ---------------------------
(***************************************************************************)
(* The safety of Lifecycle for every workload, every number of hooks, every*)
(* readiness type and every set of faults: the invariants Inv and FullInv  *)
(* are inductive, and the properties of LifecycleProps follow from them.   *)
(***************************************************************************)
EXTENDS LifecycleInvariant, TLAPS

\* What the runner answers of a command, read as hooks, builds and steps do.
LEMMA Readings ==
  CommandResults =
    {r \in {"fail"} : CommandFails} \union {r \in {"error"} : "docker" \in Faults}
      \union {r \in {"canceled"} : canceled} \union {"pass"}
<1> DEFINE all == {r \in {"fail"} : CommandFails} \union {r \in {"error"} : "docker" \in Faults}
                    \union {r \in {"canceled"} : canceled} \union {"pass"}
<1>1. ASSUME NEW r \in CommandResults PROVE r \in all
  BY DEF CommandResults, Runner!Expected, Runner!Answer
<1>2. ASSUME NEW r \in all PROVE r \in CommandResults
  <2>1. [reading |-> r, launched |-> TRUE] \in
          Runner!Expected(CommandFails, "docker" \in Faults, canceled)
    BY DEF Runner!Expected, Runner!Answer
  <2> QED BY <2>1 DEF CommandResults
<1> QED BY <1>1, <1>2

\* Recording a stage keeps the stage table well-formed.
LEMMA StageTyped ==
  ASSUME RecordOK, NEW name, NEW outcome \in Outcomes, Stage(name, outcome)
  PROVE  stages' \in [ExpectedStages -> Outcomes \union {"none"}]
BY DEF RecordOK, Stage

\* Recording a control keeps the control table well-formed.
LEMMA ControlTyped ==
  ASSUME RecordOK, NEW outcome \in Outcomes, Control(outcome)
  PROVE  controls' \in [ControlStages -> Outcomes]
BY DEF RecordOK, Control

\* runScenarioStage and executionOutcome produce outcomes of the model.
LEMMA OutcomesTyped == StageOutcome \in Outcomes /\ ControlOutcome \in Outcomes
BY DEF StageOutcome, ControlOutcome, Outcomes

\* So does the outcome of a hook or a build.
LEMMA OutcomeOfTyped ==
  ASSUME NEW result \in DockerCommandResults \ {"pass"} PROVE OutcomeOf(result) \in Outcomes
BY Readings DEF OutcomeOf, DockerCommandResults, Outcomes

\* Recording a failure keeps the failure lists well-formed.
LEMMA FailureTyped ==
  ASSUME EvidenceOK, NEW vs, NEW reason \in Reason, AddFailure(vs, reason)
  PROVE  failures' \in [VerdictNames -> SUBSET Reason]
BY DEF EvidenceOK, AddFailure

\* Recording an uncertainty keeps the uncertainty lists well-formed.
LEMMA UncertaintyTyped ==
  ASSUME EvidenceOK, NEW vs, NEW reasons \in SUBSET Reason, AddUncertainty(vs, reasons)
  PROVE  uncertainty' \in [VerdictNames -> SUBSET Reason]
BY DEF EvidenceOK, AddUncertainty

\* Recording operational errors keeps the error kinds well-formed.
LEMMA RecordsTyped ==
  ASSUME EvidenceOK, NEW kinds \in SUBSET ErrorKinds, Records(kinds)
  PROVE  errors' \subseteq ErrorKinds
BY DEF EvidenceOK, Records, ErrorKinds

\* Setting evidence flags keeps the evidence well-formed.
LEMMA EstablishTyped ==
  ASSUME EvidenceOK, NEW flags \in SUBSET Flags, Establish(flags)
  PROVE  established' \subseteq Flags
BY DEF EvidenceOK, Establish

\* stageReason produces a reason code for every stage.
LEMMA StageReasonTyped == ASSUME NEW m PROVE StageReason(m) \in Reason
BY DEF StageReason, Reason

\* overall produces a documented exit code for any evidence.
LEMMA ExitCodeTyped == 
  ASSUME NEW e, NEW f, NEW r PROVE ExitCode(e, f, r) \in ExitCodes
BY DEF ExitCode, ExitCodes

\* What a finished stage doubts is a reason code.
LEMMA DoubtTyped ==
  ASSUME EvidenceOK, NEW o, NEW s, Doubt(o, s)
  PROVE  uncertainty' \in [VerdictNames -> SUBSET Reason]
<1>1. \A v \in VerdictNames : uncertainty[v] \in SUBSET Reason
  BY DEF EvidenceOK
<1>2. {"INTERRUPTED", "ORCHESTRATION_ERROR"} \subseteq Reason
  BY DEF Reason
<1> QED BY <1>1, <1>2 DEF Doubt

\* An interruption replaces a reason code by a reason code.
LEMMA InterruptedTyped == ASSUME NEW reason \in Reason PROVE Interrupted(reason) \in Reason
BY DEF Interrupted, Reason

\* The reason codes hooks fail with.
LEMMA HookReasons ==
  {"BOOTSTRAP_FAILED", "TRANSITION_HOOK_FAILED", "CANDIDATE_ONLY_HOOK_FAILED",
   "ROLLBACK_HOOK_FAILED", "COMMAND_LAUNCH_FAILED", "INTERRUPTED"} \subseteq Reason
BY DEF Reason

\* A hook that did not complete keeps the evidence well-formed.
LEMMA HookFailedTyped ==
  ASSUME EvidenceOK, NEW result, HookFailed(result)
  PROVE  EvidenceOK'
<1>1. errors' \subseteq ErrorKinds
  BY RecordsTyped DEF HookFailed, ErrorKinds
<1>2. established' = established
  BY DEF HookFailed
<1>3. CASE SetupHooksFailed(result)
  <2>1. failures' = failures
    BY <1>3 DEF SetupHooksFailed
  <2>2. uncertainty' \in [VerdictNames -> SUBSET Reason]
    <3> DEFINE reason == Interrupted(IF machine = "BOOTSTRAP" THEN "BOOTSTRAP_FAILED"
                                             ELSE "TRANSITION_HOOK_FAILED")
    <3>1. reason \in Reason
      BY InterruptedTyped, HookReasons
    <3> QED BY <1>3, <3>1, UncertaintyTyped DEF SetupHooksFailed
  <2> QED BY <1>1, <1>2, <2>1, <2>2 DEF EvidenceOK
<1>4. CASE CandidateOnlyHooksFailed(result)
  <2>1. failures' = failures
    BY <1>4 DEF CandidateOnlyHooksFailed
  <2>2. uncertainty' \in [VerdictNames -> SUBSET Reason]
    BY <1>4, InterruptedTyped, HookReasons, UncertaintyTyped DEF CandidateOnlyHooksFailed
  <2> QED BY <1>1, <1>2, <2>1, <2>2 DEF EvidenceOK
<1>5. CASE RollbackHooksFailed(result)
  <2>1. failures' \in [VerdictNames -> SUBSET Reason]
    BY <1>5, HookReasons, FailureTyped DEF RollbackHooksFailed
  <2>2. uncertainty' \in [VerdictNames -> SUBSET Reason]
    BY <1>5, HookReasons, UncertaintyTyped DEF RollbackHooksFailed, EvidenceOK
  <2> QED BY <1>1, <1>2, <2>1, <2>2 DEF EvidenceOK
<1> QED BY <1>3, <1>4, <1>5 DEF HookFailed

\* So does a role that did not start.
LEMMA StartFailedTyped ==
  ASSUME EvidenceOK, NEW result, StartFailed(result)
  PROVE  EvidenceOK'
<1> DEFINE interruption == {r \in {"INTERRUPTED"} : canceled}
           against(vs, reason) ==
             uncertainty' = [v \in VerdictNames |->
                               uncertainty[v] \union interruption
                                 \union (IF v \in vs THEN {reason} ELSE {})]
<1>1. errors' \subseteq ErrorKinds
  BY RecordsTyped DEF StartFailed, ErrorKinds
<1>2. established' = established
  BY DEF StartFailed
<1>3. {"BASE_STARTUP_FAILED", "CANDIDATE_STARTUP_FAILED", "ORCHESTRATION_ERROR",
       "BASE_RESTART_FAILED", "INTERRUPTED"} \subseteq Reason
  BY DEF Reason
<1>4. failures' \in [VerdictNames -> SUBSET Reason]
  BY <1>3, FailureTyped DEF StartFailed, EvidenceOK
<1>5. ASSUME NEW vs, NEW reason, against(vs, reason), reason \in Reason \/ vs = {}
      PROVE  uncertainty' \in [VerdictNames -> SUBSET Reason]
  <2>1. \A v \in VerdictNames : uncertainty[v] \in SUBSET Reason
    BY DEF EvidenceOK
  <2> QED BY <1>3, <1>5, <2>1
<1>6. uncertainty' \in [VerdictNames -> SUBSET Reason]
  <2>1. \/ against(VerdictNames, "BASE_STARTUP_FAILED")
        \/ against(NotFailed, "CANDIDATE_STARTUP_FAILED")
        \/ against({"rollback"}, "ORCHESTRATION_ERROR")
        \/ against({}, "NONE")
    BY DEF StartFailed
  <2> HIDE DEF against
  <2> QED BY <1>3, <1>5, <2>1
<1> QED BY <1>1, <1>2, <1>4, <1>6 DEF EvidenceOK

-----------------------------------------------------------------------------
\* The actions a step can be.
LEMMA Actions ==
  ASSUME [Next]_vars
  PROVE  \/ CreateSession \/ Prepare \/ BuildImages
         \/ StartSharedEnvironment \/ LaunchHook \/ HookEnds \/ HooksPass
         \/ LaunchRole \/ AwaitReady \/ NextScenario \/ StageSharedHealth
         \/ RunScenario \/ StageInspect \/ StageProbe \/ CheckBaseShared
         \/ CheckBaseInspect \/ CheckBaseProbe \/ BaselineEnds
         \/ BaseControlEnds \/ CandidateControlEnds \/ MixedControlEnds
         \/ CoexistenceEnds \/ TrafficEnds \/ RollbackEnds
         \/ BeginCoexistence \/ StopBase \/ CandidateInspect
         \/ CandidateProbe \/ SkipTraffic \/ StopCandidate \/ Report
         \/ Clean \/ Publish \/ Verify \/ Recover \/ Signal \/ SharedLost
         \/ ComponentLost \/ StrayEnds \/ UNCHANGED vars
BY DEF Next, Program, Environment, Terminated, Startup, HookStep, RoleStep,
  ScenarioStep, BaseStep, StageEnds, CutoverStep, FinishStep

\* The step keeps the program's place and its local variables well-formed.
LEMMA PlaceStep ==
  ASSUME PlaceOK, Reach, [Next]_vars
  PROVE  PlaceOK'
<1> USE DEF PlaceOK, States, Points, ExecutePoints, Marks, Advance, Enter,
  Successor, Mark, ResetFrame
<1>1. CASE CreateSession
  BY <1>1 DEF CreateSession, refs, frame
<1>2. CASE Prepare
  BY <1>2 DEF Prepare, refs, frame
<1>3. CASE BuildImages
  BY ZenonT(30), <1>3 DEF BuildImages, refs, frame
<1>4. CASE StartSharedEnvironment
  BY <1>4 DEF StartSharedEnvironment, refs, frame
<1>5. CASE LaunchHook
  BY <1>5 DEF LaunchHook, HookFailed, RollbackHooksFailed, SetupHooksFailed,
    CandidateOnlyHooksFailed, refs, frame
<1>6. CASE HookEnds
  <2>1. CASE /\ pc' = "hooks" /\ next' = next + 1
             /\ UNCHANGED <<machine, refs, baseUsable, marks>>
    BY <2>1 DEF refs
  <2>2. ASSUME NEW result, HookFailed(result)
        PROVE  PlaceOK'
    BY <2>2 DEF HookFailed, RollbackHooksFailed, SetupHooksFailed,
      CandidateOnlyHooksFailed, refs
  <2> QED BY <1>6, <2>1, <2>2 DEF HookEnds
<1>7. CASE HooksPass
  BY <1>7 DEF HooksPass, refs
<1>8. CASE LaunchRole
  BY <1>8 DEF LaunchRole, Assign, StartFailed, frame, Reach, Starting
<1>9. CASE AwaitReady
  BY <1>9 DEF AwaitReady, StartFailed, refs, frame
<1>10. CASE NextScenario
  BY ZenonT(30), <1>10 DEF NextScenario, refs
<1>11. CASE StageSharedHealth
  BY ZenonT(30), <1>11 DEF StageSharedHealth, refs
<1>12. CASE RunScenario
  BY ZenonT(30), <1>12 DEF RunScenario, refs
<1>13. CASE StageInspect
  BY ZenonT(30), <1>13 DEF StageInspect, StageCheckFails, StageLost, refs
<1>14. CASE StageProbe
  <2>1. machine' = machine /\ base' = base /\ candidate' = candidate
        /\ baseUsable' = baseUsable
    BY <1>14 DEF StageProbe, refs
  <2>2. pc' \in Points /\ next' \in Nat
    BY <1>14 DEF StageProbe, StageCheckFails
  <2>3. marks' \subseteq Marks
    BY <1>14 DEF StageProbe, StageCheckFails, StageLost
  <2> QED BY <2>1, <2>2, <2>3
<1>15. CASE CheckBaseShared
  BY <1>15 DEF CheckBaseShared, BaseCheckError, refs, frame
<1>16. CASE CheckBaseInspect
  BY <1>16 DEF CheckBaseInspect, BaseNotUsable, BaseCheckError, refs, frame
<1>17. CASE CheckBaseProbe
  BY <1>17 DEF CheckBaseProbe, BaseUsable, BaseNotUsable, BaseCheckError,
    refs, frame
<1>18. CASE BaselineEnds
  BY <1>18 DEF BaselineEnds, refs
<1>19. CASE BaseControlEnds
  BY <1>19 DEF BaseControlEnds, refs
<1>20. CASE CandidateControlEnds
  BY <1>20 DEF CandidateControlEnds, refs
<1>21. CASE MixedControlEnds
  BY <1>21 DEF MixedControlEnds, refs
<1>22. CASE CoexistenceEnds
  BY <1>22 DEF CoexistenceEnds, refs
<1>23. CASE TrafficEnds
  BY <1>23 DEF TrafficEnds, refs
<1>24. CASE RollbackEnds
  BY <1>24 DEF RollbackEnds, refs
<1>25. CASE BeginCoexistence
  BY <1>25 DEF BeginCoexistence, refs, frame
<1>26. CASE StopBase
  BY <1>26 DEF StopBase, frame
<1>27. CASE CandidateInspect
  BY <1>27 DEF CandidateInspect, CandidateHealth, refs, frame
<1>28. CASE CandidateProbe
  BY <1>28 DEF CandidateProbe, CandidateHealth, refs, frame
<1>29. CASE SkipTraffic
  BY <1>29 DEF SkipTraffic, refs, frame
<1>30. CASE StopCandidate
  BY <1>30 DEF StopCandidate, frame
<1>31. CASE Report
  BY <1>31 DEF Report, refs, frame
<1>32. CASE Clean
  BY <1>32 DEF Clean, refs, frame
<1>33. CASE Publish
  BY <1>33 DEF Publish, refs, frame
<1>34. CASE Verify
  BY <1>34 DEF Verify, refs, frame
<1>35. CASE Recover
  BY <1>35 DEF Recover, refs, frame
<1>36. CASE Signal \/ SharedLost \/ ComponentLost \/ StrayEnds
  BY <1>36 DEF Signal, SharedLost, ComponentLost, StrayEnds, refs, frame
<1>37. CASE UNCHANGED vars
  BY <1>37 DEF vars, refs, frame
<1> QED BY Actions, <1>1, <1>2, <1>3, <1>4, <1>5, <1>6, <1>7, <1>8, <1>9,
  <1>10, <1>11, <1>12, <1>13, <1>14, <1>15, <1>16, <1>17, <1>18, <1>19, <1>20,
  <1>21, <1>22, <1>23, <1>24, <1>25, <1>26, <1>27, <1>28, <1>29, <1>30, <1>31,
  <1>32, <1>33, <1>34, <1>35, <1>36, <1>37

\* The step enters a point in a lifecycle state that has this point.
LEMMA ReachStep ==
  ASSUME PlaceOK, Reach, [Next]_vars
  PROVE  Reach'
<1> USE DEF Reach, Loop, CheckBase, BaseControls, Advance, Enter, Successor
<1>1. CASE CreateSession
  BY <1>1 DEF CreateSession
<1>2. CASE Prepare
  BY <1>2 DEF Prepare
<1>3. CASE BuildImages
  BY <1>3 DEF BuildImages
<1>4. CASE StartSharedEnvironment
  BY <1>4 DEF StartSharedEnvironment
<1>5. CASE LaunchHook
  BY <1>5 DEF LaunchHook, HookFailed, RollbackHooksFailed, SetupHooksFailed,
    CandidateOnlyHooksFailed
<1>6. CASE HookEnds
  BY <1>6 DEF HookEnds, HookFailed, RollbackHooksFailed, SetupHooksFailed,
    CandidateOnlyHooksFailed
<1>7. CASE HooksPass
  BY <1>7 DEF HooksPass
<1>8. CASE LaunchRole
  BY <1>8 DEF LaunchRole, StartFailed
<1>9. CASE AwaitReady
  BY <1>9 DEF AwaitReady, StartFailed
<1>10. CASE NextScenario
  BY <1>10 DEF NextScenario
<1>11. CASE StageSharedHealth
  BY <1>11 DEF StageSharedHealth
<1>12. CASE RunScenario
  BY <1>12 DEF RunScenario
<1>13. CASE StageInspect
  BY <1>13 DEF StageInspect, StageCheckFails
<1>14. CASE StageProbe
  BY <1>14 DEF StageProbe, StageCheckFails
<1>15. CASE CheckBaseShared
  BY <1>15 DEF CheckBaseShared, BaseCheckError
<1>16. CASE CheckBaseInspect
  BY <1>16 DEF CheckBaseInspect, BaseNotUsable, BaseCheckError
<1>17. CASE CheckBaseProbe
  BY <1>17 DEF CheckBaseProbe, BaseUsable, BaseNotUsable, BaseCheckError
<1>18. CASE BaselineEnds
  BY <1>18 DEF BaselineEnds
<1>19. CASE BaseControlEnds
  BY <1>19 DEF BaseControlEnds
<1>20. CASE CandidateControlEnds
  BY <1>20 DEF CandidateControlEnds
<1>21. CASE MixedControlEnds
  BY <1>21 DEF MixedControlEnds
<1>22. CASE CoexistenceEnds
  BY <1>22 DEF CoexistenceEnds
<1>23. CASE TrafficEnds
  BY <1>23 DEF TrafficEnds
<1>24. CASE RollbackEnds
  BY <1>24 DEF RollbackEnds
<1>25. CASE BeginCoexistence
  BY <1>25 DEF BeginCoexistence
<1>26. CASE StopBase
  BY <1>26 DEF StopBase
<1>27. CASE CandidateInspect
  BY <1>27 DEF CandidateInspect, CandidateHealth
<1>28. CASE CandidateProbe
  BY <1>28 DEF CandidateProbe, CandidateHealth
<1>29. CASE SkipTraffic
  BY <1>29 DEF SkipTraffic
<1>30. CASE StopCandidate
  BY <1>30 DEF StopCandidate
<1>31. CASE Report
  BY <1>31 DEF Report
<1>32. CASE Clean
  BY <1>32 DEF Clean
<1>33. CASE Publish
  BY <1>33 DEF Publish
<1>34. CASE Verify
  BY <1>34 DEF Verify
<1>35. CASE Recover
  BY <1>35 DEF Recover, ExecutePoints
<1>36. CASE Signal \/ SharedLost \/ ComponentLost \/ StrayEnds
  BY <1>36 DEF Signal, SharedLost, ComponentLost, StrayEnds
<1>37. CASE UNCHANGED vars
  BY <1>37 DEF vars
<1> QED BY Actions, <1>1, <1>2, <1>3, <1>4, <1>5, <1>6, <1>7, <1>8, <1>9,
  <1>10, <1>11, <1>12, <1>13, <1>14, <1>15, <1>16, <1>17, <1>18, <1>19, <1>20,
  <1>21, <1>22, <1>23, <1>24, <1>25, <1>26, <1>27, <1>28, <1>29, <1>30, <1>31,
  <1>32, <1>33, <1>34, <1>35, <1>36, <1>37

\* The step keeps containers and environment well-formed.
LEMMA WorldStep ==
  ASSUME WorldOK, Reach, [Next]_vars
  PROVE  WorldOK'
<1> USE DEF WorldOK
<1>1. CASE StartSharedEnvironment
  BY <1>1 DEF StartSharedEnvironment
<1>2. CASE LaunchRole
  BY <1>2 DEF LaunchRole, Starting, Instances, Reach
<1>3. CASE StopBase
  BY <1>3 DEF StopBase, Stop
<1>4. CASE StopCandidate
  BY <1>4 DEF StopCandidate, Stop
<1>5. CASE Clean
  BY <1>5 DEF Clean
<1>6. CASE Signal
  BY <1>6 DEF Signal
<1>7. CASE SharedLost
  BY <1>7 DEF SharedLost
<1>8. CASE ComponentLost \/ StrayEnds
  BY <1>8 DEF ComponentLost, StrayEnds
<1>9. CASE LaunchHook
  BY <1>9 DEF LaunchHook, HookFailed, world
<1>10. CASE HookEnds
  BY <1>10 DEF HookEnds, HookFailed, world
<1>11. CASE CreateSession \/ Prepare \/ BuildImages \/ HooksPass \/
         AwaitReady \/ NextScenario \/
         StageSharedHealth \/ RunScenario \/ StageInspect \/ StageProbe
         \/ CheckBaseShared \/ CheckBaseInspect \/ CheckBaseProbe \/
         BaselineEnds \/ BaseControlEnds \/ CandidateControlEnds \/
         MixedControlEnds \/ CoexistenceEnds \/ TrafficEnds \/
         RollbackEnds \/ BeginCoexistence \/ CandidateInspect \/
         CandidateProbe \/ SkipTraffic \/ Report \/ Publish \/ Verify \/
         Recover
  BY <1>11 DEF CreateSession, Prepare, BuildImages, HooksPass, AwaitReady,
    NextScenario, StageSharedHealth,
    RunScenario, StageInspect, StageProbe, CheckBaseShared, CheckBaseInspect,
    CheckBaseProbe, BaselineEnds, BaseControlEnds, CandidateControlEnds,
    MixedControlEnds, CoexistenceEnds, TrafficEnds, RollbackEnds,
    BeginCoexistence, CandidateInspect, CandidateHealth, CandidateProbe,
    SkipTraffic, Report, Publish, Verify, Recover, world
<1>12. CASE UNCHANGED vars
  BY <1>12 DEF vars, world
<1> QED BY Actions, <1>1, <1>2, <1>3, <1>4, <1>5, <1>6, <1>7, <1>8, <1>9,
  <1>10, <1>11, <1>12

\* The step keeps the evidence well-formed.
LEMMA EvidenceStep ==
  ASSUME EvidenceOK, [Next]_vars
  PROVE  EvidenceOK'
<1> USE DEF EvidenceOK
<1>1. CASE Prepare
  BY <1>1, FailureTyped, UncertaintyTyped, RecordsTyped, EstablishTyped,
    DoubtTyped, StageReasonTyped DEF Prepare, Reason, ErrorKinds, Flags,
    MixedChain, RollbackChain
<1>2. CASE BuildImages
  BY <1>2, UncertaintyTyped, RecordsTyped, Readings DEF BuildImages, ErrorKinds, Reason, DockerCommandResults
<1>3. CASE StartSharedEnvironment
  BY <1>3, UncertaintyTyped, RecordsTyped, InterruptedTyped DEF
    StartSharedEnvironment, ErrorKinds, Reason
<1>4. CASE LaunchHook
  BY <1>4, HookFailedTyped DEF LaunchHook, evidence
<1>5. CASE HookEnds
  BY <1>5, HookFailedTyped, RecordsTyped DEF HookEnds, ErrorKinds
<1>6. CASE HooksPass
  BY <1>6, FailureTyped, UncertaintyTyped, RecordsTyped, EstablishTyped,
    DoubtTyped, StageReasonTyped DEF HooksPass, Reason, ErrorKinds, Flags,
    MixedChain, RollbackChain
<1>7. CASE LaunchRole
  BY <1>7, StartFailedTyped DEF LaunchRole, evidence
<1>8. CASE AwaitReady
  BY <1>8, StartFailedTyped, EstablishTyped, RecordsTyped DEF AwaitReady,
    Flags, MixedChain, RollbackChain, ErrorKinds
<1>9. CASE StageSharedHealth
  BY <1>9, FailureTyped, UncertaintyTyped, RecordsTyped, EstablishTyped,
    DoubtTyped, StageReasonTyped DEF StageSharedHealth, Reason, ErrorKinds,
    Flags, MixedChain, RollbackChain
<1>10. CASE RunScenario
  BY <1>10, FailureTyped, StageReasonTyped, EstablishTyped DEF RunScenario,
    ErrorKinds, Flags, RollbackChain
<1>11. CASE StageInspect
  BY <1>11, FailureTyped, UncertaintyTyped, RecordsTyped, EstablishTyped,
    DoubtTyped, StageReasonTyped DEF StageInspect, StageCheckFails, StageLost,
    Reason, ErrorKinds, Flags, MixedChain, RollbackChain
<1>12. CASE StageProbe
  BY <1>12, FailureTyped, UncertaintyTyped, RecordsTyped, EstablishTyped,
    DoubtTyped, StageReasonTyped DEF StageProbe, StageCheckFails, StageLost,
    Reason, ErrorKinds, Flags, MixedChain, RollbackChain
<1>13. CASE CheckBaseShared
  BY <1>13, FailureTyped, UncertaintyTyped, RecordsTyped, EstablishTyped,
    DoubtTyped, StageReasonTyped DEF CheckBaseShared, BaseCheckError, Reason,
    ErrorKinds, Flags, MixedChain, RollbackChain
<1>14. CASE CheckBaseInspect
  BY <1>14, FailureTyped, UncertaintyTyped, RecordsTyped, EstablishTyped,
    DoubtTyped, StageReasonTyped DEF CheckBaseInspect, BaseNotUsable,
    BaseCheckError, Reason, ErrorKinds, Flags, MixedChain, RollbackChain
<1>15. CASE CheckBaseProbe
  BY <1>15, FailureTyped, UncertaintyTyped, RecordsTyped, EstablishTyped,
    DoubtTyped, StageReasonTyped DEF CheckBaseProbe, BaseUsable,
    BaseNotUsable, BaseCheckError, Reason, ErrorKinds, Flags, MixedChain,
    RollbackChain
<1>16. CASE BaselineEnds
  BY <1>16, FailureTyped, UncertaintyTyped, RecordsTyped, EstablishTyped,
    DoubtTyped, StageReasonTyped DEF BaselineEnds, Reason, ErrorKinds, Flags,
    MixedChain, RollbackChain
<1>17. CASE BaseControlEnds
  BY <1>17, FailureTyped, UncertaintyTyped, RecordsTyped, EstablishTyped,
    DoubtTyped, StageReasonTyped DEF BaseControlEnds, Reason, ErrorKinds,
    Flags, MixedChain, RollbackChain
<1>18. CASE CandidateControlEnds
  BY <1>18, FailureTyped, UncertaintyTyped, RecordsTyped, EstablishTyped,
    DoubtTyped, StageReasonTyped DEF CandidateControlEnds, Reason, ErrorKinds,
    Flags, MixedChain, RollbackChain
<1>19. CASE MixedControlEnds
  BY <1>19, FailureTyped, UncertaintyTyped, RecordsTyped, EstablishTyped,
    DoubtTyped, StageReasonTyped DEF MixedControlEnds, Reason, ErrorKinds,
    Flags, MixedChain, RollbackChain
<1>20. CASE CoexistenceEnds
  BY <1>20, FailureTyped, UncertaintyTyped, RecordsTyped, EstablishTyped,
    DoubtTyped, StageReasonTyped DEF CoexistenceEnds, Reason, ErrorKinds,
    Flags, MixedChain, RollbackChain
<1>21. CASE TrafficEnds
  BY <1>21, FailureTyped, UncertaintyTyped, RecordsTyped, EstablishTyped,
    DoubtTyped, StageReasonTyped DEF TrafficEnds, Reason, ErrorKinds, Flags,
    MixedChain, RollbackChain
<1>22. CASE RollbackEnds
  BY <1>22, FailureTyped, UncertaintyTyped, RecordsTyped, EstablishTyped,
    DoubtTyped, StageReasonTyped DEF RollbackEnds, Reason, ErrorKinds, Flags,
    MixedChain, RollbackChain
<1>23. CASE StopBase
  BY <1>23, FailureTyped, UncertaintyTyped, RecordsTyped, EstablishTyped,
    DoubtTyped, StageReasonTyped DEF StopBase, Reason, ErrorKinds, Flags,
    MixedChain, RollbackChain
<1>24. CASE CandidateInspect
  BY <1>24, FailureTyped, UncertaintyTyped, RecordsTyped, EstablishTyped,
    DoubtTyped, StageReasonTyped DEF CandidateInspect, CandidateHealth,
    Reason, ErrorKinds, Flags, MixedChain, RollbackChain
<1>25. CASE CandidateProbe
  BY <1>25, FailureTyped, UncertaintyTyped, RecordsTyped, EstablishTyped,
    DoubtTyped, StageReasonTyped DEF CandidateProbe, CandidateHealth, Reason,
    ErrorKinds, Flags, MixedChain, RollbackChain
<1>26. CASE SkipTraffic
  BY <1>26, FailureTyped, UncertaintyTyped, RecordsTyped, EstablishTyped,
    DoubtTyped, StageReasonTyped DEF SkipTraffic, Reason, ErrorKinds, Flags,
    MixedChain, RollbackChain
<1>27. CASE StopCandidate
  BY <1>27, FailureTyped, UncertaintyTyped, RecordsTyped, EstablishTyped,
    DoubtTyped, StageReasonTyped DEF StopCandidate, Reason, ErrorKinds, Flags,
    MixedChain, RollbackChain
<1>28. CASE Report
  BY <1>28, UncertaintyTyped, RecordsTyped, InterruptedTyped DEF Report,
    ErrorKinds, Reason
<1>29. CASE Clean
  BY <1>29, FailureTyped, UncertaintyTyped, RecordsTyped, EstablishTyped,
    DoubtTyped, StageReasonTyped DEF Clean, Reason, ErrorKinds, Flags,
    MixedChain, RollbackChain
<1>30. CASE Publish
  BY <1>30, FailureTyped, UncertaintyTyped, RecordsTyped, EstablishTyped,
    DoubtTyped, StageReasonTyped DEF Publish, Reason, ErrorKinds, Flags,
    MixedChain, RollbackChain
<1>31. CASE Recover
  BY <1>31, FailureTyped, UncertaintyTyped, RecordsTyped, EstablishTyped,
    DoubtTyped, StageReasonTyped DEF Recover, Reason, ErrorKinds, Flags,
    MixedChain, RollbackChain
<1>32. CASE CreateSession \/ NextScenario \/ BeginCoexistence \/ Verify \/
         Signal \/ SharedLost \/ ComponentLost \/ StrayEnds
  BY <1>32 DEF CreateSession, NextScenario, BeginCoexistence, Verify, Signal,
    SharedLost, ComponentLost, StrayEnds, evidence
<1>33. CASE UNCHANGED vars
  BY <1>33 DEF vars, evidence
<1> QED BY Actions, <1>1, <1>2, <1>3, <1>4, <1>5, <1>6, <1>7, <1>8, <1>9,
  <1>10, <1>11, <1>12, <1>13, <1>14, <1>15, <1>16, <1>17, <1>18, <1>19, <1>20,
  <1>21, <1>22, <1>23, <1>24, <1>25, <1>26, <1>27, <1>28, <1>29, <1>30, <1>31,
  <1>32, <1>33

\* The step keeps the recorded outcomes well-formed.
LEMMA RecordStep ==
  ASSUME RecordOK, [Next]_vars
  PROVE  RecordOK'
<1> USE DEF RecordOK
<1>1. CASE BuildImages
  BY <1>1, StageTyped, ControlTyped, OutcomesTyped, OutcomeOfTyped, Readings DEF
    BuildImages, Outcomes, DockerCommandResults
<1>2. CASE StartSharedEnvironment
  BY <1>2, StageTyped, ControlTyped, OutcomesTyped, OutcomeOfTyped DEF
    StartSharedEnvironment, Outcomes
<1>3. CASE LaunchHook
  BY <1>3, StageTyped, ControlTyped, OutcomesTyped, OutcomeOfTyped, Readings DEF
    LaunchHook, HookFailed, record, Outcomes, DockerCommandResults
<1>4. CASE HookEnds
  BY <1>4, StageTyped, ControlTyped, OutcomesTyped, OutcomeOfTyped, Readings DEF
    HookEnds, HookFailed, record, Outcomes, DockerCommandResults
<1>5. CASE HooksPass
  BY <1>5, StageTyped, ControlTyped, OutcomesTyped, OutcomeOfTyped DEF
    HooksPass, Outcomes
<1>6. CASE LaunchRole
  BY <1>6, StageTyped, ControlTyped, OutcomesTyped, OutcomeOfTyped DEF
    LaunchRole, StartFailed, record, Outcomes, OutcomeOf
<1>7. CASE AwaitReady
  BY <1>7, StageTyped, ControlTyped, OutcomesTyped, OutcomeOfTyped DEF
    AwaitReady, WaitFailures, StartFailed, Outcomes, OutcomeOf
<1>8. CASE CheckBaseShared
  BY <1>8, StageTyped, ControlTyped, OutcomesTyped, OutcomeOfTyped DEF
    CheckBaseShared, BaseCheckError, Outcomes
<1>9. CASE CheckBaseInspect
  BY <1>9, StageTyped, ControlTyped, OutcomesTyped, OutcomeOfTyped DEF
    CheckBaseInspect, BaseNotUsable, BaseCheckError, Outcomes
<1>10. CASE CheckBaseProbe
  BY <1>10, StageTyped, ControlTyped, OutcomesTyped, OutcomeOfTyped DEF
    CheckBaseProbe, BaseUsable, BaseNotUsable, BaseCheckError, Outcomes
<1>11. CASE BaselineEnds
  BY <1>11, StageTyped, ControlTyped, OutcomesTyped, OutcomeOfTyped DEF
    BaselineEnds, Outcomes
<1>12. CASE BaseControlEnds
  BY <1>12, StageTyped, ControlTyped, OutcomesTyped, OutcomeOfTyped DEF
    BaseControlEnds, Outcomes
<1>13. CASE CandidateControlEnds
  BY <1>13, StageTyped, ControlTyped, OutcomesTyped, OutcomeOfTyped DEF
    CandidateControlEnds, Outcomes
<1>14. CASE MixedControlEnds
  BY <1>14, StageTyped, ControlTyped, OutcomesTyped, OutcomeOfTyped DEF
    MixedControlEnds, Outcomes
<1>15. CASE CoexistenceEnds
  BY <1>15, StageTyped, ControlTyped, OutcomesTyped, OutcomeOfTyped DEF
    CoexistenceEnds, Outcomes
<1>16. CASE TrafficEnds
  BY <1>16, StageTyped, ControlTyped, OutcomesTyped, OutcomeOfTyped DEF
    TrafficEnds, Outcomes
<1>17. CASE RollbackEnds
  BY <1>17, StageTyped, ControlTyped, OutcomesTyped, OutcomeOfTyped DEF
    RollbackEnds, Outcomes
<1>18. CASE SkipTraffic
  BY <1>18, StageTyped, ControlTyped, OutcomesTyped, OutcomeOfTyped DEF
    SkipTraffic, Outcomes
<1>19. CASE Report
  BY <1>19 DEF Report, Outcomes, Records, AddUncertainty
<1>20. CASE CreateSession \/ Prepare \/ NextScenario \/ StageSharedHealth \/
         RunScenario \/ StageInspect \/ StageProbe \/ BeginCoexistence \/
         StopBase \/ CandidateInspect \/ CandidateProbe \/ StopCandidate
         \/ Clean \/ Publish \/ Verify \/ Recover \/ Signal \/ SharedLost
         \/ ComponentLost \/ StrayEnds
  BY <1>20 DEF CreateSession, Prepare, NextScenario, StageSharedHealth,
    RunScenario, StageInspect, StageProbe, BeginCoexistence, StopBase,
    CandidateInspect, CandidateHealth, CandidateProbe, StopCandidate, Clean,
    Publish, Verify, Recover, Signal, SharedLost, ComponentLost, StrayEnds, record
<1>21. CASE UNCHANGED vars
  BY <1>21 DEF vars, record
<1> QED BY Actions, <1>1, <1>2, <1>3, <1>4, <1>5, <1>6, <1>7, <1>8, <1>9,
  <1>10, <1>11, <1>12, <1>13, <1>14, <1>15, <1>16, <1>17, <1>18, <1>19, <1>20,
  <1>21

\* The step keeps the result of the run well-formed.
LEMMA FinalStep ==
  ASSUME FinalOK, [Next]_vars
  PROVE  FinalOK'
<1> USE DEF FinalOK
<1>1. CASE CreateSession
  BY <1>1 DEF CreateSession
<1>2. CASE Prepare
  BY <1>2 DEF Prepare
<1>3. CASE Report
  BY <1>3 DEF Report
<1>4. CASE Clean
  BY <1>4 DEF Clean
<1>5. CASE Publish
  BY <1>5, ExitCodeTyped DEF Publish
<1>6. CASE Verify
  BY <1>6 DEF Verify, ExitCodes, NoExit
<1>7. CASE Recover
  BY <1>7 DEF Recover
<1>8. CASE BuildImages \/ StartSharedEnvironment \/ LaunchHook \/ HookEnds
         \/ HooksPass \/ LaunchRole \/ AwaitReady \/ NextScenario \/
         StageSharedHealth \/ RunScenario \/ StageInspect \/ StageProbe
         \/ CheckBaseShared \/ CheckBaseInspect \/ CheckBaseProbe \/
         BaselineEnds \/ BaseControlEnds \/ CandidateControlEnds \/
         MixedControlEnds \/ CoexistenceEnds \/ TrafficEnds \/
         RollbackEnds \/ BeginCoexistence \/ StopBase \/ CandidateInspect
         \/ CandidateProbe \/ SkipTraffic \/ StopCandidate \/ Signal \/
         SharedLost \/ ComponentLost \/ StrayEnds
  BY ZenonT(30), <1>8 DEF BuildImages, StartSharedEnvironment, LaunchHook, HookFailed,
    HookEnds, HooksPass, LaunchRole, StartFailed, AwaitReady, NextScenario,
    StageSharedHealth, RunScenario, StageInspect, StageProbe, CheckBaseShared,
    CheckBaseInspect, CheckBaseProbe, BaselineEnds, BaseControlEnds,
    CandidateControlEnds, MixedControlEnds, CoexistenceEnds, TrafficEnds,
    RollbackEnds, BeginCoexistence, StopBase, CandidateInspect,
    CandidateHealth, CandidateProbe, SkipTraffic, StopCandidate, Signal,
    SharedLost, ComponentLost, StrayEnds, final
<1>9. CASE UNCHANGED vars
  BY <1>9 DEF vars, final
<1> QED BY Actions, <1>1, <1>2, <1>3, <1>4, <1>5, <1>6, <1>7, <1>8, <1>9

-----------------------------------------------------------------------------
\* A new run is well-formed.
LEMMA TypeInit == Init => TypeOK /\ Reach
<1> SUFFICES ASSUME Init PROVE TypeOK /\ Reach
  OBVIOUS
<1> USE DEF Init
<1>1. PlaceOK
  BY DEF PlaceOK, States, Points, Marks
<1>2. WorldOK
  BY DEF WorldOK, Instances
<1>3. EvidenceOK
  BY DEF EvidenceOK, Flags, RollbackChain, ErrorKinds
<1>4. RecordOK
  BY DEF RecordOK, Outcomes
<1>5. FinalOK
  BY DEF FinalOK, ExitCodes, NoExit
<1>6. Reach
  BY DEF Reach, Loop, CheckBase
<1> QED BY <1>1, <1>2, <1>3, <1>4, <1>5, <1>6 DEF TypeOK

\* One step keeps all of it.
LEMMA TypeStep ==
  ASSUME TypeOK, Reach, [Next]_vars
  PROVE  TypeOK' /\ Reach'
BY PlaceStep, ReachStep, WorldStep, EvidenceStep, RecordStep, FinalStep DEF TypeOK

\* Every variable of the run always holds a value the code could have stored
\* in it, for any workload, hooks, readiness type and set of faults.
THEOREM TypeCorrect == Spec => []TypeOK
<1>1. Init => TypeOK /\ Reach
  BY TypeInit
<1>2. TypeOK /\ Reach /\ [Next]_vars => (TypeOK /\ Reach)'
  BY TypeStep
<1> QED BY <1>1, <1>2, PTL DEF Spec

-----------------------------------------------------------------------------
\* A phase is entered only with the evidence of the phases before it.
LEMMA AttributableStep ==
  ASSUME TypeOK, Reach, Attributable, [Next]_vars
  PROVE  Attributable'
<1> USE DEF Attributable, Reach, Loop, CheckBase, BaseControls, Advance,
  Enter, Successor, AfterBaseline, AfterTransition, AfterCandidateStartup,
  AfterCandidateControl, Cutover, Establish
<1>1. CASE CreateSession
  BY <1>1 DEF CreateSession, evidence, PlaceOK, TypeOK
<1>2. CASE Prepare
  BY <1>2 DEF Prepare, PlaceOK, TypeOK
<1>3. CASE BuildImages
  BY <1>3 DEF BuildImages, PlaceOK, TypeOK
<1>4. CASE StartSharedEnvironment
  BY <1>4 DEF StartSharedEnvironment, PlaceOK, TypeOK
<1>5. CASE LaunchHook
  BY <1>5 DEF LaunchHook, HookFailed, CandidateOnlyHooksFailed,
    RollbackHooksFailed, SetupHooksFailed, evidence, PlaceOK, TypeOK
<1>6. CASE HookEnds
  BY <1>6 DEF HookEnds, HookFailed, CandidateOnlyHooksFailed,
    RollbackHooksFailed, SetupHooksFailed, PlaceOK, TypeOK
<1>7. CASE HooksPass
  BY <1>7 DEF HooksPass, PlaceOK, TypeOK
<1>8. CASE LaunchRole
  BY <1>8 DEF LaunchRole, StartFailed, evidence, PlaceOK, TypeOK
<1>9. CASE AwaitReady
  BY <1>9 DEF AwaitReady, StartFailed, PlaceOK, TypeOK
<1>10. CASE NextScenario
  BY <1>10 DEF NextScenario, evidence, PlaceOK, TypeOK
<1>11. CASE StageSharedHealth
  BY <1>11 DEF StageSharedHealth, PlaceOK, TypeOK
<1>12. CASE RunScenario
  BY <1>12 DEF RunScenario, PlaceOK, TypeOK
<1>13. CASE StageInspect
  BY <1>13 DEF StageInspect, StageCheckFails, PlaceOK, TypeOK
<1>14. CASE StageProbe
  BY <1>14 DEF StageProbe, StageCheckFails, PlaceOK, TypeOK
<1>15. CASE CheckBaseShared
  BY <1>15 DEF CheckBaseShared, BaseCheckError, PlaceOK, TypeOK
<1>16. CASE CheckBaseInspect
  BY <1>16 DEF CheckBaseInspect, BaseCheckError, BaseNotUsable, PlaceOK,
    TypeOK
<1>17. CASE CheckBaseProbe
  BY <1>17 DEF CheckBaseProbe, BaseUsable, BaseNotUsable, BaseCheckError,
    PlaceOK, TypeOK
<1>18. CASE BaselineEnds
  BY <1>18 DEF BaselineEnds, PlaceOK, TypeOK
<1>19. CASE BaseControlEnds
  BY <1>19 DEF BaseControlEnds, PlaceOK, TypeOK
<1>20. CASE CandidateControlEnds
  BY <1>20 DEF CandidateControlEnds, PlaceOK, TypeOK
<1>21. CASE MixedControlEnds
  BY <1>21 DEF MixedControlEnds, PlaceOK, TypeOK
<1>22. CASE CoexistenceEnds
  BY <1>22 DEF CoexistenceEnds, PlaceOK, TypeOK
<1>23. CASE TrafficEnds
  BY <1>23 DEF TrafficEnds, PlaceOK, TypeOK
<1>24. CASE RollbackEnds
  BY <1>24 DEF RollbackEnds, PlaceOK, TypeOK
<1>25. CASE BeginCoexistence
  BY <1>25 DEF BeginCoexistence, evidence, CoexistenceEligible
<1>26. CASE StopBase
  BY <1>26 DEF StopBase, PlaceOK, TypeOK
<1>27. CASE CandidateInspect
  BY <1>27 DEF CandidateInspect, CandidateHealth, PlaceOK, TypeOK
<1>28. CASE CandidateProbe
  BY <1>28 DEF CandidateProbe, CandidateHealth, PlaceOK, TypeOK
<1>29. CASE SkipTraffic
  BY <1>29 DEF SkipTraffic, PlaceOK, TypeOK
<1>30. CASE StopCandidate
  BY <1>30 DEF StopCandidate, PlaceOK, TypeOK
<1>31. CASE Report
  BY <1>31 DEF Report, PlaceOK, TypeOK
<1>32. CASE Clean
  BY <1>32 DEF Clean, PlaceOK, TypeOK
<1>33. CASE Publish
  BY <1>33 DEF Publish, PlaceOK, TypeOK
<1>34. CASE Verify
  BY <1>34 DEF Verify, evidence, PlaceOK, TypeOK
<1>35. CASE Recover
  BY <1>35 DEF Recover, PlaceOK, TypeOK
<1>36. CASE Signal \/ SharedLost \/ ComponentLost \/ StrayEnds
  BY <1>36 DEF Signal, SharedLost, ComponentLost, StrayEnds, evidence
<1>37. CASE UNCHANGED vars
  BY <1>37 DEF vars, evidence
<1> QED BY Actions, <1>1, <1>2, <1>3, <1>4, <1>5, <1>6, <1>7, <1>8, <1>9,
  <1>10, <1>11, <1>12, <1>13, <1>14, <1>15, <1>16, <1>17, <1>18, <1>19, <1>20,
  <1>21, <1>22, <1>23, <1>24, <1>25, <1>26, <1>27, <1>28, <1>29, <1>30, <1>31,
  <1>32, <1>33, <1>34, <1>35, <1>36, <1>37

\* The containers are those the point the step leads to expects.
LEMMA PresentStep ==
  ASSUME TypeOK, Reach, Present, [Next]_vars
  PROVE  Present'
<1> USE DEF Present, BaseAssigned, CandidateAssigned, Expected, Reach, TypeOK,
  PlaceOK, Loop, CheckBase, BaseControls, Advance, Enter, Successor,
  ExecutePoints
<1>1. CASE CreateSession
  BY <1>1 DEF CreateSession, world, refs
<1>2. CASE Prepare
  BY <1>2 DEF Prepare, world, refs
<1>3. CASE BuildImages
  BY <1>3 DEF BuildImages, world, refs
<1>4. CASE StartSharedEnvironment
  BY <1>4 DEF StartSharedEnvironment, refs
<1>38. ASSUME NEW outcome, HookFailed(outcome), pc \in {"hooks", "hook"}
       PROVE  Present'
  <2>1. UNCHANGED exists /\ UNCHANGED base /\ UNCHANGED candidate
    BY <1>38 DEF HookFailed, refs
  <2>2. CASE pc' = "report"
    BY <2>2
  <2>3. CASE machine = "CANDIDATE_ONLY" /\ machine' = "CANDIDATE_TRAFFIC" /\ pc' = "skipTraffic"
    BY <1>38, <2>1, <2>3
  <2>4. CASE machine = "ROLLBACK" /\ machine' = machine /\ pc' = "start"
    BY <1>38, <2>1, <2>4
  <2> QED BY <1>38, <2>2, <2>3, <2>4 DEF HookFailed, CandidateOnlyHooksFailed,
    RollbackHooksFailed, SetupHooksFailed
<1>5. CASE LaunchHook
  <2>1. CASE \E outcome \in {"canceled"} : HookFailed(outcome)
    BY <1>5, <1>38, <2>1 DEF LaunchHook
  <2>2. CASE UNCHANGED <<machine, world, refs>> /\ pc' = "hook"
    BY <1>5, <2>2 DEF LaunchHook, world, refs
  <2> QED BY <1>5, <2>1, <2>2 DEF LaunchHook
<1>6. CASE HookEnds
  <2>1. CASE \E outcome \in DockerCommandResults \ {"pass"} : HookFailed(outcome)
    BY <1>6, <1>38, <2>1 DEF HookEnds
  <2>2. CASE UNCHANGED <<machine, world, refs>> /\ pc' = "hooks"
    BY <1>6, <2>2 DEF HookEnds, world, refs
  <2> QED BY <1>6, <2>1, <2>2 DEF HookEnds
<1>7. CASE HooksPass
  BY <1>7 DEF HooksPass, world, refs
<1>8. CASE LaunchRole
  <2>1. CASE pc' = "report"
    BY <2>1
  <2>2. CASE /\ pc' = "ready" /\ machine' = machine
             /\ exists' = exists \union {Starting} /\ Assign(Starting)
    <3>1. machine \in {"BASE_STARTUP", "CANDIDATE_STARTUP", "ROLLBACK"} /\ pc = "start"
      BY <1>8 DEF LaunchRole
    <3>2. exists' = Expected'
      BY <2>2, <3>1 DEF Starting
    <3>3. machine = "CANDIDATE_STARTUP" => base' = base
      BY <2>2 DEF Assign
    <3>4. machine = "BASE_STARTUP" => base' = "base"
      BY <2>2 DEF Assign, Starting
    <3>5. machine = "CANDIDATE_STARTUP" => candidate' = "candidate"
      BY <2>2 DEF Assign, Starting
    <3> QED BY <2>2, <3>1, <3>2, <3>3, <3>4, <3>5
  <2> QED BY <1>8, <2>1, <2>2 DEF LaunchRole, StartFailed
<1>9. CASE AwaitReady
  <2>1. UNCHANGED exists /\ UNCHANGED base /\ UNCHANGED candidate
    BY <1>9 DEF AwaitReady, world, refs
  <2>2. CASE pc' = "report"
    BY <2>2
  <2>3. CASE /\ machine = "BASE_STARTUP" /\ machine' = "BASELINE" /\ pc' = "begin"
    BY <1>9, <2>1, <2>3 DEF AwaitReady
  <2>4. CASE /\ machine = "CANDIDATE_STARTUP" /\ machine' = "CANDIDATE_CONTROL"
             /\ pc' = "begin"
    BY <1>9, <2>1, <2>4 DEF AwaitReady
  <2>5. CASE /\ machine = "ROLLBACK" /\ machine' = machine /\ pc' = "begin"
    BY <1>9, <2>1, <2>5 DEF AwaitReady
  <2> QED BY <1>9, <2>2, <2>3, <2>4, <2>5 DEF AwaitReady, StartFailed
<1>10. CASE NextScenario
  BY <1>10 DEF NextScenario, world, refs
<1>11. CASE StageSharedHealth
  BY <1>11 DEF StageSharedHealth, world, refs
<1>12. CASE RunScenario
  BY <1>12 DEF RunScenario, world, refs
<1>13. CASE StageInspect
  BY <1>13 DEF StageInspect, StageCheckFails, world, refs
<1>14. CASE StageProbe
  BY <1>14 DEF StageProbe, StageCheckFails, world, refs
<1>15. CASE CheckBaseShared
  BY <1>15 DEF CheckBaseShared, BaseCheckError, world, refs
<1>16. CASE CheckBaseInspect
  BY <1>16 DEF CheckBaseInspect, BaseCheckError, BaseNotUsable, world, refs
<1>17. CASE CheckBaseProbe
  BY <1>17 DEF CheckBaseProbe, BaseUsable, BaseNotUsable, BaseCheckError,
    world, refs
<1>18. CASE BaselineEnds
  BY <1>18 DEF BaselineEnds, world, refs
<1>19. CASE BaseControlEnds
  BY <1>19 DEF BaseControlEnds, world, refs
<1>20. CASE CandidateControlEnds
  BY <1>20 DEF CandidateControlEnds, world, refs
<1>21. CASE MixedControlEnds
  BY <1>21 DEF MixedControlEnds, world, refs
<1>22. CASE CoexistenceEnds
  BY <1>22 DEF CoexistenceEnds, world, refs
<1>23. CASE TrafficEnds
  BY <1>23 DEF TrafficEnds, world, refs
<1>24. CASE RollbackEnds
  BY <1>24 DEF RollbackEnds, world, refs
<1>25. CASE BeginCoexistence
  BY <1>25 DEF BeginCoexistence, world, refs
<1>26. CASE StopBase
  BY <1>26 DEF StopBase, Stop
<1>27. CASE CandidateInspect
  BY <1>27 DEF CandidateInspect, CandidateHealth, world, refs
<1>28. CASE CandidateProbe
  BY <1>28 DEF CandidateProbe, CandidateHealth, world, refs
<1>29. CASE SkipTraffic
  BY <1>29 DEF SkipTraffic, world, refs
<1>30. CASE StopCandidate
  BY <1>30 DEF StopCandidate, Stop
<1>31. CASE Report
  BY <1>31 DEF Report, world, refs
<1>32. CASE Clean
  BY <1>32 DEF Clean, refs
<1>33. CASE Publish
  BY <1>33 DEF Publish, world, refs
<1>34. CASE Verify
  BY <1>34 DEF Verify, world, refs
<1>35. CASE Recover
  BY <1>35 DEF Recover, world, refs
<1>36. CASE Signal \/ SharedLost \/ ComponentLost \/ StrayEnds
  BY <1>36 DEF Signal, SharedLost, ComponentLost, StrayEnds, refs
<1>37. CASE UNCHANGED vars
  BY <1>37 DEF vars, world, refs
<1> QED BY Actions, <1>1, <1>2, <1>3, <1>4, <1>5, <1>6, <1>7, <1>8, <1>9,
  <1>10, <1>11, <1>12, <1>13, <1>14, <1>15, <1>16, <1>17, <1>18, <1>19, <1>20,
  <1>21, <1>22, <1>23, <1>24, <1>25, <1>26, <1>27, <1>28, <1>29, <1>30, <1>31,
  <1>32, <1>33, <1>34, <1>35, <1>36, <1>37

\* Failures and final flags are recorded in their phases only.
LEMMA TimelyStep ==
  ASSUME TypeOK, Reach, Timely, [Next]_vars
  PROVE  Timely'
<1> USE DEF Timely, Reach, TypeOK, EvidenceOK, Loop, CheckBase, BaseControls,
  Advance, Enter, Successor, AfterTransition, AfterCandidateStartup,
  AfterCandidateControl, Cutover, Closing, Establish, AddFailure,
  VerdictNames, Classification
<1>1. CASE CreateSession
  BY <1>1 DEF CreateSession, evidence, PlaceOK
<1>2. CASE Prepare
  BY <1>2 DEF Prepare, PlaceOK
<1>3. CASE BuildImages
  BY <1>3 DEF BuildImages, PlaceOK
<1>4. CASE StartSharedEnvironment
  BY <1>4 DEF StartSharedEnvironment, PlaceOK
<1>5. CASE LaunchHook
  BY <1>5 DEF LaunchHook, HookFailed, CandidateOnlyHooksFailed,
    RollbackHooksFailed, SetupHooksFailed, evidence, PlaceOK
<1>6. CASE HookEnds
  BY <1>6 DEF HookEnds, HookFailed, CandidateOnlyHooksFailed,
    RollbackHooksFailed, SetupHooksFailed, PlaceOK
<1>7. CASE HooksPass
  BY <1>7 DEF HooksPass, PlaceOK
<1>8. CASE LaunchRole
  BY <1>8 DEF LaunchRole, StartFailed, evidence, PlaceOK
<1>9. CASE AwaitReady
  BY <1>9 DEF AwaitReady, StartFailed, PlaceOK
<1>10. CASE NextScenario
  BY <1>10 DEF NextScenario, evidence, PlaceOK
<1>11. CASE StageSharedHealth
  BY <1>11 DEF StageSharedHealth, PlaceOK
<1>12. CASE RunScenario
  BY <1>12 DEF RunScenario, PlaceOK
<1>13. CASE StageInspect
  BY <1>13 DEF StageInspect, StageCheckFails, StageLost, PlaceOK
<1>14. CASE StageProbe
  BY <1>14 DEF StageProbe, StageCheckFails, StageLost, PlaceOK
<1>15. CASE CheckBaseShared
  BY <1>15 DEF CheckBaseShared, BaseCheckError, PlaceOK
<1>16. CASE CheckBaseInspect
  BY <1>16 DEF CheckBaseInspect, BaseCheckError, BaseNotUsable, PlaceOK
<1>17. CASE CheckBaseProbe
  BY <1>17 DEF CheckBaseProbe, BaseUsable, BaseNotUsable, BaseCheckError,
    PlaceOK
<1>18. CASE BaselineEnds
  BY <1>18 DEF BaselineEnds, PlaceOK
<1>19. CASE BaseControlEnds
  BY <1>19 DEF BaseControlEnds, PlaceOK
<1>20. CASE CandidateControlEnds
  BY <1>20 DEF CandidateControlEnds, PlaceOK
<1>21. CASE MixedControlEnds
  BY <1>21 DEF MixedControlEnds, PlaceOK
<1>22. CASE CoexistenceEnds
  BY <1>22 DEF CoexistenceEnds, PlaceOK
<1>23. CASE TrafficEnds
  BY <1>23 DEF TrafficEnds, PlaceOK
<1>24. CASE RollbackEnds
  BY <1>24 DEF RollbackEnds, PlaceOK
<1>25. CASE BeginCoexistence
  BY <1>25 DEF BeginCoexistence, evidence, PlaceOK
<1>26. CASE StopBase
  BY <1>26 DEF StopBase, PlaceOK
<1>27. CASE CandidateInspect
  BY <1>27 DEF CandidateInspect, CandidateHealth, PlaceOK
<1>28. CASE CandidateProbe
  BY <1>28 DEF CandidateProbe, CandidateHealth, PlaceOK
<1>29. CASE SkipTraffic
  BY <1>29 DEF SkipTraffic, PlaceOK
<1>30. CASE StopCandidate
  BY <1>30 DEF StopCandidate, PlaceOK
<1>31. CASE Report
  BY <1>31 DEF Report, PlaceOK
<1>32. CASE Clean
  BY <1>32 DEF Clean, PlaceOK
<1>33. CASE Publish
  BY <1>33 DEF Publish, PlaceOK
<1>34. CASE Verify
  BY <1>34 DEF Verify, evidence, PlaceOK
<1>35. CASE Recover
  BY <1>35 DEF Recover, PlaceOK
<1>36. CASE Signal \/ SharedLost \/ ComponentLost \/ StrayEnds
  BY <1>36 DEF Signal, SharedLost, ComponentLost, StrayEnds, evidence
<1>37. CASE UNCHANGED vars
  BY <1>37 DEF vars, evidence
<1> QED BY Actions, <1>1, <1>2, <1>3, <1>4, <1>5, <1>6, <1>7, <1>8, <1>9,
  <1>10, <1>11, <1>12, <1>13, <1>14, <1>15, <1>16, <1>17, <1>18, <1>19, <1>20,
  <1>21, <1>22, <1>23, <1>24, <1>25, <1>26, <1>27, <1>28, <1>29, <1>30, <1>31,
  <1>32, <1>33, <1>34, <1>35, <1>36, <1>37

-----------------------------------------------------------------------------
\* What a new reason needs before it may be recorded.
Grounded(vs, reason) ==
  /\ "mixed" \in vs =>
       /\ {"BaselinePassed", "TransitionPassed"} \subseteq established
       /\ reason \in {"BASE_WITH_CANDIDATE_CONTROL_FAILED", "COEXISTENCE_SCENARIO_FAILED"} =>
            {"CandidateStarted", "CandidateControlPassed"} \subseteq established
       /\ reason = "COEXISTENCE_SCENARIO_FAILED" =>
            {"BaseAfterTransitionPassed", "BaseWithCandidatePassed"} \subseteq established
  /\ "rollback" \in vs =>
       /\ {"CandidateStarted", "CandidateControlPassed"} \subseteq established
       /\ exists \intersect {"base", "candidate"} = {}

\* Recording a grounded failure keeps all failures grounded.
LEMMA GroundedFailure ==
  ASSUME NEW vs, NEW reason, EvidenceOK, FailAttributed, AddFailure(vs, reason), Grounded(vs, reason),
         established \subseteq established', exists' \subseteq exists
  PROVE  FailAttributed'
<1>1. /\ failures'["mixed"] = failures["mixed"] \union (IF "mixed" \in vs THEN {reason} ELSE {})
      /\ failures'["rollback"] = failures["rollback"] \union (IF "rollback" \in vs THEN {reason} ELSE {})
  BY DEF AddFailure, VerdictNames
<1> QED BY <1>1 DEF FailAttributed, Grounded

\* So does a step that records none and starts nothing but the fresh base.
LEMMA KeptFailure ==
  ASSUME FailAttributed, UNCHANGED failures,
         established \subseteq established',
         failures["rollback"] # {} => exists' \subseteq exists \union {"fresh"}
  PROVE  FailAttributed'
BY DEF FailAttributed

\* Every failure a scenario stage may record is grounded: by what the stage was
\* entered after, and for rollback by the containers that exist in it.
LEMMA StageFailureGrounded ==
  ASSUME Reach, Attributable, Present, pc \in {"run", "inspect", "probe"},
         NEW vs \in SUBSET Classification(machine)
  PROVE  Grounded(vs, StageReason(machine)) /\ Grounded(vs, "REQUIRED_COMPONENT_EXITED")
<1> USE DEF Attributable, AfterBaseline, AfterTransition, AfterCandidateStartup, AfterCandidateControl, Cutover
<1>1. CASE machine = "BASE_AFTER_TRANSITION_CONTROL"
  BY <1>1 DEF Grounded, Classification, StageReason
<1>2. CASE machine = "BASE_WITH_CANDIDATE_CONTROL"
  BY <1>2 DEF Grounded, Classification, StageReason
<1>3. CASE machine = "COEXISTENCE"
  BY <1>3 DEF Grounded, Classification, Loop
<1>4. CASE machine = "ROLLBACK"
  <2>1. exists = {"fresh"}
    BY <1>4 DEF Present, Expected, ExecutePoints
  <2> QED BY <1>4, <2>1 DEF Grounded, Classification
<1> QED BY <1>1, <1>2, <1>3, <1>4 DEF Grounded, Classification

\* A lost original base is grounded from the base control on.
LEMMA LostBaseGrounded ==
  ASSUME Attributable, machine \in AfterTransition
  PROVE  Grounded({"mixed"}, "BASE_LOST_READINESS")
BY DEF Grounded, Attributable, AfterBaseline

\* A failed scenario.
LEMMA RunScenarioGrounded ==
  ASSUME EvidenceOK, Reach, Attributable, Present, FailAttributed, RunScenario
  PROVE  FailAttributed'
<1>1. PICK vs \in SUBSET Classification(machine) : AddFailure(vs, StageReason(machine))
  BY DEF RunScenario
<1>2. established \subseteq established' /\ exists' = exists
  BY DEF RunScenario, Establish, world
<1> QED BY <1>1, <1>2, StageFailureGrounded, GroundedFailure DEF RunScenario

\* A component found gone after a scenario.
LEMMA StageCheckGrounded ==
  ASSUME EvidenceOK, Reach, Attributable, Present, FailAttributed, pc \in
         {"inspect", "probe"}, NEW result, StageCheckFails(result), UNCHANGED
         established, UNCHANGED exists
  PROVE  FailAttributed'
<1>1. CASE UNCHANGED failures
  BY <1>1, KeptFailure
<1>2. CASE machine = "CANDIDATE_CONTROL" /\ AddFailure({"mixed"}, "BASE_LOST_READINESS")
  BY <1>2, LostBaseGrounded, GroundedFailure DEF AfterTransition, AfterCandidateStartup
<1>3. CASE AddFailure(Classification(machine), "REQUIRED_COMPONENT_EXITED")
  BY <1>3, StageFailureGrounded, GroundedFailure
<1> QED BY <1>1, <1>2, <1>3 DEF StageCheckFails, StageLost

\* A role that became ready or did not.
LEMMA AwaitReadyGrounded ==
  ASSUME EvidenceOK, Reach, Attributable, Timely, Present, FailAttributed,
         AwaitReady
  PROVE  FailAttributed'
<1>0. exists' = exists
  BY DEF AwaitReady, world
<1>1. CASE UNCHANGED failures
  BY <1>0, <1>1, KeptFailure DEF AwaitReady, StartFailed, Establish
<1>2. CASE machine = "ROLLBACK" /\ AddFailure({"rollback"}, "BASE_RESTART_FAILED") /\ UNCHANGED established
  <2>1. exists = {"fresh"}
    BY <1>2 DEF Present, Expected, ExecutePoints, AwaitReady
  <2>2. Grounded({"rollback"}, "BASE_RESTART_FAILED")
    BY <1>2, <2>1 DEF Grounded, Attributable, AfterCandidateStartup, AfterCandidateControl, Cutover
  <2> QED BY <1>0, <1>2, <2>2, GroundedFailure
<1> QED BY <1>1, <1>2 DEF AwaitReady, StartFailed

\* A role that is launched.
LEMMA LaunchRoleGrounded ==
  ASSUME EvidenceOK, Reach, Timely, FailAttributed, LaunchRole
  PROVE  FailAttributed'
<1>1. UNCHANGED failures /\ UNCHANGED established
  BY DEF LaunchRole, StartFailed, evidence
<1>2. failures["rollback"] # {} => Starting = "fresh"
  BY DEF Timely, LaunchRole, Starting, Reach, Closing
<1>3. exists' \subseteq exists \union {Starting}
  BY DEF LaunchRole
<1> QED BY <1>1, <1>2, <1>3, KeptFailure

\* A hook that was launched or ended.
LEMMA HookGrounded ==
  ASSUME EvidenceOK, Reach, Attributable, Present, FailAttributed, LaunchHook \/
         HookEnds
  PROVE  FailAttributed'
<1>0. UNCHANGED established /\ UNCHANGED exists
  BY DEF LaunchHook, HookEnds, HookFailed, world, evidence
<1>1. CASE UNCHANGED failures
  BY <1>0, <1>1, KeptFailure
<1>2. ASSUME NEW vs \in SUBSET {"rollback"}, machine = "ROLLBACK", AddFailure(vs, "ROLLBACK_HOOK_FAILED")
      PROVE FailAttributed'
  <2>1. exists = {}
    BY <1>2 DEF Present, Expected, ExecutePoints, LaunchHook, HookEnds
  <2>2. Grounded(vs, "ROLLBACK_HOOK_FAILED")
    BY <1>2, <2>1 DEF Grounded, Attributable, AfterCandidateStartup, AfterCandidateControl, Cutover
  <2> QED BY <1>0, <1>2, <2>2, GroundedFailure
<1> QED BY <1>1, <1>2 DEF LaunchHook, HookEnds, HookFailed, SetupHooksFailed,
      CandidateOnlyHooksFailed, RollbackHooksFailed, evidence

\* Failures stay grounded.
LEMMA GroundedStep ==
  ASSUME EvidenceOK, Reach, Attributable, Timely, Present,
         FailAttributed, [Next]_vars
  PROVE  FailAttributed'
<1> USE DEF Establish
<1>1. CASE LaunchHook
  BY <1>1, HookGrounded
<1>2. CASE HookEnds
  BY <1>2, HookGrounded
<1>3. CASE HooksPass
  BY <1>3, KeptFailure DEF HooksPass, world
<1>4. CASE LaunchRole
  BY <1>4, LaunchRoleGrounded
<1>5. CASE AwaitReady
  BY <1>5, AwaitReadyGrounded
<1>6. CASE RunScenario
  BY <1>6, RunScenarioGrounded
<1>7. CASE StageInspect
  BY <1>7, StageCheckGrounded, KeptFailure DEF StageInspect, world
<1>8. CASE StageProbe
  BY <1>8, StageCheckGrounded, KeptFailure DEF StageProbe, world
<1>9. CASE CheckBaseInspect
  <2>1. UNCHANGED established /\ UNCHANGED exists /\ machine \in AfterTransition
    BY <1>9 DEF CheckBaseInspect, world, Reach, CheckBase, BaseControls, AfterTransition,
      AfterCandidateStartup, AfterCandidateControl
  <2>2. UNCHANGED failures \/ AddFailure({"mixed"}, "BASE_LOST_READINESS")
    BY <1>9 DEF CheckBaseInspect, BaseCheckError, BaseNotUsable
  <2> QED BY <2>1, <2>2, KeptFailure, LostBaseGrounded, GroundedFailure
<1>10. CASE CheckBaseProbe
  <2>1. UNCHANGED established /\ UNCHANGED exists /\ machine \in AfterTransition
    BY <1>10 DEF CheckBaseProbe, world, Reach, CheckBase, BaseControls, AfterTransition,
      AfterCandidateStartup, AfterCandidateControl
  <2>2. UNCHANGED failures \/ AddFailure({"mixed"}, "BASE_LOST_READINESS")
    BY <1>10 DEF CheckBaseProbe, BaseCheckError, BaseNotUsable, BaseUsable
  <2> QED BY <2>1, <2>2, KeptFailure, LostBaseGrounded, GroundedFailure
<1>11. CASE BaselineEnds
  BY <1>11, KeptFailure DEF BaselineEnds, world
<1>12. CASE BaseControlEnds
  BY <1>12, KeptFailure DEF BaseControlEnds, world
<1>13. CASE CandidateControlEnds
  BY <1>13, KeptFailure DEF CandidateControlEnds, world
<1>14. CASE MixedControlEnds
  BY <1>14, KeptFailure DEF MixedControlEnds, world
<1>15. CASE CoexistenceEnds
  BY <1>15, KeptFailure DEF CoexistenceEnds, world
<1>16. CASE TrafficEnds
  BY <1>16, KeptFailure DEF TrafficEnds, world
<1>17. CASE RollbackEnds
  BY <1>17, KeptFailure DEF RollbackEnds, world
<1>18. CASE StopBase
  BY <1>18, KeptFailure DEF StopBase, Stop
<1>19. CASE CandidateProbe
  BY <1>19, KeptFailure DEF CandidateProbe, CandidateHealth, world
<1>20. CASE StopCandidate
  BY <1>20, KeptFailure DEF StopCandidate, Stop
<1>21. CASE Clean
  BY <1>21, KeptFailure DEF Clean
<1>22. CASE CreateSession \/ Prepare \/ BuildImages \/
         StartSharedEnvironment \/ NextScenario \/ StageSharedHealth \/
         CheckBaseShared \/ BeginCoexistence \/ CandidateInspect \/
         SkipTraffic \/ Report \/ Publish \/ Verify \/ Recover \/ Signal
         \/ SharedLost \/ ComponentLost \/ StrayEnds
  BY <1>22, KeptFailure DEF CreateSession, Prepare, BuildImages,
    StartSharedEnvironment, NextScenario, StageSharedHealth, CheckBaseShared,
    BaseCheckError, BeginCoexistence, CandidateInspect, CandidateHealth,
    SkipTraffic, Report, Publish, Verify, Recover, Signal, SharedLost,
    ComponentLost, StrayEnds, world, evidence
<1>23. CASE UNCHANGED vars
  BY <1>23, KeptFailure DEF vars, world, evidence
<1> QED BY Actions, <1>1, <1>2, <1>3, <1>4, <1>5, <1>6, <1>7, <1>8, <1>9,
  <1>10, <1>11, <1>12, <1>13, <1>14, <1>15, <1>16, <1>17, <1>18, <1>19, <1>20,
  <1>21, <1>22, <1>23

\* A failure decides the exit code from the first code on.
LEMMA DecidedStep ==
  ASSUME TypeOK, Reach, Timely, Decided, [Next]_vars
  PROVE  Decided'
<1> USE DEF Decided, Reach, SomeFailure
<1>1. CASE CreateSession
  BY <1>1 DEF CreateSession, evidence, Timely, AfterTransition,
    AfterCandidateStartup, AfterCandidateControl, Cutover, Closing,
    VerdictNames
<1>2. CASE Prepare
  BY <1>2 DEF Prepare, Enter
<1>3. CASE BuildImages
  BY <1>3 DEF BuildImages, Enter, final
<1>4. CASE StartSharedEnvironment
  BY <1>4 DEF StartSharedEnvironment, Enter, final
<1>5. CASE LaunchHook
  BY <1>5 DEF LaunchHook, HookFailed, CandidateOnlyHooksFailed, Enter,
    RollbackHooksFailed, AddFailure, SetupHooksFailed, evidence, final
<1>6. CASE HookEnds
  BY <1>6 DEF HookEnds, HookFailed, CandidateOnlyHooksFailed, Enter,
    RollbackHooksFailed, AddFailure, SetupHooksFailed, final
<1>7. CASE HooksPass
  BY <1>7 DEF HooksPass, Enter, final
<1>8. CASE LaunchRole
  BY <1>8 DEF LaunchRole, StartFailed, AddFailure, evidence, final
<1>9. CASE AwaitReady
  BY <1>9 DEF AwaitReady, Enter, StartFailed, AddFailure, final
<1>10. CASE NextScenario
  BY <1>10 DEF NextScenario, evidence, final
<1>11. CASE StageSharedHealth
  BY <1>11 DEF StageSharedHealth, final
<1>12. CASE RunScenario
  BY <1>12 DEF RunScenario, AddFailure, final
<1>13. CASE StageInspect
  BY <1>13 DEF StageInspect, StageCheckFails, StageLost, AddFailure, final
<1>14. CASE StageProbe
  BY <1>14 DEF StageProbe, StageCheckFails, StageLost, AddFailure, final
<1>15. CASE CheckBaseShared
  BY <1>15 DEF CheckBaseShared, BaseCheckError, final
<1>16. CASE CheckBaseInspect
  BY <1>16 DEF CheckBaseInspect, BaseCheckError, BaseNotUsable, Enter,
    AddFailure, final
<1>17. CASE CheckBaseProbe
  BY <1>17 DEF CheckBaseProbe, BaseUsable, BaseNotUsable, Enter, AddFailure,
    BaseCheckError, final
<1>18. CASE BaselineEnds
  BY <1>18 DEF BaselineEnds, Enter, final
<1>19. CASE BaseControlEnds
  BY <1>19 DEF BaseControlEnds, Enter, final
<1>20. CASE CandidateControlEnds
  BY <1>20 DEF CandidateControlEnds, Enter, final
<1>21. CASE MixedControlEnds
  BY <1>21 DEF MixedControlEnds, Enter, final
<1>22. CASE CoexistenceEnds
  BY <1>22 DEF CoexistenceEnds, final
<1>23. CASE TrafficEnds
  BY <1>23 DEF TrafficEnds, Enter, final
<1>24. CASE RollbackEnds
  BY <1>24 DEF RollbackEnds, final
<1>25. CASE BeginCoexistence
  BY <1>25 DEF BeginCoexistence, evidence, final
<1>26. CASE StopBase
  BY <1>26 DEF StopBase, Enter, final
<1>27. CASE CandidateInspect
  BY <1>27 DEF CandidateInspect, CandidateHealth, Enter, final
<1>28. CASE CandidateProbe
  BY <1>28 DEF CandidateProbe, Enter, CandidateHealth, final
<1>29. CASE SkipTraffic
  BY <1>29 DEF SkipTraffic, Enter, final
<1>30. CASE StopCandidate
  BY <1>30 DEF StopCandidate, final
<1>31. CASE Report
  BY <1>31 DEF Report
<1>32. CASE Clean
  BY <1>32 DEF Clean
<1>33. CASE Publish
  BY <1>33 DEF Publish, ExitCode, Status, EvidenceOK
<1>34. CASE Verify
  BY <1>34 DEF Verify, evidence
<1>35. CASE Recover
  BY <1>35 DEF Recover
<1>36. CASE Signal \/ SharedLost \/ ComponentLost \/ StrayEnds
  BY <1>36 DEF Signal, SharedLost, ComponentLost, StrayEnds, evidence, final
<1>37. CASE UNCHANGED vars
  BY <1>37 DEF vars, evidence, final
<1> QED BY Actions, <1>1, <1>2, <1>3, <1>4, <1>5, <1>6, <1>7, <1>8, <1>9,
  <1>10, <1>11, <1>12, <1>13, <1>14, <1>15, <1>16, <1>17, <1>18, <1>19, <1>20,
  <1>21, <1>22, <1>23, <1>24, <1>25, <1>26, <1>27, <1>28, <1>29, <1>30, <1>31,
  <1>32, <1>33, <1>34, <1>35, <1>36, <1>37

-----------------------------------------------------------------------------
\* A new run satisfies the invariant.
LEMMA InvInit == Init => Inv
<1> SUFFICES ASSUME Init PROVE Inv
  OBVIOUS
<1>1. TypeOK /\ Reach
  BY TypeInit
<1>2. Attributable
  BY DEF Init, Attributable, AfterBaseline, AfterTransition, AfterCandidateStartup,
    AfterCandidateControl, Cutover
<1>3. Present
  BY DEF Init, Present, BaseAssigned, CandidateAssigned, Expected, BaseControls
<1>4. Timely
  BY DEF Init, Timely, VerdictNames
<1>5. FailAttributed
  BY DEF Init, FailAttributed, VerdictNames
<1>6. Decided
  BY DEF Init, Decided
<1> QED BY <1>1, <1>2, <1>3, <1>4, <1>5, <1>6 DEF Inv

\* One step keeps the invariant.
LEMMA InvStep == Inv /\ [Next]_vars => Inv'
<1> SUFFICES ASSUME Inv, [Next]_vars PROVE Inv'
  OBVIOUS
<1> USE DEF Inv
<1>1. TypeOK' /\ Reach'
  BY TypeStep
<1>2. Attributable' /\ Present' /\ Timely' /\ Decided'
  BY AttributableStep, PresentStep, TimelyStep, DecidedStep
<1>3. FailAttributed'
  BY GroundedStep DEF TypeOK
<1> QED BY <1>1, <1>2, <1>3

\* The invariant holds throughout every run.
THEOREM Invariance == Spec => []Inv
BY InvInit, InvStep, PTL DEF Spec

\* Hooks and scenarios always run against exactly the deployment their stage
\* is about.
THEOREM IsolationHolds == Spec => []Isolation
<1>1. Inv => Isolation
  BY DEF Inv, Reach, Present, Expected, Isolation, Deployed, ExecutePoints, Loop
<1> QED BY <1>1, Invariance, PTL

\* What is known of a base found lost is where the run has come to.
LEMMA LeftInit == Init => LeftAlone
BY DEF Init, LeftAlone, BaseLost, EvidenceBeside, VerdictNames

\* A run that found the base lost takes no evidence of it any more.
LEMMA LeftStep ==
  ASSUME TypeOK, Reach, LeftAlone, [Next]_vars
  PROVE  LeftAlone'
<1> USE DEF LeftAlone, BaseLost, EvidenceBeside, Passed, Reach, Loop, CheckBase, BaseControls,
  Enter, Advance, Successor, Establish, AfterCandidateStartup, AfterCandidateControl, Cutover,
  Closing, ExecutePoints
<1>1. CASE CreateSession \/ Prepare \/ BuildImages \/ StartSharedEnvironment
  BY <1>1 DEF CreateSession, Prepare, BuildImages, StartSharedEnvironment, evidence
<1>2. CASE LaunchHook \/ HookEnds
  BY <1>2 DEF LaunchHook, HookEnds, HookFailed, CandidateOnlyHooksFailed, RollbackHooksFailed,
    SetupHooksFailed, AddFailure, VerdictNames, evidence
<1>3. CASE HooksPass
  BY <1>3 DEF HooksPass
<1>4. CASE LaunchRole
  BY <1>4 DEF LaunchRole, StartFailed, AddFailure, VerdictNames, frame, evidence
<1>5. CASE AwaitReady
  BY <1>5 DEF AwaitReady, StartFailed, AddFailure, VerdictNames, frame
<1>6. CASE NextScenario
  BY <1>6 DEF NextScenario, Mark, evidence
<1>7. CASE StageSharedHealth
  BY <1>7 DEF StageSharedHealth, Mark
<1>8. CASE RunScenario
  BY <1>8 DEF RunScenario, Mark, AddFailure, VerdictNames, Classification, StageReason
<1>9. CASE StageInspect
  BY <1>9 DEF StageInspect, StageCheckFails, StageLost, Mark, AddFailure, VerdictNames,
    Classification
<1>10. CASE StageProbe
  BY <1>10 DEF StageProbe, StageCheckFails, StageLost, Mark, AddFailure, VerdictNames,
    Classification
<1>11. CASE CheckBaseShared
  BY <1>11 DEF CheckBaseShared, BaseCheckError
<1>12. CASE CheckBaseInspect
  BY <1>12 DEF CheckBaseInspect, BaseCheckError, BaseNotUsable, AddFailure, VerdictNames
<1>13. CASE CheckBaseProbe
  BY <1>13 DEF CheckBaseProbe, BaseUsable, BaseCheckError, BaseNotUsable, AddFailure,
    VerdictNames
<1>14. CASE BaselineEnds
  BY <1>14 DEF BaselineEnds
<1>15. CASE BaseControlEnds
  BY <1>15 DEF BaseControlEnds
<1>16. CASE CandidateControlEnds
  BY <1>16 DEF CandidateControlEnds
<1>17. CASE MixedControlEnds
  BY <1>17 DEF MixedControlEnds
<1>18. CASE CoexistenceEnds
  BY <1>18 DEF CoexistenceEnds
<1>19. CASE TrafficEnds \/ RollbackEnds
  BY <1>19 DEF TrafficEnds, RollbackEnds
<1>20. CASE BeginCoexistence
  BY <1>20 DEF BeginCoexistence, CoexistenceEligible, evidence, frame
<1>21. CASE StopBase \/ StopCandidate
  BY <1>21 DEF StopBase, StopCandidate
<1>22. CASE CandidateInspect \/ CandidateProbe \/ SkipTraffic
  BY <1>22 DEF CandidateInspect, CandidateProbe, CandidateHealth, SkipTraffic
<1>23. CASE Report \/ Clean \/ Publish \/ Verify
  BY <1>23 DEF Report, Clean, Publish, Verify, evidence
<1>24. CASE Recover
  BY <1>24 DEF Recover
<1>25. CASE Signal \/ SharedLost \/ ComponentLost \/ StrayEnds \/ UNCHANGED vars
  BY <1>25 DEF Signal, SharedLost, ComponentLost, StrayEnds, vars, frame, evidence
<1> QED BY Actions, <1>1, <1>2, <1>3, <1>4, <1>5, <1>6, <1>7, <1>8, <1>9,
  <1>10, <1>11, <1>12, <1>13, <1>14, <1>15, <1>16, <1>17, <1>18, <1>19, <1>20,
  <1>21, <1>22, <1>23, <1>24, <1>25

\* Every failed verdict rests on the evidence that makes it attributable, and
\* none on what a base found lost answers later.
THEOREM FailGroundedHolds == Spec => []FailGrounded
<1>1. Inv /\ LeftAlone => FailGrounded
  BY DEF Inv, LeftAlone, FailGrounded
<1>2. Inv /\ LeftAlone /\ [Next]_vars => LeftAlone'
  BY LeftStep DEF Inv
<1> QED BY <1>1, <1>2, LeftInit, Invariance, PTL DEF Spec

\* A direct failure decides the exit code whatever goes wrong after it.
THEOREM FailureWinsHolds == Spec => []FailureWins
<1>1. Inv => FailureWins
  BY DEF Inv, Decided, SomeFailure, FailureWins
<1> QED BY <1>1, Invariance, PTL

-----------------------------------------------------------------------------
\* Evidence is only ever added.
LEMMA EvidenceGrows ==
  ASSUME EvidenceOK, [Next]_vars
  PROVE  established \subseteq established'
         /\ \A v \in VerdictNames : failures[v] \subseteq failures'[v]
<1> USE DEF EvidenceOK, Establish, AddFailure
<1>1. CASE LaunchHook
  BY <1>1 DEF LaunchHook, HookFailed, CandidateOnlyHooksFailed,
    RollbackHooksFailed, SetupHooksFailed, evidence
<1>2. CASE HookEnds
  BY <1>2 DEF HookEnds, HookFailed, CandidateOnlyHooksFailed,
    RollbackHooksFailed, SetupHooksFailed
<1>3. CASE HooksPass
  BY <1>3 DEF HooksPass
<1>4. CASE LaunchRole
  BY <1>4 DEF LaunchRole, StartFailed, evidence
<1>5. CASE AwaitReady
  BY <1>5 DEF AwaitReady, StartFailed
<1>6. CASE RunScenario
  BY <1>6 DEF RunScenario
<1>7. CASE StageInspect
  BY <1>7 DEF StageInspect, StageCheckFails, StageLost
<1>8. CASE StageProbe
  BY <1>8 DEF StageProbe, StageCheckFails, StageLost
<1>9. CASE CheckBaseInspect
  BY <1>9 DEF CheckBaseInspect, BaseCheckError, BaseNotUsable
<1>10. CASE CheckBaseProbe
  BY <1>10 DEF CheckBaseProbe, BaseUsable, BaseNotUsable, BaseCheckError
<1>11. CASE BaselineEnds
  BY <1>11 DEF BaselineEnds
<1>12. CASE BaseControlEnds
  BY <1>12 DEF BaseControlEnds
<1>13. CASE CandidateControlEnds
  BY <1>13 DEF CandidateControlEnds
<1>14. CASE MixedControlEnds
  BY <1>14 DEF MixedControlEnds
<1>15. CASE CoexistenceEnds
  BY <1>15 DEF CoexistenceEnds
<1>16. CASE TrafficEnds
  BY <1>16 DEF TrafficEnds
<1>17. CASE RollbackEnds
  BY <1>17 DEF RollbackEnds
<1>18. CASE CandidateProbe
  BY <1>18 DEF CandidateProbe, CandidateHealth
<1>19. CASE CreateSession \/ Prepare \/ BuildImages \/
         StartSharedEnvironment \/ NextScenario \/ StageSharedHealth \/
         CheckBaseShared \/ BeginCoexistence \/ StopBase \/
         CandidateInspect \/ SkipTraffic \/ StopCandidate \/ Report \/
         Clean \/ Publish \/ Verify \/ Recover \/ Signal \/ SharedLost \/
         ComponentLost \/ StrayEnds
  BY <1>19 DEF CreateSession, Prepare, BuildImages, StartSharedEnvironment,
    NextScenario, StageSharedHealth, CheckBaseShared, BaseCheckError,
    BeginCoexistence, StopBase, CandidateInspect, CandidateHealth,
    SkipTraffic, StopCandidate, Report, Clean, Publish, Verify, Recover,
    Signal, SharedLost, ComponentLost, StrayEnds, evidence
<1>20. CASE UNCHANGED vars
  BY <1>20 DEF vars, evidence
<1> QED BY Actions, <1>1, <1>2, <1>3, <1>4, <1>5, <1>6, <1>7, <1>8, <1>9,
  <1>10, <1>11, <1>12, <1>13, <1>14, <1>15, <1>16, <1>17, <1>18, <1>19, <1>20

\* A stage that may still lose a component has completed neither phase.
LEMMA LostKeepsOut ==
  ASSUME EvidenceOK, Reach, Timely, NEW i, pc \in Loop, StageLost(i)
  PROVE  /\ "CoexistenceCompleted" \in established =>
              failures'["mixed"] = failures["mixed"]
         /\ "RollbackChecksCompleted" \in established =>
              failures'["rollback"] = failures["rollback"]
<1>1. "CoexistenceCompleted" \in established =>
        machine # "CANDIDATE_CONTROL" /\ "mixed" \notin Classification(machine)
  BY DEF Reach, Timely, Loop, Cutover, Closing, Classification
<1>2. "RollbackChecksCompleted" \in established => "rollback" \notin Classification(machine)
  BY DEF Reach, Timely, Loop, Closing, Classification
<1>3. \E vs \in {{"mixed"}, Classification(machine)} :
        /\ \E reason \in {"BASE_LOST_READINESS", "REQUIRED_COMPONENT_EXITED"} : AddFailure(vs, reason)
        /\ vs = Classification(machine) \/ machine = "CANDIDATE_CONTROL"
  BY DEF StageLost
<1>4. "rollback" \notin {"mixed"}
  OBVIOUS
<1> QED BY <1>1, <1>2, <1>3, <1>4 DEF AddFailure, EvidenceOK, VerdictNames

\* Once the last flag of a verdict is set no failure is recorded against it.
LEMMA PassedKeepsOut ==
  ASSUME EvidenceOK, Reach, Timely, [Next]_vars
  PROVE  /\ "CoexistenceCompleted" \in established =>
              failures'["mixed"] = failures["mixed"]
         /\ "RollbackChecksCompleted" \in established =>
              failures'["rollback"] = failures["rollback"]
<1> USE DEF EvidenceOK, Reach, Timely, Loop, CheckBase, BaseControls, Cutover,
  Closing, AddFailure, VerdictNames, Classification
<1>1. CASE LaunchHook
  BY <1>1 DEF LaunchHook, HookFailed, CandidateOnlyHooksFailed,
    RollbackHooksFailed, SetupHooksFailed, evidence
<1>2. CASE HookEnds
  <2>1. CASE UNCHANGED failures
    BY <2>1
  <2>2. ASSUME NEW result, HookFailed(result), pc = "hook"
        PROVE  /\ "CoexistenceCompleted" \in established =>
                    failures'["mixed"] = failures["mixed"]
               /\ "RollbackChecksCompleted" \in established =>
                    failures'["rollback"] = failures["rollback"]
    BY <2>2 DEF HookFailed, CandidateOnlyHooksFailed, RollbackHooksFailed,
      SetupHooksFailed
  <2> QED BY <1>2, <2>1, <2>2 DEF HookEnds
<1>3. CASE LaunchRole
  BY <1>3 DEF LaunchRole, StartFailed, evidence
<1>4. CASE AwaitReady
  BY <1>4 DEF AwaitReady, StartFailed
<1>5. CASE RunScenario
  BY <1>5 DEF RunScenario
<1>6. CASE StageInspect
  <2>1. UNCHANGED failures \/ (pc \in Loop /\ \E i \in Instances : StageLost(i))
    BY <1>6 DEF StageInspect, StageCheckFails
  <2> QED BY <2>1, LostKeepsOut
<1>7. CASE StageProbe
  <2>1. UNCHANGED failures \/ (pc \in Loop /\ \E i \in Instances : StageLost(i))
    BY <1>7 DEF StageProbe, StageCheckFails
  <2> QED BY <2>1, LostKeepsOut
<1>8. CASE CheckBaseInspect
  BY <1>8 DEF CheckBaseInspect, BaseCheckError, BaseNotUsable
<1>9. CASE CheckBaseProbe
  BY <1>9 DEF CheckBaseProbe, BaseUsable, BaseNotUsable, BaseCheckError
<1>10. CASE CreateSession \/ Prepare \/ BuildImages \/
         StartSharedEnvironment \/ HooksPass \/ NextScenario \/
         StageSharedHealth \/ CheckBaseShared \/ BaselineEnds \/
         BaseControlEnds \/ CandidateControlEnds \/ MixedControlEnds \/
         CoexistenceEnds \/ TrafficEnds \/ RollbackEnds \/
         BeginCoexistence \/ StopBase \/ CandidateInspect \/
         CandidateProbe \/ SkipTraffic \/ StopCandidate \/ Report \/
         Clean \/ Publish \/ Verify \/ Recover \/ Signal \/ SharedLost \/
         ComponentLost \/ StrayEnds
  BY ZenonT(30), <1>10 DEF CreateSession, Prepare, BuildImages, StartSharedEnvironment,
    HooksPass, NextScenario, StageSharedHealth, CheckBaseShared,
    BaseCheckError, BaselineEnds, BaseControlEnds, CandidateControlEnds,
    MixedControlEnds, CoexistenceEnds, TrafficEnds, RollbackEnds,
    BeginCoexistence, StopBase, CandidateInspect, CandidateHealth,
    CandidateProbe, SkipTraffic, StopCandidate, Report, Clean, Publish,
    Verify, Recover, Signal, SharedLost, ComponentLost, StrayEnds, evidence
<1>11. CASE UNCHANGED vars
  BY <1>11 DEF vars, evidence
<1> QED BY Actions, <1>1, <1>2, <1>3, <1>4, <1>5, <1>6, <1>7, <1>8, <1>9,
  <1>10, <1>11

\* The evidence of a run that is over does not change.
LEMMA OverIsOver ==
  ASSUME pc = "exited", [Next]_vars
  PROVE  UNCHANGED <<evidence, final, pc>>
<1> USE DEF ExecutePoints
<1>1. CASE Signal \/ SharedLost \/ ComponentLost \/ StrayEnds \/ Recover
  BY <1>1 DEF Signal, SharedLost, ComponentLost, StrayEnds, Recover
<1>2. CASE UNCHANGED vars
  BY <1>2 DEF vars
<1>3. CASE CreateSession \/ Prepare \/ BuildImages \/ StartSharedEnvironment \/ LaunchHook \/
         HookEnds \/ HooksPass \/ LaunchRole \/ AwaitReady \/ NextScenario
  BY <1>3 DEF CreateSession, Prepare, BuildImages, StartSharedEnvironment, LaunchHook,
    HookEnds, HooksPass, LaunchRole, AwaitReady, NextScenario
<1>4. CASE StageSharedHealth \/ RunScenario \/ StageInspect \/ StageProbe \/
         CheckBaseShared \/ CheckBaseInspect \/ CheckBaseProbe \/
         BaselineEnds \/ BaseControlEnds \/ CandidateControlEnds \/ MixedControlEnds
  BY <1>4 DEF StageSharedHealth, RunScenario, StageInspect, StageProbe, CheckBaseShared,
    CheckBaseInspect, CheckBaseProbe, BaselineEnds, BaseControlEnds, CandidateControlEnds,
    MixedControlEnds
<1>5. CASE CoexistenceEnds \/ TrafficEnds \/ RollbackEnds \/ BeginCoexistence \/ StopBase \/
         CandidateInspect \/ CandidateProbe \/ SkipTraffic \/ StopCandidate \/
         Report \/ Clean \/ Publish \/ Verify
  BY <1>5 DEF CoexistenceEnds, TrafficEnds, RollbackEnds, BeginCoexistence, StopBase,
    CandidateInspect, CandidateProbe, SkipTraffic, StopCandidate, Report, Clean, Publish, Verify
<1> QED BY Actions, <1>1, <1>2, <1>3, <1>4, <1>5

\* The summary's exit code is that of the evidence.
LEMMA CodedStep ==
  ASSUME Inv, Coded, [Next]_vars
  PROVE  Coded'
<1> USE DEF Coded, Enter, ExecutePoints, Loop, CheckBase
<1>1. CASE CreateSession
  <2>1. ~ SomeFailure
    BY <1>1 DEF CreateSession, Inv, Reach, Timely, SomeFailure, VerdictNames, AfterTransition,
      AfterCandidateStartup, AfterCandidateControl, Cutover, Closing
  <2> QED BY <1>1, <2>1 DEF CreateSession, evidence, SomeFailure
<1>2. CASE Publish
  BY <1>2 DEF Publish
<1>3. CASE Verify
  BY <1>3 DEF Verify
<1>4. CASE Signal \/ SharedLost \/ ComponentLost \/ StrayEnds
  BY <1>4 DEF Signal, SharedLost, ComponentLost, StrayEnds, evidence, final, SomeFailure
<1>5. CASE UNCHANGED vars
  BY <1>5 DEF vars, evidence, final, SomeFailure
<1>7. CASE Prepare \/ BuildImages \/ StartSharedEnvironment \/ LaunchHook \/
         HookEnds \/ HooksPass \/ LaunchRole \/ AwaitReady \/ NextScenario
  BY <1>7 DEF Prepare, BuildImages, final, StartSharedEnvironment, LaunchHook,
    HookFailed, CandidateOnlyHooksFailed, RollbackHooksFailed,
    SetupHooksFailed, evidence, HookEnds, HooksPass, LaunchRole, StartFailed,
    AwaitReady, NextScenario
<1>8. CASE StageSharedHealth \/ RunScenario \/ StageInspect \/ StageProbe \/
         CheckBaseShared \/ CheckBaseInspect \/ CheckBaseProbe \/
         BaselineEnds \/ BaseControlEnds
  BY <1>8 DEF StageSharedHealth, final, RunScenario, StageInspect,
    StageCheckFails, StageLost, StageProbe, CheckBaseShared, BaseCheckError,
    CheckBaseInspect, BaseNotUsable, CheckBaseProbe, BaseUsable, BaselineEnds,
    BaseControlEnds
<1>9. CASE CandidateControlEnds \/ MixedControlEnds \/ CoexistenceEnds \/
         TrafficEnds \/ RollbackEnds \/ BeginCoexistence \/ StopBase \/
         CandidateInspect \/ CandidateProbe
  BY <1>9 DEF CandidateControlEnds, final, MixedControlEnds, CoexistenceEnds,
    TrafficEnds, RollbackEnds, BeginCoexistence, evidence, StopBase,
    CandidateInspect, CandidateHealth, CandidateProbe
<1>10. CASE SkipTraffic \/ StopCandidate \/ Recover
  BY <1>10 DEF SkipTraffic, final, StopCandidate, Recover
<1>11. CASE Report \/ Clean
  BY <1>11 DEF Report, Clean
<1> QED BY Actions, <1>1, <1>2, <1>3, <1>4, <1>5, <1>7, <1>8, <1>9, <1>10, <1>11

\* The run ends in its check of the summary.
LEMMA ExitedByVerify ==
  ASSUME pc # "exited", ~ Verify, [Next]_vars
  PROVE  pc' # "exited"
<1> USE DEF Enter
<1>1. CASE Signal \/ SharedLost \/ ComponentLost \/ StrayEnds \/ Recover
  BY <1>1 DEF Signal, SharedLost, ComponentLost, StrayEnds, Recover
<1>2. CASE UNCHANGED vars
  BY <1>2 DEF vars
<1>3. CASE CreateSession \/ Prepare \/ BuildImages \/ StartSharedEnvironment \/ LaunchHook \/
         HookEnds \/ HooksPass
  BY <1>3 DEF CreateSession, Prepare, BuildImages, StartSharedEnvironment, LaunchHook,
    HookFailed, CandidateOnlyHooksFailed, RollbackHooksFailed, SetupHooksFailed, HookEnds, HooksPass
<1>4. CASE LaunchRole \/ AwaitReady \/ NextScenario \/ StageSharedHealth \/ RunScenario
         \/ StageInspect \/ StageProbe
  BY <1>4 DEF LaunchRole, StartFailed, AwaitReady, NextScenario, StageSharedHealth, RunScenario,
    StageInspect, StageCheckFails, StageLost, StageProbe
<1>5. CASE CheckBaseShared \/ CheckBaseInspect \/ CheckBaseProbe \/
         BaselineEnds \/ BaseControlEnds \/ CandidateControlEnds \/ MixedControlEnds
  BY <1>5 DEF CheckBaseShared, BaseCheckError, CheckBaseInspect, BaseNotUsable,
    CheckBaseProbe, BaseUsable, BaselineEnds, BaseControlEnds, CandidateControlEnds,
    MixedControlEnds
<1>6. CASE CoexistenceEnds \/ TrafficEnds \/ RollbackEnds \/ BeginCoexistence \/ StopBase \/
         CandidateInspect \/ CandidateProbe \/ SkipTraffic \/ StopCandidate
  BY <1>6 DEF CoexistenceEnds, TrafficEnds, RollbackEnds, BeginCoexistence, StopBase,
    CandidateInspect, CandidateHealth, CandidateProbe, SkipTraffic, StopCandidate
<1>7. CASE Report \/ Clean \/ Publish
  BY <1>7 DEF Report, Clean, Publish
<1> QED BY Actions, <1>1, <1>2, <1>3, <1>4, <1>5, <1>6, <1>7

\* The states in which the rollback verdict may be decided are entered with the
\* candidate still there, or by reporting.
LEMMA LateMachines ==
  ASSUME machine \notin Late, machine' \in Late, [Next]_vars
  PROVE  pc' = "stopCandidate" \/ Report
<1> USE DEF Enter, Advance, Successor, Late, Closing
<1>1. CASE Signal \/ SharedLost \/ ComponentLost \/ StrayEnds \/ Recover
  BY <1>1 DEF Signal, SharedLost, ComponentLost, StrayEnds, Recover
<1>2. CASE UNCHANGED vars
  BY <1>2 DEF vars
<1>3. CASE CreateSession \/ Prepare \/ BuildImages \/ StartSharedEnvironment \/ LaunchHook \/
         HookEnds \/ HooksPass
  BY <1>3 DEF CreateSession, Prepare, BuildImages, StartSharedEnvironment, LaunchHook,
    HookFailed, CandidateOnlyHooksFailed, RollbackHooksFailed, SetupHooksFailed, HookEnds, HooksPass
<1>4. CASE LaunchRole \/ AwaitReady \/ NextScenario \/ StageSharedHealth \/ RunScenario
         \/ StageInspect \/ StageProbe
  BY <1>4 DEF LaunchRole, StartFailed, AwaitReady, NextScenario, StageSharedHealth, RunScenario,
    StageInspect, StageCheckFails, StageLost, StageProbe
<1>5. CASE CheckBaseShared \/ CheckBaseInspect \/ CheckBaseProbe \/
         BaselineEnds \/ BaseControlEnds \/ CandidateControlEnds \/ MixedControlEnds
  BY <1>5 DEF CheckBaseShared, BaseCheckError, CheckBaseInspect, BaseNotUsable,
    CheckBaseProbe, BaseUsable, BaselineEnds, BaseControlEnds, CandidateControlEnds,
    MixedControlEnds
<1>6. CASE CoexistenceEnds \/ TrafficEnds \/ RollbackEnds \/ BeginCoexistence \/ StopBase \/
         CandidateInspect \/ CandidateProbe \/ SkipTraffic \/ StopCandidate
  BY <1>6 DEF CoexistenceEnds, TrafficEnds, RollbackEnds, BeginCoexistence, StopBase,
    CandidateInspect, CandidateHealth, CandidateProbe, SkipTraffic, StopCandidate
<1>7. CASE Report \/ Clean \/ Publish \/ Verify
  BY <1>7 DEF Report, Clean, Publish, Verify
<1> QED BY Actions, <1>1, <1>2, <1>3, <1>4, <1>5, <1>6, <1>7

\* From the rollback on nothing is evidence for or against the mixed verdict.
LEMMA MixedSettled ==
  ASSUME EvidenceOK, Reach, machine \in Late, [Next]_vars
  PROVE  failures'["mixed"] = failures["mixed"] /\ established' \intersect MixedChain \subseteq established
<1> USE DEF EvidenceOK, Reach, Late, Closing, Loop, CheckBase, BaseControls, AddFailure, Establish,
  VerdictNames, Classification, MixedChain
<1>1. CASE LaunchHook \/ HookEnds \/ HooksPass
  <2>1. ASSUME NEW result, HookFailed(result)
        PROVE  UNCHANGED established /\ failures'["mixed"] = failures["mixed"]
    BY <2>1 DEF HookFailed, CandidateOnlyHooksFailed, RollbackHooksFailed, SetupHooksFailed
  <2> QED BY <1>1, <2>1 DEF LaunchHook, HookEnds, HooksPass, evidence
<1>2. CASE LaunchRole \/ AwaitReady
  BY <1>2 DEF LaunchRole, AwaitReady, StartFailed, evidence
<1>3. CASE NextScenario \/ StageSharedHealth
  BY <1>3 DEF NextScenario, StageSharedHealth, evidence
<1>10. CASE RunScenario
  <2>1. machine = "ROLLBACK"
    BY <1>10 DEF RunScenario
  <2>2. PICK result : AddFailure({v \in Classification(machine) : result = "fail"}, StageReason(machine))
    BY <1>10 DEF RunScenario
  <2>3. established' \subseteq established \union {"CandidateMutationRan"}
    BY <1>10 DEF RunScenario
  <2>4. failures'["mixed"] = failures["mixed"]
    BY <2>1, <2>2
  <2> QED BY <2>3, <2>4
<1>4. CASE StageInspect \/ StageProbe
  <2>1. ASSUME NEW i, pc \in Loop, StageLost(i)
        PROVE  failures'["mixed"] = failures["mixed"]
    <3>1. machine = "ROLLBACK"
      BY <2>1
    <3>2. AddFailure(Classification(machine), "REQUIRED_COMPONENT_EXITED")
      BY ZenonT(30), <2>1, <3>1 DEF StageLost
    <3>3. "mixed" \notin Classification(machine)
      BY <3>1
    <3> QED BY <3>2, <3>3
  <2> QED BY <1>4, <2>1 DEF StageInspect, StageProbe, StageCheckFails
<1>5. CASE CheckBaseShared \/ CheckBaseInspect \/ CheckBaseProbe \/
         BaselineEnds \/ BaseControlEnds \/ CandidateControlEnds \/ MixedControlEnds
  BY <1>5 DEF CheckBaseShared, BaseCheckError, CheckBaseInspect, CheckBaseProbe,
    BaselineEnds, BaseControlEnds, CandidateControlEnds, MixedControlEnds
<1>6. CASE RollbackEnds
  BY <1>6 DEF RollbackEnds
<1>7. CASE CoexistenceEnds \/ TrafficEnds \/ BeginCoexistence \/ StopBase \/
         CandidateInspect \/ CandidateProbe \/ SkipTraffic \/ StopCandidate
  BY <1>7 DEF CoexistenceEnds, TrafficEnds, BeginCoexistence, StopBase,
    CandidateInspect, CandidateHealth, CandidateProbe, SkipTraffic, StopCandidate, evidence
<1>8. CASE CreateSession \/ Prepare \/ BuildImages \/ StartSharedEnvironment \/ Report \/ Clean
         \/ Publish \/ Verify \/ Recover
  BY <1>8 DEF CreateSession, Prepare, BuildImages, StartSharedEnvironment, Report, Clean,
    Publish, Verify, Recover, evidence
<1>9. CASE Signal \/ SharedLost \/ ComponentLost \/ StrayEnds \/ UNCHANGED vars
  BY <1>9 DEF Signal, SharedLost, ComponentLost, StrayEnds, vars, evidence
<1> QED BY Actions, <1>1, <1>2, <1>3, <1>4, <1>5, <1>6, <1>7, <1>8, <1>9, <1>10

\* Before the rollback its verdict is undecided.
LEMMA RollbackWaits ==
  ASSUME EvidenceOK, Timely, machine \notin Late
  PROVE  Status("rollback", established, failures) = "INCONCLUSIVE"
BY DEF Timely, Late, Closing, Status, Chain, RollbackChain

\* A step decides at most one verdict, and after the rollback verdict none.
LEMMA OneVerdict ==
  ASSUME Inv, Inv', [Next]_vars,
         Status("mixed", established', failures') # Status("mixed", established, failures)
  PROVE  /\ Status("rollback", established, failures) = "INCONCLUSIVE"
         /\ Status("rollback", established', failures') = "INCONCLUSIVE"
<1>1. established \subseteq established' /\ ~ Report
  BY EvidenceGrows DEF Inv, TypeOK, Report
<1>2. machine \notin Late
  <2>1. SUFFICES ASSUME machine \in Late PROVE FALSE
    OBVIOUS
  <2>2. failures'["mixed"] = failures["mixed"] /\ established' \intersect MixedChain \subseteq established
    BY <2>1, MixedSettled DEF Inv, TypeOK
  <2>3. MixedChain \subseteq established <=> MixedChain \subseteq established'
    BY <1>1, <2>2
  <2> QED BY <2>2, <2>3 DEF Status, Chain
<1>3. CASE machine' \notin Late
  <2>1. failures'["rollback"] = {} /\ "RollbackChecksCompleted" \notin established'
    BY <1>3 DEF Inv, Timely, Late, Closing
  <2>2. Status("rollback", established', failures') = "INCONCLUSIVE"
    BY <2>1 DEF Status, Chain, RollbackChain
  <2> QED BY <1>2, <2>2, RollbackWaits DEF Inv, TypeOK
<1>4. CASE machine' \in Late
  <2>1. pc' = "stopCandidate"
    BY <1>1, <1>2, <1>4, LateMachines
  <2>2. machine' = "ROLLBACK"
    BY <2>1 DEF Inv, Reach
  <2>3. failures'["rollback"] = {} /\ "RollbackChecksCompleted" \notin established'
    BY <2>1, <2>2 DEF Inv, Timely, Closing
  <2>4. Status("rollback", established', failures') = "INCONCLUSIVE"
    BY <2>3 DEF Status, Chain, RollbackChain
  <2> QED BY <1>2, <2>4, RollbackWaits DEF Inv, TypeOK
<1> QED BY <1>3, <1>4

\* A verdict that has passed or failed is not revised by the rest of the run.
LEMMA VerdictKept ==
  ASSUME Inv, [Next]_vars, NEW v \in VerdictNames,
         Status(v, established, failures) # "INCONCLUSIVE"
  PROVE  Status(v, established', failures') = Status(v, established, failures)
<1>1. established \subseteq established' /\ failures[v] \subseteq failures'[v]
  BY EvidenceGrows DEF Inv, TypeOK
<1>2. Chain(v) \subseteq established => failures'[v] = failures[v]
  BY PassedKeepsOut DEF Inv, TypeOK, Chain, MixedChain, RollbackChain, VerdictNames
<1> QED BY <1>1, <1>2 DEF Status

LEMMA ContractInit == Init => Contract!Init
<1> SUFFICES ASSUME Init PROVE Contract!Init
  OBVIOUS
<1>1. "CandidateStarted" \notin established /\ \A v \in VerdictNames : failures[v] = {}
  BY DEF Init
<1>2. \A v \in VerdictNames : Status(v, established, failures) = "INCONCLUSIVE"
  <2>1. \A v \in VerdictNames : "CandidateStarted" \in Chain(v)
    BY DEF Chain, MixedChain, RollbackChain
  <2> QED BY <1>1, <2>1 DEF Status
<1> QED BY <1>2 DEF Init, Contract!Init, Contract!Undecided, VerdictNames

LEMMA ContractStep ==
  ASSUME Inv, Coded, Inv', Coded', [Next]_vars
  PROVE  [Contract!Next]_(Contract!vars)
<1> DEFINE mixed == Status("mixed", established, failures)
           rollback == Status("rollback", established, failures)
           mixed2 == Status("mixed", established', failures')
           rollback2 == Status("rollback", established', failures')
<1>1. CASE pc = "exited"
  <2>1. established' = established /\ failures' = failures /\ exit' = exit
    BY <1>1, OverIsOver DEF evidence, final
  <2> QED BY <2>1 DEF Contract!vars
<1>2. CASE Verify
  <2>1. /\ established' = established /\ failures' = failures /\ pc = "verify"
        /\ exit' = IF code = 0 /\ runErr THEN 24 ELSE code
    BY <1>2 DEF Verify, evidence
  <2>2. exit = NoExit
    BY <2>1 DEF Coded
  <2>3. /\ mixed = "FAIL" <=> failures["mixed"] # {}
        /\ rollback = "FAIL" <=> failures["rollback"] # {}
    BY DEF Status
  <2>4. CASE code = 0 /\ runErr
    <3>1. exit' = 24 /\ ~ SomeFailure
      BY <2>1, <2>4 DEF Inv, Decided
    <3>2. mixed # "FAIL" /\ rollback # "FAIL"
      BY <2>3, <3>1 DEF SomeFailure, VerdictNames
    <3> QED BY <2>1, <2>2, <3>1, <3>2 DEF Contract!Next, Contract!Return
  <2>5. CASE ~ (code = 0 /\ runErr)
    <3>1. exit' = ExitCode(established, failures, errors)
      BY <2>1, <2>5 DEF Coded
    <3>2. /\ exit' \in {0, 10, 20, 23, 24, 25}
          /\ exit' = 10 <=> (mixed = "FAIL" \/ rollback = "FAIL")
          /\ exit' = 20 => (mixed = "INCONCLUSIVE" \/ rollback = "INCONCLUSIVE")
          /\ exit' = 0 => /\ mixed \notin {"FAIL", "INCONCLUSIVE"}
                          /\ rollback \notin {"FAIL", "INCONCLUSIVE"}
      BY <3>1 DEF ExitCode, VerdictNames
    <3>3. mixed \in Statuses /\ rollback \in Statuses
      BY DEF Status, Statuses
    <3> QED BY <2>1, <2>2, <3>2, <3>3 DEF Contract!Next, Contract!Return, Contract!Undecided, Statuses
  <2> QED BY <2>4, <2>5
<1>3. CASE pc # "exited" /\ ~ Verify
  <2>1. exit = NoExit /\ exit' = NoExit
    BY <1>3, ExitedByVerify DEF Coded
  <2>2. /\ mixed # "INCONCLUSIVE" => mixed2 = mixed
        /\ rollback # "INCONCLUSIVE" => rollback2 = rollback
    BY VerdictKept DEF VerdictNames
  <2>3. mixed2 # mixed => rollback = "INCONCLUSIVE" /\ rollback2 = "INCONCLUSIVE"
    BY OneVerdict
  <2>4. mixed2 \in {"PASS", "FAIL", "INCONCLUSIVE"} /\ rollback2 \in {"PASS", "FAIL", "INCONCLUSIVE"}
    BY DEF Status
  <2> QED BY <2>1, <2>2, <2>3, <2>4
    DEF Contract!Next, Contract!DecideMixed, Contract!DecideRollback, Contract!Undecided, Contract!vars
<1> QED BY <1>1, <1>2, <1>3

\* VerdictsFinal: the run implements its contract with the caller, for every
\* workload, hook configuration, readiness and set of faults.
THEOREM VerdictsFinalHolds == Spec => VerdictsFinal
<1>1. Init => Coded
  BY DEF Init, Coded
<1>2. Inv /\ Coded /\ [Next]_vars => Coded'
  BY CodedStep
<1>3. Inv /\ Coded /\ Inv' /\ Coded' /\ [Next]_vars => [Contract!Next]_(Contract!vars)
  BY ContractStep
<1> QED BY <1>1, <1>2, <1>3, ContractInit, Invariance, PTL DEF Spec, VerdictsFinal, Contract!Spec

\* After an interruption a step launches nothing.
LEMMA InterruptStep ==
  ASSUME canceled, [Next]_vars
  PROVE  /\ pc' \in {"run", "hook"} => pc' = pc
         /\ alive' \subseteq alive
<1>1. CASE CreateSession
  BY <1>1 DEF CreateSession, world
<1>2. CASE Prepare
  BY <1>2 DEF Prepare, Enter, world
<1>3. CASE BuildImages
  BY <1>3 DEF BuildImages, Enter, world
<1>4. CASE StartSharedEnvironment
  BY <1>4 DEF StartSharedEnvironment, Enter
<1>5. CASE LaunchHook
  BY <1>5 DEF LaunchHook, HookFailed, CandidateOnlyHooksFailed, Enter,
    RollbackHooksFailed, SetupHooksFailed, world
<1>6. CASE HookEnds
  BY <1>6 DEF HookEnds, HookFailed, CandidateOnlyHooksFailed, Enter,
    RollbackHooksFailed, SetupHooksFailed, world
<1>7. CASE HooksPass
  BY <1>7 DEF HooksPass, Enter, world
<1>8. CASE LaunchRole
  BY <1>8 DEF LaunchRole, StartFailed
<1>9. CASE AwaitReady
  BY <1>9 DEF AwaitReady, Enter, StartFailed, world
<1>10. CASE NextScenario
  BY <1>10 DEF NextScenario, world
<1>11. CASE StageSharedHealth
  BY <1>11 DEF StageSharedHealth, world, SharedHealthResults
<1>12. CASE RunScenario
  BY <1>12 DEF RunScenario, world
<1>13. CASE StageInspect
  BY <1>13 DEF StageInspect, StageCheckFails, world
<1>14. CASE StageProbe
  BY <1>14 DEF StageProbe, StageCheckFails, world
<1>15. CASE CheckBaseShared
  BY <1>15 DEF CheckBaseShared, BaseCheckError, world
<1>16. CASE CheckBaseInspect
  BY <1>16 DEF CheckBaseInspect, BaseCheckError, BaseNotUsable, Enter, world
<1>17. CASE CheckBaseProbe
  BY <1>17 DEF CheckBaseProbe, BaseUsable, BaseNotUsable, Enter,
    BaseCheckError, world
<1>18. CASE BaselineEnds
  BY <1>18 DEF BaselineEnds, Enter, world
<1>19. CASE BaseControlEnds
  BY <1>19 DEF BaseControlEnds, Enter, world
<1>20. CASE CandidateControlEnds
  BY <1>20 DEF CandidateControlEnds, Enter, world
<1>21. CASE MixedControlEnds
  BY <1>21 DEF MixedControlEnds, Enter, world
<1>22. CASE CoexistenceEnds
  BY <1>22 DEF CoexistenceEnds, world
<1>23. CASE TrafficEnds
  BY <1>23 DEF TrafficEnds, Enter, world
<1>24. CASE RollbackEnds
  BY <1>24 DEF RollbackEnds, world
<1>25. CASE BeginCoexistence
  BY <1>25 DEF BeginCoexistence, world
<1>26. CASE StopBase
  BY <1>26 DEF StopBase, Enter, Stop
<1>27. CASE CandidateInspect
  BY <1>27 DEF CandidateInspect, CandidateHealth, Enter, world
<1>28. CASE CandidateProbe
  BY <1>28 DEF CandidateProbe, Enter, CandidateHealth, world
<1>29. CASE SkipTraffic
  BY <1>29 DEF SkipTraffic, Enter, world
<1>30. CASE StopCandidate
  BY <1>30 DEF StopCandidate, Stop
<1>31. CASE Report
  BY <1>31 DEF Report, world
<1>32. CASE Clean
  BY <1>32 DEF Clean
<1>33. CASE Publish
  BY <1>33 DEF Publish, world
<1>34. CASE Verify
  BY <1>34 DEF Verify, world
<1>35. CASE Recover
  BY <1>35 DEF Recover, world
<1>36. CASE ComponentLost \/ StrayEnds
  BY <1>36 DEF ComponentLost, StrayEnds
<1>37. CASE Signal \/ SharedLost
  BY <1>37 DEF Signal, SharedLost
<1>38. CASE UNCHANGED vars
  BY <1>38 DEF vars, world
<1> QED BY Actions, <1>1, <1>2, <1>3, <1>4, <1>5, <1>6, <1>7, <1>8, <1>9,
  <1>10, <1>11, <1>12, <1>13, <1>14, <1>15, <1>16, <1>17, <1>18, <1>19, <1>20,
  <1>21, <1>22, <1>23, <1>24, <1>25, <1>26, <1>27, <1>28, <1>29, <1>30, <1>31,
  <1>32, <1>33, <1>34, <1>35, <1>36, <1>37, <1>38

\* After an interruption no command and no container is started.
THEOREM InterruptStopsLaunchesHolds == Spec => InterruptStopsLaunches
<1>1. [Next]_vars =>
        [canceled => /\ pc' \in {"run", "hook"} => pc' = pc
                     /\ alive' \subseteq alive]_vars
  BY InterruptStep
<1> QED BY <1>1, PTL DEF Spec, InterruptStopsLaunches

-----------------------------------------------------------------------------
(***************************************************************************)
(* What the record of a run and the reasons of its verdicts owe to the     *)
(* evidence: the parts FullInv adds to Inv.                                *)
(***************************************************************************)

\* The marks of a stage keep what they stand for.
LEMMA ScoredStep ==
  ASSUME TypeOK, Reach, Scored, [Next]_vars
  PROVE  Scored'
<1> USE DEF Scored, Reach, ExecutePoints, Loop, CheckBase, BaseControls,
  Advance, Enter, Successor, ResetFrame, Mark, Records, Classification,
  AddFailure, TypeOK, PlaceOK, EvidenceOK, VerdictNames
<1>1. CASE CreateSession
  BY <1>1 DEF CreateSession, world, frame, evidence
<1>2. CASE Prepare
  BY <1>2 DEF Prepare, world, frame
<1>3. CASE BuildImages
  BY <1>3 DEF BuildImages, world, frame
<1>4. CASE StartSharedEnvironment
  BY <1>4 DEF StartSharedEnvironment, frame
<1>5. CASE LaunchHook
  BY <1>5 DEF LaunchHook, HookFailed, CandidateOnlyHooksFailed,
    RollbackHooksFailed, SetupHooksFailed, world, frame, evidence
<1>6. CASE HookEnds
  BY <1>6 DEF HookEnds, HookFailed, CandidateOnlyHooksFailed,
    RollbackHooksFailed, SetupHooksFailed, world, frame
<1>7. CASE HooksPass
  BY <1>7 DEF HooksPass, world
<1>8. CASE LaunchRole
  BY <1>8 DEF LaunchRole, StartFailed, frame, evidence
<1>9. CASE AwaitReady
  BY <1>9 DEF AwaitReady, StartFailed, world, frame
<1>10. CASE NextScenario
  BY <1>10 DEF NextScenario, world, evidence
<1>11. CASE StageSharedHealth
  BY <1>11 DEF StageSharedHealth, world
<1>12. CASE RunScenario
  BY <1>12, Readings DEF RunScenario, MayReturn, ScenarioResults, world
<1>13. CASE StageInspect
  BY <1>13 DEF StageInspect, StageCheckFails, StageLost, world
<1>14. CASE StageProbe
  <2>1. CASE StageCheckFails(base) \/ StageCheckFails(candidate) \/ StageCheckFails("error")
    BY <1>14, <2>1 DEF StageProbe, StageCheckFails, StageLost, world
  <2>2. CASE pc' = "begin" /\ UNCHANGED <<marks, failures, errors>>
    BY <1>14, <2>2 DEF StageProbe, world
  <2> QED BY <1>14, <2>1, <2>2 DEF StageProbe, ProbeResults, allInstances
<1>15. CASE CheckBaseShared
  BY <1>15 DEF CheckBaseShared, BaseCheckError, world, frame
<1>16. CASE CheckBaseInspect
  BY <1>16 DEF CheckBaseInspect, BaseCheckError, BaseNotUsable, world, frame
<1>17. CASE CheckBaseProbe
  BY <1>17 DEF CheckBaseProbe, BaseUsable, BaseNotUsable, BaseCheckError,
    world, frame
<1>18. CASE BaselineEnds
  BY <1>18 DEF BaselineEnds, world
<1>19. CASE BaseControlEnds
  BY <1>19 DEF BaseControlEnds, world
<1>20. CASE CandidateControlEnds
  BY <1>20 DEF CandidateControlEnds, world
<1>21. CASE MixedControlEnds
  BY <1>21 DEF MixedControlEnds, world
<1>22. CASE CoexistenceEnds
  BY <1>22 DEF CoexistenceEnds, world
<1>23. CASE TrafficEnds
  BY <1>23 DEF TrafficEnds, world
<1>24. CASE RollbackEnds
  BY <1>24 DEF RollbackEnds, world
<1>25. CASE BeginCoexistence
  BY <1>25 DEF BeginCoexistence, world, frame, evidence
<1>26. CASE StopBase
  BY <1>26 DEF StopBase, frame
<1>27. CASE CandidateInspect
  BY <1>27 DEF CandidateInspect, CandidateHealth, world, frame
<1>28. CASE CandidateProbe
  BY <1>28 DEF CandidateProbe, CandidateHealth, world, frame
<1>29. CASE SkipTraffic
  BY <1>29 DEF SkipTraffic, world, frame
<1>30. CASE StopCandidate
  BY <1>30 DEF StopCandidate, frame
<1>31. CASE Report
  BY <1>31 DEF Report, world, frame
<1>32. CASE Clean
  BY <1>32 DEF Clean, frame
<1>33. CASE Publish
  BY <1>33 DEF Publish, world, frame
<1>34. CASE Verify
  BY <1>34 DEF Verify, world, frame, evidence
<1>35. CASE Recover
  BY <1>35 DEF Recover, world, frame
<1>36. CASE Signal
  BY <1>36 DEF Signal, frame, evidence
<1>37. CASE SharedLost
  BY <1>37 DEF SharedLost, frame, evidence
<1>38. CASE ComponentLost
  BY <1>38 DEF ComponentLost, frame, evidence
<1>39. CASE StrayEnds
  BY <1>39 DEF StrayEnds, frame, evidence
<1>40. CASE UNCHANGED vars
  BY <1>40 DEF vars, world, frame, evidence
<1> QED BY Actions, <1>1, <1>2, <1>3, <1>4, <1>5, <1>6, <1>7, <1>8, <1>9,
  <1>10, <1>11, <1>12, <1>13, <1>14, <1>15, <1>16, <1>17, <1>18, <1>19, <1>20,
  <1>21, <1>22, <1>23, <1>24, <1>25, <1>26, <1>27, <1>28, <1>29, <1>30, <1>31,
  <1>32, <1>33, <1>34, <1>35, <1>36, <1>37, <1>38, <1>39, <1>40

\* A base that is not usable has failed.
LEMMA UsableStep ==
  ASSUME TypeOK, Reach, UsableOK, [Next]_vars
  PROVE  UsableOK'
<1> USE DEF UsableOK, Reach, Loop, CheckBase, BaseControls, Advance, Enter,
  Successor, BaseChecked, TypeOK, PlaceOK
<1>0. failures["mixed"] # {} => failures'["mixed"] # {}
  BY EvidenceGrows DEF TypeOK, VerdictNames
<1> USE <1>0
<1>1. CASE CreateSession
  BY <1>1 DEF CreateSession
<1>2. CASE Prepare
  BY <1>2 DEF Prepare
<1>3. CASE BuildImages
  BY <1>3 DEF BuildImages
<1>4. CASE StartSharedEnvironment
  BY <1>4 DEF StartSharedEnvironment
<1>5. CASE LaunchHook
  BY <1>5 DEF LaunchHook, HookFailed, CandidateOnlyHooksFailed,
    RollbackHooksFailed, SetupHooksFailed
<1>6. CASE HookEnds
  BY <1>6 DEF HookEnds, HookFailed, CandidateOnlyHooksFailed,
    RollbackHooksFailed, SetupHooksFailed
<1>7. CASE HooksPass
  BY <1>7 DEF HooksPass
<1>8. CASE LaunchRole
  BY <1>8 DEF LaunchRole, StartFailed
<1>9. CASE AwaitReady
  BY <1>9 DEF AwaitReady, StartFailed
<1>10. CASE NextScenario
  BY <1>10 DEF NextScenario
<1>11. CASE StageSharedHealth
  BY <1>11 DEF StageSharedHealth
<1>12. CASE RunScenario
  BY <1>12 DEF RunScenario
<1>13. CASE StageInspect
  BY <1>13 DEF StageInspect, StageCheckFails, StageLost
<1>14. CASE StageProbe
  BY <1>14 DEF StageProbe, StageCheckFails, StageLost
<1>15. CASE CheckBaseShared
  BY <1>15 DEF CheckBaseShared, BaseCheckError
<1>16. CASE CheckBaseInspect
  BY <1>16 DEF CheckBaseInspect, BaseCheckError, BaseNotUsable, AddFailure,
    VerdictNames, EvidenceOK
<1>17. CASE CheckBaseProbe
  BY <1>17 DEF CheckBaseProbe, BaseUsable, BaseNotUsable, BaseCheckError,
    AddFailure, VerdictNames, EvidenceOK
<1>18. CASE BaselineEnds
  BY <1>18 DEF BaselineEnds
<1>19. CASE BaseControlEnds
  BY <1>19 DEF BaseControlEnds
<1>20. CASE CandidateControlEnds
  BY <1>20 DEF CandidateControlEnds
<1>21. CASE MixedControlEnds
  BY <1>21 DEF MixedControlEnds
<1>22. CASE CoexistenceEnds
  BY <1>22 DEF CoexistenceEnds
<1>23. CASE TrafficEnds
  BY <1>23 DEF TrafficEnds
<1>24. CASE RollbackEnds
  BY <1>24 DEF RollbackEnds
<1>25. CASE BeginCoexistence
  BY <1>25 DEF BeginCoexistence
<1>26. CASE StopBase
  BY <1>26 DEF StopBase
<1>27. CASE CandidateInspect
  BY <1>27 DEF CandidateInspect, CandidateHealth
<1>28. CASE CandidateProbe
  BY <1>28 DEF CandidateProbe, CandidateHealth
<1>29. CASE SkipTraffic
  BY <1>29 DEF SkipTraffic
<1>30. CASE StopCandidate
  BY <1>30 DEF StopCandidate
<1>31. CASE Report
  BY <1>31 DEF Report
<1>32. CASE Clean
  BY <1>32 DEF Clean
<1>33. CASE Publish
  BY <1>33 DEF Publish
<1>34. CASE Verify
  BY <1>34 DEF Verify
<1>35. CASE Recover
  BY <1>35 DEF Recover
<1>36. CASE Signal
  BY <1>36 DEF Signal, frame
<1>37. CASE SharedLost
  BY <1>37 DEF SharedLost
<1>38. CASE ComponentLost
  BY <1>38 DEF ComponentLost
<1>39. CASE StrayEnds
  BY <1>39 DEF StrayEnds
<1>40. CASE UNCHANGED vars
  BY <1>40 DEF vars
<1> QED BY Actions, <1>1, <1>2, <1>3, <1>4, <1>5, <1>6, <1>7, <1>8, <1>9,
  <1>10, <1>11, <1>12, <1>13, <1>14, <1>15, <1>16, <1>17, <1>18, <1>19, <1>20,
  <1>21, <1>22, <1>23, <1>24, <1>25, <1>26, <1>27, <1>28, <1>29, <1>30, <1>31,
  <1>32, <1>33, <1>34, <1>35, <1>36, <1>37, <1>38, <1>39, <1>40

\* So are the reasons not to pass.
LEMMA UncertaintyGrows ==
  ASSUME EvidenceOK, [Next]_vars
  PROVE  \A v \in VerdictNames : uncertainty[v] \subseteq uncertainty'[v]
<1> USE DEF AddUncertainty, Doubt, EvidenceOK
<1>1. CASE BuildImages
  BY <1>1 DEF BuildImages
<1>2. CASE StartSharedEnvironment
  BY <1>2 DEF StartSharedEnvironment
<1>3. CASE LaunchHook
  BY <1>3 DEF LaunchHook, HookFailed, CandidateOnlyHooksFailed,
    RollbackHooksFailed, SetupHooksFailed, evidence
<1>4. CASE HookEnds
  BY <1>4 DEF HookEnds, HookFailed, CandidateOnlyHooksFailed,
    RollbackHooksFailed, SetupHooksFailed
<1>5. CASE LaunchRole
  BY <1>5 DEF LaunchRole, StartFailed, evidence
<1>6. CASE AwaitReady
  BY <1>6 DEF AwaitReady, StartFailed
<1>7. CASE CheckBaseShared
  BY <1>7 DEF CheckBaseShared, BaseCheckError
<1>8. CASE CheckBaseInspect
  BY <1>8 DEF CheckBaseInspect, BaseCheckError, BaseNotUsable
<1>9. CASE CheckBaseProbe
  BY <1>9 DEF CheckBaseProbe, BaseUsable, BaseNotUsable, BaseCheckError
<1>10. CASE BaselineEnds
  BY <1>10 DEF BaselineEnds
<1>11. CASE BaseControlEnds
  BY <1>11 DEF BaseControlEnds
<1>12. CASE CandidateControlEnds
  BY <1>12 DEF CandidateControlEnds
<1>13. CASE MixedControlEnds
  BY <1>13 DEF MixedControlEnds
<1>14. CASE CoexistenceEnds
  BY <1>14 DEF CoexistenceEnds
<1>15. CASE TrafficEnds
  BY <1>15 DEF TrafficEnds
<1>16. CASE RollbackEnds
  BY <1>16 DEF RollbackEnds
<1>17. CASE StopBase
  BY <1>17 DEF StopBase
<1>18. CASE CandidateInspect
  BY <1>18 DEF CandidateInspect, CandidateHealth
<1>19. CASE CandidateProbe
  BY <1>19 DEF CandidateProbe, CandidateHealth
<1>20. CASE StopCandidate
  BY <1>20 DEF StopCandidate
<1>21. CASE Report
  BY <1>21 DEF Report
<1>22. CASE CreateSession \/ Prepare \/ HooksPass \/ NextScenario \/
         StageSharedHealth \/ RunScenario \/ StageInspect \/ StageProbe \/
         BeginCoexistence \/ SkipTraffic \/ Clean \/ Publish \/ Verify \/
         Recover \/ Signal \/ SharedLost \/ ComponentLost \/ StrayEnds \/
         UNCHANGED vars
  BY <1>22 DEF CreateSession, evidence, Prepare, HooksPass, NextScenario,
    StageSharedHealth, RunScenario, StageInspect, StageCheckFails, StageLost,
    StageProbe, BeginCoexistence, SkipTraffic, Clean, Publish, Verify,
    Recover, Signal, SharedLost, ComponentLost, StrayEnds, vars
<1> QED BY Actions, <1>1, <1>2, <1>3, <1>4, <1>5, <1>6, <1>7, <1>8, <1>9,
  <1>10, <1>11, <1>12, <1>13, <1>14, <1>15, <1>16, <1>17, <1>18, <1>19, <1>20,
  <1>21, <1>22

\* A reason not to pass stays one, and so does a part of a chain.
LEMMA OpenStays ==
  ASSUME EvidenceOK, [Next]_vars, NEW v \in VerdictNames, NEW flags, Open(v, flags)
  PROVE  Open(v, flags)'
BY EvidenceGrows, UncertaintyGrows DEF Open, Explained

\* The points of a run keep what they say of both verdicts.
LEMMA PointsAnswer ==
  ASSUME TypeOK, Reach, Attributable, Timely, UsableOK, Scored, Answerable,
         [Next]_vars, pc' \in ExecutePoints, ~ canceled', ~ runErr'
  PROVE  OpenMixed' /\ OpenRollback'
<1> USE DEF Answerable, OpenMixed, OpenRollback, Open, Explained, Scored,
  UsableOK, Timely, Reach, ExecutePoints, Loop, CheckBase, BaseControls,
  Advance, Enter, Successor, BaseChecked, Cutover, Closing, AfterTransition,
  AfterCandidateStartup, AfterCandidateControl, AddUncertainty, AddFailure,
  NotFailed, Establish, VerdictNames, TypeOK, PlaceOK, EvidenceOK,
  Classification, Doubt, Passed, OperationalOnly
<1>1. CASE LaunchHook
  BY <1>1 DEF LaunchHook, HookFailed, CandidateOnlyHooksFailed,
    RollbackHooksFailed, SetupHooksFailed, world, frame, evidence, final
<1>2. CASE HookEnds
  <2>1. CASE \E result \in DockerCommandResults \ {"pass"} : HookFailed(result)
    BY <1>2, <2>1 DEF HookEnds, HookFailed, CandidateOnlyHooksFailed,
      RollbackHooksFailed, SetupHooksFailed, final
  <2>2. CASE pc' = "hooks" /\ UNCHANGED <<machine, world, established, failures, uncertainty, runErr>>
    BY <1>2, <2>2 DEF HookEnds, world
  <2> QED BY <1>2, <2>1, <2>2 DEF HookEnds, final
<1>3. CASE HooksPass
  BY <1>3 DEF HooksPass, world, final
<1>4. CASE LaunchRole
  BY <1>4 DEF LaunchRole, StartFailed, frame, evidence, final
<1>5. CASE AwaitReady
  BY <1>5 DEF AwaitReady, StartFailed, world, frame, final
<1>6. CASE NextScenario
  BY <1>6 DEF NextScenario, world, evidence, final
<1>7. CASE StageSharedHealth
  BY <1>7 DEF StageSharedHealth, world, final
<1>8. CASE RunScenario
  BY <1>8 DEF RunScenario, world, final
<1>9. CASE StageInspect
  BY <1>9 DEF StageInspect, StageCheckFails, StageLost, world, final
<1>10. CASE StageProbe
  BY <1>10 DEF StageProbe, StageCheckFails, StageLost, world, final
<1>11. CASE CheckBaseShared
  BY <1>11 DEF CheckBaseShared, BaseCheckError, world, frame, final
<1>12. CASE CheckBaseInspect
  BY <1>12 DEF CheckBaseInspect, BaseCheckError, BaseNotUsable, world, frame,
    final
<1>13. CASE CheckBaseProbe
  BY <1>13 DEF CheckBaseProbe, BaseUsable, BaseNotUsable, BaseCheckError,
    world, frame, final
<1>14. CASE BaselineEnds
  BY <1>14 DEF BaselineEnds, world, final
<1>15. CASE BaseControlEnds
  BY <1>15 DEF BaseControlEnds, world, final
<1>16. CASE CandidateControlEnds
  BY <1>16 DEF CandidateControlEnds, world, final
<1>17. CASE MixedControlEnds
  BY <1>17 DEF MixedControlEnds, world, final
<1>18. CASE CoexistenceEnds
  BY <1>18 DEF CoexistenceEnds, world, final
<1>19. CASE TrafficEnds
  BY <1>19 DEF TrafficEnds, world, final
<1>20. CASE RollbackEnds
  BY <1>20 DEF RollbackEnds, world, final
<1>21. CASE BeginCoexistence
  BY <1>21 DEF BeginCoexistence, world, frame, evidence, final,
    CoexistenceEligible, Attributable, AfterBaseline
<1>22. CASE StopBase
  BY <1>22 DEF StopBase, frame, final
<1>23. CASE CandidateInspect
  BY <1>23 DEF CandidateInspect, CandidateHealth, world, frame, final
<1>24. CASE CandidateProbe
  BY <1>24 DEF CandidateProbe, CandidateHealth, world, frame, final
<1>25. CASE SkipTraffic
  BY <1>25 DEF SkipTraffic, world, frame, final
<1>26. CASE StopCandidate
  BY <1>26 DEF StopCandidate, frame, final
<1>27. CASE Signal
  BY <1>27 DEF Signal, frame, evidence, final
<1>28. CASE SharedLost
  BY <1>28 DEF SharedLost, frame, evidence, final
<1>29. CASE ComponentLost
  BY <1>29 DEF ComponentLost, frame, evidence, final
<1>30. CASE StrayEnds
  BY <1>30 DEF StrayEnds, frame, evidence, final
<1>31. CASE UNCHANGED vars
  BY <1>31 DEF vars, world, frame, evidence, final
<1>32. CASE Prepare
  BY <1>32 DEF Prepare, world, evidence, frame
<1>33. CASE BuildImages
  BY <1>33 DEF BuildImages, world, frame, final
<1>34. CASE StartSharedEnvironment
  BY <1>34 DEF StartSharedEnvironment, frame, final
<1>35. CASE CreateSession \/ Report \/ Clean \/ Publish \/ Verify \/ Recover
  BY <1>35 DEF CreateSession, Report, Clean, Publish, Verify, Recover
<1> QED BY Actions, <1>1, <1>2, <1>3, <1>4, <1>5, <1>6, <1>7, <1>8, <1>9,
  <1>10, <1>11, <1>12, <1>13, <1>14, <1>15, <1>16, <1>17, <1>18, <1>19, <1>20,
  <1>21, <1>22, <1>23, <1>24, <1>25, <1>26, <1>27, <1>28, <1>29, <1>30, <1>31,
  <1>32, <1>33, <1>34, <1>35

\* An error or interruption aside, a run that reports has closed both verdicts.
LEMMA ReportAnswers ==
  ASSUME TypeOK, Reach, Attributable, Timely, UsableOK, Scored, Answerable,
         [Next]_vars, pc' = "report", ~ canceled', ~ runErr'
  PROVE  \A v \in VerdictNames : Open(v, Chain(v))'
<1> USE DEF Answerable, OpenMixed, OpenRollback, Open, Explained, Scored,
  Attributable, Reach, ExecutePoints, Loop, CheckBase, BaseControls, Advance,
  Enter, Successor, BaseChecked, Cutover, AfterBaseline, AfterTransition,
  AfterCandidateStartup, AfterCandidateControl, AddUncertainty, AddFailure,
  NotFailed, Establish, VerdictNames, TypeOK, PlaceOK, EvidenceOK, Chain,
  MixedChain, RollbackChain, Classification, Doubt, Passed, OperationalOnly
<1>1. CASE Prepare
  BY <1>1 DEF Prepare, world, frame
<1>2. CASE BuildImages
  BY <1>2 DEF BuildImages, world, frame, final
<1>3. CASE StartSharedEnvironment
  BY <1>3 DEF StartSharedEnvironment, frame, final
<1>4. CASE LaunchHook
  BY <1>4 DEF LaunchHook, HookFailed, CandidateOnlyHooksFailed,
    RollbackHooksFailed, SetupHooksFailed, world, frame, evidence, final
<1>5. CASE HookEnds
  BY <1>5 DEF HookEnds, HookFailed, CandidateOnlyHooksFailed,
    RollbackHooksFailed, SetupHooksFailed, world, frame, final
<1>6. CASE LaunchRole
  BY <1>6 DEF LaunchRole, StartFailed, frame, evidence, final
<1>7. CASE AwaitReady
  BY <1>7 DEF AwaitReady, StartFailed, world, frame, final
<1>8. CASE CheckBaseShared
  BY <1>8 DEF CheckBaseShared, BaseCheckError, world, frame, final
<1>9. CASE CheckBaseInspect
  BY <1>9 DEF CheckBaseInspect, BaseCheckError, BaseNotUsable, world, frame,
    final
<1>10. CASE CheckBaseProbe
  BY <1>10 DEF CheckBaseProbe, BaseUsable, BaseNotUsable, BaseCheckError,
    world, frame, final
<1>11. CASE BaselineEnds
  BY <1>11 DEF BaselineEnds, world, final
<1>12. CASE BaseControlEnds
  BY <1>12 DEF BaseControlEnds, world, final
<1>13. CASE CandidateControlEnds
  BY <1>13 DEF CandidateControlEnds, world, final
<1>14. CASE MixedControlEnds
  BY <1>14 DEF MixedControlEnds, world, final
<1>15. CASE CoexistenceEnds
  BY <1>15 DEF CoexistenceEnds, world, final
<1>16. CASE TrafficEnds
  BY <1>16 DEF TrafficEnds, world, final
<1>17. CASE RollbackEnds
  BY <1>17 DEF RollbackEnds, world, final
<1>18. CASE StopBase
  BY <1>18 DEF StopBase, frame, final
<1>19. CASE StopCandidate
  BY <1>19 DEF StopCandidate, frame, final
<1>20. CASE Recover
  BY <1>20 DEF Recover, world, frame
<1>21. CASE Signal
  BY <1>21 DEF Signal, frame, evidence, final
<1>22. CASE SharedLost
  BY <1>22 DEF SharedLost, frame, evidence, final
<1>23. CASE ComponentLost
  BY <1>23 DEF ComponentLost, frame, evidence, final
<1>24. CASE StrayEnds
  BY <1>24 DEF StrayEnds, frame, evidence, final
<1>25. CASE UNCHANGED vars
  BY <1>25 DEF vars, world, frame, evidence, final
<1>26. CASE CreateSession \/ HooksPass \/ NextScenario \/ StageSharedHealth
         \/ RunScenario
  BY <1>26 DEF CreateSession, world, frame, evidence, HooksPass, final,
    NextScenario, StageSharedHealth, RunScenario
<1>27. CASE StageInspect \/ StageProbe \/ BeginCoexistence \/
         CandidateInspect \/ CandidateProbe
  BY <1>27 DEF StageInspect, StageCheckFails, StageLost, world, final,
    StageProbe, BeginCoexistence, frame, evidence, CandidateInspect,
    CandidateHealth, CandidateProbe
<1>28. CASE SkipTraffic \/ Report \/ Clean \/ Publish \/ Verify
  BY <1>28 DEF SkipTraffic, world, frame, final, Report, Clean, Publish,
    Verify, evidence
<1> QED BY Actions, <1>1, <1>2, <1>3, <1>4, <1>5, <1>6, <1>7, <1>8, <1>9,
  <1>10, <1>11, <1>12, <1>13, <1>14, <1>15, <1>16, <1>17, <1>18, <1>19, <1>20,
  <1>21, <1>22, <1>23, <1>24, <1>25, <1>26, <1>27, <1>28

\* Only reporting and cleaning lead to the points after the run.
LEMMA LateSteps ==
  ASSUME [Next]_vars, pc' \in {"clean", "publish"}
  PROVE  Report \/ Clean \/ pc \in {"clean", "publish"}
<1> USE DEF Enter, ExecutePoints
<1>1. CASE Report
  BY <1>1
<1>2. CASE Clean
  BY <1>2
<1>3. CASE Signal
  BY <1>3 DEF Signal, evidence
<1>4. CASE StrayEnds
  BY <1>4 DEF StrayEnds, evidence
<1>5. CASE UNCHANGED vars
  BY <1>5 DEF vars, evidence
<1>6. CASE CreateSession \/ Prepare \/ BuildImages \/ StartSharedEnvironment
         \/ LaunchHook \/ HookEnds \/ HooksPass
  BY <1>6 DEF CreateSession, evidence, Prepare, BuildImages,
    StartSharedEnvironment, LaunchHook, HookFailed, CandidateOnlyHooksFailed,
    RollbackHooksFailed, SetupHooksFailed, HookEnds, HooksPass
<1>7. CASE LaunchRole \/ AwaitReady \/ NextScenario \/ StageSharedHealth \/
         RunScenario \/ StageInspect \/ StageProbe
  BY <1>7 DEF LaunchRole, StartFailed, evidence, AwaitReady, NextScenario,
    StageSharedHealth, RunScenario, StageInspect, StageCheckFails, StageLost,
    StageProbe
<1>8. CASE CheckBaseShared \/ CheckBaseInspect \/ CheckBaseProbe \/
         BaselineEnds \/ BaseControlEnds \/ CandidateControlEnds \/
         MixedControlEnds
  BY <1>8 DEF CheckBaseShared, BaseCheckError, CheckBaseInspect,
    BaseNotUsable, CheckBaseProbe, BaseUsable, BaselineEnds, BaseControlEnds,
    CandidateControlEnds, MixedControlEnds
<1>9. CASE CoexistenceEnds \/ TrafficEnds \/ RollbackEnds \/
         BeginCoexistence \/ StopBase \/ CandidateInspect \/ CandidateProbe
  BY <1>9 DEF CoexistenceEnds, TrafficEnds, RollbackEnds, BeginCoexistence,
    evidence, StopBase, CandidateInspect, CandidateHealth, CandidateProbe
<1>10. CASE SkipTraffic \/ StopCandidate \/ Publish \/ Verify \/ Recover \/
         SharedLost \/ ComponentLost
  BY <1>10 DEF SkipTraffic, StopCandidate, Publish, Verify, evidence, Recover,
    SharedLost, ComponentLost
<1> QED BY Actions, <1>1, <1>2, <1>3, <1>4, <1>5, <1>6, <1>7, <1>8, <1>9,
  <1>10

\* Reporting closes what an error or an interruption left open, and nothing
\* opens a verdict again.
LEMMA AnswerableStep ==
  ASSUME TypeOK, Reach, Attributable, Timely, UsableOK, Scored, Answerable, [Next]_vars
  PROVE  Answerable'
<1>1. ASSUME pc' \in {"clean", "publish"}, NEW v \in VerdictNames
      PROVE  Open(v, Chain(v))'
  <2>1. CASE pc \in {"clean", "publish"}
    BY <2>1, OpenStays DEF Answerable, TypeOK
  <2>2. CASE Report /\ (canceled \/ runErr)
    <3>1. v \in VerdictNames /\ runErr'
      BY <2>2 DEF Report
    <3>2. uncertainty'[v] # {}
      BY <3>1, <2>2 DEF Report, AddUncertainty
    <3> QED BY <3>2 DEF Open, Explained
  <2>3. CASE Report /\ ~ canceled /\ ~ runErr
    BY <2>3, OpenStays DEF Report, Answerable, TypeOK
  <2>4. CASE Clean
    BY <2>4, OpenStays DEF Clean, Answerable, TypeOK
  <2> QED BY <1>1, <2>1, <2>2, <2>3, <2>4, LateSteps
<1>2. pc' \in ExecutePoints /\ ~ canceled' /\ ~ runErr' => OpenMixed' /\ OpenRollback'
  BY PointsAnswer
<1>3. pc' = "report" /\ ~ canceled' /\ ~ runErr' => \A v \in VerdictNames : Open(v, Chain(v))'
  BY ReportAnswers
<1> QED BY <1>1, <1>2, <1>3 DEF Answerable

\* No step takes an error back.
LEMMA ErrorsGrow ==
  ASSUME [Next]_vars
  PROVE  errors \subseteq errors'
<1> USE DEF Records
<1>1. CASE CreateSession
  BY <1>1 DEF CreateSession, evidence
<1>2. CASE Prepare
  BY <1>2 DEF Prepare
<1>3. CASE LaunchHook
  BY <1>3 DEF LaunchHook, HookFailed, CandidateOnlyHooksFailed,
    RollbackHooksFailed, SetupHooksFailed, evidence
<1>4. CASE HookEnds
  BY <1>4 DEF HookEnds, HookFailed, CandidateOnlyHooksFailed,
    RollbackHooksFailed, SetupHooksFailed
<1>5. CASE LaunchRole
  BY <1>5 DEF LaunchRole, StartFailed, evidence
<1>6. CASE AwaitReady
  BY <1>6 DEF AwaitReady, StartFailed
<1>7. CASE StageInspect
  BY <1>7 DEF StageInspect, StageCheckFails, StageLost, StageLost
<1>8. CASE StageProbe
  BY <1>8 DEF StageProbe, StageCheckFails, StageLost, StageLost
<1>9. CASE CheckBaseShared
  BY <1>9 DEF CheckBaseShared, BaseCheckError
<1>10. CASE CheckBaseInspect
  BY <1>10 DEF CheckBaseInspect, BaseCheckError, BaseNotUsable
<1>11. CASE CheckBaseProbe
  BY <1>11 DEF CheckBaseProbe, BaseUsable, BaseNotUsable, BaseCheckError
<1>12. CASE CandidateInspect
  BY <1>12 DEF CandidateInspect, CandidateHealth
<1>13. CASE CandidateProbe
  BY <1>13 DEF CandidateProbe, CandidateHealth
<1>14. CASE Clean
  BY <1>14 DEF Clean
<1>15. CASE Publish
  BY <1>15 DEF Publish
<1>16. CASE BuildImages \/ StartSharedEnvironment \/ HooksPass \/
         NextScenario \/ StageSharedHealth \/ RunScenario \/ BaselineEnds \/
         BaseControlEnds
  BY <1>16 DEF BuildImages, StartSharedEnvironment, HooksPass, NextScenario,
    evidence, StageSharedHealth, RunScenario, BaselineEnds, BaseControlEnds
<1>17. CASE CandidateControlEnds \/ MixedControlEnds \/ CoexistenceEnds \/
         TrafficEnds \/ RollbackEnds \/ BeginCoexistence \/ StopBase \/
         SkipTraffic
  BY <1>17 DEF CandidateControlEnds, MixedControlEnds, CoexistenceEnds,
    TrafficEnds, RollbackEnds, BeginCoexistence, evidence, StopBase,
    SkipTraffic
<1>18. CASE StopCandidate \/ Report \/ Verify \/ Recover \/ Signal \/
         SharedLost \/ ComponentLost \/ StrayEnds
  BY <1>18 DEF StopCandidate, Report, Verify, evidence, Recover, Signal,
    SharedLost, ComponentLost, StrayEnds
<1>19. CASE UNCHANGED vars
  BY <1>19 DEF vars, evidence
<1> QED BY Actions, <1>1, <1>2, <1>3, <1>4, <1>5, <1>6, <1>7, <1>8, <1>9,
  <1>10, <1>11, <1>12, <1>13, <1>14, <1>15, <1>16, <1>17, <1>18, <1>19

\* The stages a run has behind it have passed.
LEMMA BehindStep ==
  ASSUME TypeOK, Reach, pc \in ExecutePoints => \A s \in Behind : stages[s] =
         "PASS", [Next]_vars
  PROVE  pc' \in ExecutePoints => \A s \in Behind' : stages'[s] = "PASS"
<1> USE DEF Opening, Behind, Reach, ExecutePoints, Loop, CheckBase,
  BaseControls, Advance, Enter, Successor, Cutover, Closing, TypeOK, PlaceOK,
  RecordOK, Stage, ExpectedStages, States, HookStage
<1>1. CASE CreateSession
  BY <1>1 DEF CreateSession, frame, evidence, record
<1>2. CASE Prepare
  BY <1>2 DEF Prepare, frame, record
<1>3. CASE BuildImages
  BY <1>3 DEF BuildImages, frame, final
<1>4. CASE StartSharedEnvironment
  BY <1>4 DEF StartSharedEnvironment, frame, final
<1>5. CASE LaunchHook
  BY <1>5 DEF LaunchHook, HookFailed, CandidateOnlyHooksFailed,
    RollbackHooksFailed, SetupHooksFailed, frame, evidence, record, final
<1>6. CASE HookEnds
  <2>1. CASE \E result \in DockerCommandResults \ {"pass"} : HookFailed(result)
    BY <1>6, <2>1 DEF HookEnds, HookFailed, CandidateOnlyHooksFailed,
      RollbackHooksFailed, SetupHooksFailed, final
  <2>2. CASE pc' = "hooks" /\ UNCHANGED <<machine, record, established, failures>>
    BY <1>6, <2>2 DEF HookEnds, record, final
  <2> QED BY <1>6, <2>1, <2>2 DEF HookEnds, evidence, final, frame, record
<1>7. CASE HooksPass
  BY <1>7 DEF HooksPass, final
<1>8. CASE LaunchRole
  BY <1>8 DEF LaunchRole, StartFailed, frame, evidence, record, final
<1>9. CASE AwaitReady
  BY <1>9 DEF AwaitReady, StartFailed, frame, final
<1>10. CASE NextScenario
  BY <1>10 DEF NextScenario, evidence, record, final
<1>11. CASE StageSharedHealth
  BY <1>11 DEF StageSharedHealth, record, final
<1>12. CASE RunScenario
  BY <1>12 DEF RunScenario, record, final
<1>13. CASE StageInspect
  BY <1>13 DEF StageInspect, StageCheckFails, StageLost, record, final
<1>14. CASE StageProbe
  BY <1>14 DEF StageProbe, StageCheckFails, StageLost, record, final
<1>15. CASE CheckBaseShared
  BY <1>15 DEF CheckBaseShared, BaseCheckError, frame, final
<1>16. CASE CheckBaseInspect
  BY <1>16 DEF CheckBaseInspect, BaseCheckError, BaseNotUsable, frame, final
<1>17. CASE CheckBaseProbe
  BY <1>17 DEF CheckBaseProbe, BaseUsable, BaseNotUsable, BaseCheckError,
    frame, final
<1>18. CASE BaselineEnds
  BY <1>18 DEF BaselineEnds, final
<1>19. CASE BaseControlEnds
  BY <1>19 DEF BaseControlEnds, final
<1>20. CASE CandidateControlEnds
  BY <1>20 DEF CandidateControlEnds, final
<1>21. CASE MixedControlEnds
  BY <1>21 DEF MixedControlEnds, final
<1>22. CASE CoexistenceEnds
  BY <1>22 DEF CoexistenceEnds, final
<1>23. CASE TrafficEnds
  BY <1>23 DEF TrafficEnds, final
<1>24. CASE RollbackEnds
  BY <1>24 DEF RollbackEnds, final
<1>25. CASE BeginCoexistence
  BY <1>25 DEF BeginCoexistence, frame, evidence, record, final
<1>26. CASE StopBase
  BY <1>26 DEF StopBase, frame, record, final
<1>27. CASE CandidateInspect
  BY <1>27 DEF CandidateInspect, CandidateHealth, frame, record, final
<1>28. CASE CandidateProbe
  BY <1>28 DEF CandidateProbe, CandidateHealth, frame, record, final
<1>29. CASE SkipTraffic
  BY <1>29 DEF SkipTraffic, frame, final
<1>30. CASE StopCandidate
  BY <1>30 DEF StopCandidate, frame, record, final
<1>31. CASE Report
  BY <1>31 DEF Report, frame
<1>32. CASE Clean
  BY <1>32 DEF Clean, frame, record
<1>33. CASE Publish
  BY <1>33 DEF Publish, frame, record
<1>34. CASE Verify
  BY <1>34 DEF Verify, frame, evidence, record
<1>35. CASE Recover
  BY <1>35 DEF Recover, frame, record
<1>36. CASE Signal
  BY <1>36 DEF Signal, frame, evidence, record, final
<1>37. CASE SharedLost
  BY <1>37 DEF SharedLost, frame, evidence, record, final
<1>38. CASE ComponentLost
  BY <1>38 DEF ComponentLost, frame, evidence, record, final
<1>39. CASE StrayEnds
  BY <1>39 DEF StrayEnds, frame, evidence, record, final
<1>40. CASE UNCHANGED vars
  BY <1>40 DEF vars, frame, evidence, record, final
<1> QED BY Actions, <1>1, <1>2, <1>3, <1>4, <1>5, <1>6, <1>7, <1>8, <1>9,
  <1>10, <1>11, <1>12, <1>13, <1>14, <1>15, <1>16, <1>17, <1>18, <1>19, <1>20,
  <1>21, <1>22, <1>23, <1>24, <1>25, <1>26, <1>27, <1>28, <1>29, <1>30, <1>31,
  <1>32, <1>33, <1>34, <1>35, <1>36, <1>37, <1>38, <1>39, <1>40

\* The stages and controls behind the flags of the mixed verdict stay passed.
LEMMA CreditedMixedStep ==
  ASSUME TypeOK, Reach, Timely, Scored, errors = {}, CreditedMixed, pc \in
         ExecutePoints => \A s \in Behind : stages[s] = "PASS", [Next]_vars,
         errors' = {}
  PROVE  CreditedMixed'
<1> USE DEF CreditedMixed, Opening, Behind, Scored, Timely, Reach,
  ExecutePoints, Loop, CheckBase, BaseControls, Advance, Enter, Successor,
  Cutover, Closing, AfterBaseline, AfterTransition, AfterCandidateStartup,
  AfterCandidateControl, Establish, TypeOK, PlaceOK, RecordOK, Records, Stage,
  Control, StageOutcome, ControlOutcome, ExpectedStages, States,
  ControlStages, HookStage, Passed
<1>1. CASE CreateSession
  BY <1>1 DEF CreateSession, frame, evidence, record
<1>2. CASE Prepare
  BY <1>2 DEF Prepare, frame, record
<1>3. CASE BuildImages
  BY <1>3 DEF BuildImages, frame, final
<1>4. CASE StartSharedEnvironment
  BY <1>4 DEF StartSharedEnvironment, frame, final
<1>5. CASE LaunchHook
  BY <1>5 DEF LaunchHook, HookFailed, CandidateOnlyHooksFailed,
    RollbackHooksFailed, SetupHooksFailed, frame, evidence, record, final
<1>6. CASE HookEnds
  <2>1. CASE \E result \in DockerCommandResults \ {"pass"} : HookFailed(result)
    BY <1>6, <2>1 DEF HookEnds, HookFailed, CandidateOnlyHooksFailed,
      RollbackHooksFailed, SetupHooksFailed, final
  <2>2. CASE pc' = "hooks" /\ UNCHANGED <<machine, record, established, failures>>
    BY <1>6, <2>2 DEF HookEnds, record, final
  <2> QED BY <1>6, <2>1, <2>2 DEF HookEnds, evidence, final, frame, record
<1>7. CASE HooksPass
  BY <1>7 DEF HooksPass, final
<1>8. CASE LaunchRole
  BY <1>8 DEF LaunchRole, StartFailed, frame, evidence, record, final
<1>9. CASE AwaitReady
  BY <1>9 DEF AwaitReady, StartFailed, frame, final
<1>10. CASE NextScenario
  BY <1>10 DEF NextScenario, evidence, record, final
<1>11. CASE StageSharedHealth
  BY <1>11 DEF StageSharedHealth, record, final
<1>12. CASE RunScenario
  BY <1>12 DEF RunScenario, record, final
<1>13. CASE StageInspect
  BY <1>13 DEF StageInspect, StageCheckFails, StageLost, record, final
<1>14. CASE StageProbe
  BY <1>14 DEF StageProbe, StageCheckFails, StageLost, record, final
<1>15. CASE CheckBaseShared
  BY <1>15 DEF CheckBaseShared, BaseCheckError, frame, final
<1>16. CASE CheckBaseInspect
  BY <1>16 DEF CheckBaseInspect, BaseCheckError, BaseNotUsable, frame, final
<1>17. CASE CheckBaseProbe
  BY <1>17 DEF CheckBaseProbe, BaseUsable, BaseNotUsable, BaseCheckError,
    frame, final
<1>18. CASE BaselineEnds
  BY <1>18 DEF BaselineEnds, final
<1>19. CASE BaseControlEnds
  BY <1>19 DEF BaseControlEnds, final
<1>20. CASE CandidateControlEnds
  BY <1>20 DEF CandidateControlEnds, final
<1>21. CASE MixedControlEnds
  BY <1>21 DEF MixedControlEnds, final
<1>22. CASE CoexistenceEnds
  BY <1>22 DEF CoexistenceEnds, final
<1>23. CASE TrafficEnds
  BY <1>23 DEF TrafficEnds, final
<1>24. CASE RollbackEnds
  BY <1>24 DEF RollbackEnds, final
<1>25. CASE BeginCoexistence
  BY <1>25 DEF BeginCoexistence, frame, evidence, record, final
<1>26. CASE StopBase
  BY <1>26 DEF StopBase, frame, record, final
<1>27. CASE CandidateInspect
  BY <1>27 DEF CandidateInspect, CandidateHealth, frame, record, final
<1>28. CASE CandidateProbe
  BY <1>28 DEF CandidateProbe, CandidateHealth, frame, record, final
<1>29. CASE SkipTraffic
  BY <1>29 DEF SkipTraffic, frame, final
<1>30. CASE StopCandidate
  BY <1>30 DEF StopCandidate, frame, record, final
<1>31. CASE Report
  BY <1>31 DEF Report, frame
<1>32. CASE Clean
  BY <1>32 DEF Clean, frame, record
<1>33. CASE Publish
  BY <1>33 DEF Publish, frame, record
<1>34. CASE Verify
  BY <1>34 DEF Verify, frame, evidence, record
<1>35. CASE Recover
  BY <1>35 DEF Recover, frame, record
<1>36. CASE Signal
  BY <1>36 DEF Signal, frame, evidence, record, final
<1>37. CASE SharedLost
  BY <1>37 DEF SharedLost, frame, evidence, record, final
<1>38. CASE ComponentLost
  BY <1>38 DEF ComponentLost, frame, evidence, record, final
<1>39. CASE StrayEnds
  BY <1>39 DEF StrayEnds, frame, evidence, record, final
<1>40. CASE UNCHANGED vars
  BY <1>40 DEF vars, frame, evidence, record, final
<1> QED BY Actions, <1>1, <1>2, <1>3, <1>4, <1>5, <1>6, <1>7, <1>8, <1>9,
  <1>10, <1>11, <1>12, <1>13, <1>14, <1>15, <1>16, <1>17, <1>18, <1>19, <1>20,
  <1>21, <1>22, <1>23, <1>24, <1>25, <1>26, <1>27, <1>28, <1>29, <1>30, <1>31,
  <1>32, <1>33, <1>34, <1>35, <1>36, <1>37, <1>38, <1>39, <1>40

\* The stages behind the flags of the rollback verdict stay passed.
LEMMA CreditedRollbackStep ==
  ASSUME TypeOK, Reach, Timely, Scored, errors = {}, CreditedRollback,
         [Next]_vars, errors' = {}
  PROVE  CreditedRollback'
<1> USE DEF CreditedRollback, Scored, Timely, Reach, ExecutePoints, Loop,
  CheckBase, BaseControls, Advance, Enter, Successor, Cutover, Closing,
  Establish, TypeOK, PlaceOK, EvidenceOK, AddFailure, VerdictNames, RecordOK,
  Records, Stage, StageOutcome, ExpectedStages, States, HookStage, Passed
<1>1. CASE CreateSession
  BY <1>1 DEF CreateSession, frame, evidence, record
<1>2. CASE Prepare
  BY <1>2 DEF Prepare, frame, record
<1>3. CASE BuildImages
  BY <1>3 DEF BuildImages, frame, final
<1>4. CASE StartSharedEnvironment
  BY <1>4 DEF StartSharedEnvironment, frame, final
<1>5. CASE LaunchHook
  BY <1>5 DEF LaunchHook, HookFailed, CandidateOnlyHooksFailed,
    RollbackHooksFailed, SetupHooksFailed, frame, evidence, record, final
<1>6. CASE HookEnds
  <2>1. CASE \E result \in DockerCommandResults \ {"pass"} : HookFailed(result)
    BY <1>6, <2>1 DEF HookEnds, HookFailed, CandidateOnlyHooksFailed,
      RollbackHooksFailed, SetupHooksFailed, final
  <2>2. CASE pc' = "hooks" /\ UNCHANGED <<machine, record, established, failures>>
    BY <1>6, <2>2 DEF HookEnds, record, final
  <2> QED BY <1>6, <2>1, <2>2 DEF HookEnds, evidence, final, frame, record
<1>7. CASE HooksPass
  BY <1>7 DEF HooksPass, final
<1>8. CASE LaunchRole
  BY <1>8 DEF LaunchRole, StartFailed, frame, evidence, record, final
<1>9. CASE AwaitReady
  BY <1>9 DEF AwaitReady, StartFailed, frame, final
<1>10. CASE NextScenario
  BY <1>10 DEF NextScenario, evidence, record, final
<1>11. CASE StageSharedHealth
  BY <1>11 DEF StageSharedHealth, record, final
<1>12. CASE RunScenario
  BY <1>12 DEF RunScenario, record, final
<1>13. CASE StageInspect
  BY <1>13 DEF StageInspect, StageCheckFails, StageLost, record, final
<1>14. CASE StageProbe
  BY <1>14 DEF StageProbe, StageCheckFails, StageLost, record, final
<1>15. CASE CheckBaseShared
  BY <1>15 DEF CheckBaseShared, BaseCheckError, frame, final
<1>16. CASE CheckBaseInspect
  BY <1>16 DEF CheckBaseInspect, BaseCheckError, BaseNotUsable, frame, final
<1>17. CASE CheckBaseProbe
  BY <1>17 DEF CheckBaseProbe, BaseUsable, BaseNotUsable, BaseCheckError,
    frame, final
<1>18. CASE BaselineEnds
  BY <1>18 DEF BaselineEnds, final
<1>19. CASE BaseControlEnds
  BY <1>19 DEF BaseControlEnds, final
<1>20. CASE CandidateControlEnds
  BY <1>20 DEF CandidateControlEnds, final
<1>21. CASE MixedControlEnds
  BY <1>21 DEF MixedControlEnds, final
<1>22. CASE CoexistenceEnds
  BY <1>22 DEF CoexistenceEnds, final
<1>23. CASE TrafficEnds
  BY <1>23 DEF TrafficEnds, final
<1>24. CASE RollbackEnds
  BY <1>24 DEF RollbackEnds, final
<1>25. CASE BeginCoexistence
  BY <1>25 DEF BeginCoexistence, frame, evidence, record, final
<1>26. CASE StopBase
  BY <1>26 DEF StopBase, frame, record, final
<1>27. CASE CandidateInspect
  BY <1>27 DEF CandidateInspect, CandidateHealth, frame, record, final
<1>28. CASE CandidateProbe
  BY <1>28 DEF CandidateProbe, CandidateHealth, frame, record, final
<1>29. CASE SkipTraffic
  BY <1>29 DEF SkipTraffic, frame, final
<1>30. CASE StopCandidate
  BY <1>30 DEF StopCandidate, frame, record, final
<1>31. CASE Report
  BY <1>31 DEF Report, frame
<1>32. CASE Clean
  BY <1>32 DEF Clean, frame, record
<1>33. CASE Publish
  BY <1>33 DEF Publish, frame, record
<1>34. CASE Verify
  BY <1>34 DEF Verify, frame, evidence, record
<1>35. CASE Recover
  BY <1>35 DEF Recover, frame, record
<1>36. CASE Signal
  BY <1>36 DEF Signal, frame, evidence, record, final
<1>37. CASE SharedLost
  BY <1>37 DEF SharedLost, frame, evidence, record, final
<1>38. CASE ComponentLost
  BY <1>38 DEF ComponentLost, frame, evidence, record, final
<1>39. CASE StrayEnds
  BY <1>39 DEF StrayEnds, frame, evidence, record, final
<1>40. CASE UNCHANGED vars
  BY <1>40 DEF vars, frame, evidence, record, final
<1> QED BY Actions, <1>1, <1>2, <1>3, <1>4, <1>5, <1>6, <1>7, <1>8, <1>9,
  <1>10, <1>11, <1>12, <1>13, <1>14, <1>15, <1>16, <1>17, <1>18, <1>19, <1>20,
  <1>21, <1>22, <1>23, <1>24, <1>25, <1>26, <1>27, <1>28, <1>29, <1>30, <1>31,
  <1>32, <1>33, <1>34, <1>35, <1>36, <1>37, <1>38, <1>39, <1>40

\* The stages and controls behind the evidence stay passed while no error is
\* listed.
LEMMA CreditedStep ==
  ASSUME TypeOK, Reach, Timely, Scored, Credited, [Next]_vars
  PROVE  Credited'
<1> SUFFICES ASSUME errors' = {}
             PROVE  /\ pc' \in ExecutePoints => \A s \in Behind' : stages'[s] = "PASS"
                    /\ CreditedMixed' /\ CreditedRollback'
  BY DEF Credited
<1>1. errors = {}
  BY ErrorsGrow
<1>2. /\ pc \in ExecutePoints => \A s \in Behind : stages[s] = "PASS"
      /\ CreditedMixed /\ CreditedRollback
  BY <1>1 DEF Credited
<1>3. pc' \in ExecutePoints => \A s \in Behind' : stages'[s] = "PASS"
  BY <1>2, BehindStep
<1>4. CreditedMixed'
  BY <1>1, <1>2, CreditedMixedStep
<1>5. CreditedRollback'
  BY <1>1, <1>2, CreditedRollbackStep
<1> QED BY <1>3, <1>4, <1>5

\* Only a run that would exit with 0 has passed overall.
LEMMA OverallPass ==
  ASSUME NEW e, NEW f, NEW r, Overall(e, f, r) # "PASS" PROVE ExitCode(e, f, r) # 0
BY DEF Overall

\* What cleanup reported stays so.
LEMMA SweptStep ==
  ASSUME TypeOK, Reach, Swept, [Next]_vars
  PROVE  Swept'
<1> USE DEF Swept, Reach, ExecutePoints, Loop, CheckBase, BaseControls,
  Advance, Enter, Successor, TypeOK, PlaceOK
<1>1. CASE CreateSession
  BY <1>1 DEF CreateSession, world, evidence
<1>2. CASE Prepare
  BY <1>2 DEF Prepare, world
<1>3. CASE BuildImages
  BY <1>3 DEF BuildImages, world, final
<1>4. CASE StartSharedEnvironment
  BY <1>4 DEF StartSharedEnvironment, final
<1>5. CASE LaunchHook
  BY <1>5 DEF LaunchHook, HookFailed, CandidateOnlyHooksFailed,
    RollbackHooksFailed, SetupHooksFailed, world, evidence, final
<1>6. CASE HookEnds
  BY <1>6 DEF HookEnds, HookFailed, CandidateOnlyHooksFailed,
    RollbackHooksFailed, SetupHooksFailed, world, final
<1>7. CASE HooksPass
  BY <1>7 DEF HooksPass, world, final
<1>8. CASE LaunchRole
  BY <1>8 DEF LaunchRole, StartFailed, evidence, final
<1>9. CASE AwaitReady
  BY <1>9 DEF AwaitReady, StartFailed, world, final
<1>10. CASE NextScenario
  BY <1>10 DEF NextScenario, world, evidence, final
<1>11. CASE StageSharedHealth
  BY <1>11 DEF StageSharedHealth, world, final
<1>12. CASE RunScenario
  BY <1>12 DEF RunScenario, world, final
<1>13. CASE StageInspect
  BY <1>13 DEF StageInspect, StageCheckFails, StageLost, world, final
<1>14. CASE StageProbe
  BY <1>14 DEF StageProbe, StageCheckFails, StageLost, world, final
<1>15. CASE CheckBaseShared
  BY <1>15 DEF CheckBaseShared, BaseCheckError, world, final
<1>16. CASE CheckBaseInspect
  BY <1>16 DEF CheckBaseInspect, BaseCheckError, BaseNotUsable, world, final
<1>17. CASE CheckBaseProbe
  BY <1>17 DEF CheckBaseProbe, BaseUsable, BaseNotUsable, BaseCheckError,
    world, final
<1>18. CASE BaselineEnds
  BY <1>18 DEF BaselineEnds, world, final
<1>19. CASE BaseControlEnds
  BY <1>19 DEF BaseControlEnds, world, final
<1>20. CASE CandidateControlEnds
  BY <1>20 DEF CandidateControlEnds, world, final
<1>21. CASE MixedControlEnds
  BY <1>21 DEF MixedControlEnds, world, final
<1>22. CASE CoexistenceEnds
  BY <1>22 DEF CoexistenceEnds, world, final
<1>23. CASE TrafficEnds
  BY <1>23 DEF TrafficEnds, world, final
<1>24. CASE RollbackEnds
  BY <1>24 DEF RollbackEnds, world, final
<1>25. CASE BeginCoexistence
  BY <1>25 DEF BeginCoexistence, world, evidence, final
<1>26. CASE StopBase
  BY <1>26 DEF StopBase, final
<1>27. CASE CandidateInspect
  BY <1>27 DEF CandidateInspect, CandidateHealth, world, final
<1>28. CASE CandidateProbe
  BY <1>28 DEF CandidateProbe, CandidateHealth, world, final
<1>29. CASE SkipTraffic
  BY <1>29 DEF SkipTraffic, world, final
<1>30. CASE StopCandidate
  BY <1>30 DEF StopCandidate, final
<1>31. CASE Report
  BY <1>31 DEF Report, world
<1>32. CASE Clean
  <2>1. pc' = "publish" /\ UNCHANGED <<established, failures>>
    BY <1>32 DEF Clean
  <2>2. CASE cleanup' = "SKIPPED"
    BY <1>32, <2>1, <2>2, OverallPass DEF Clean
  <2>3. CASE cleanup' \in {"PASS", "ERROR"}
    BY <1>32, <2>1, <2>3 DEF Clean, MayLeave
  <2> QED BY <1>32, <2>2, <2>3 DEF Clean
<1>33. CASE Publish
  BY <1>33 DEF Publish, world, Records, ExitCode
<1>34. CASE Verify
  BY <1>34 DEF Verify, world, evidence
<1>35. CASE Recover
  BY <1>35 DEF Recover, world
<1>36. CASE Signal
  BY <1>36 DEF Signal, evidence, final
<1>37. CASE SharedLost
  BY <1>37 DEF SharedLost, evidence, final
<1>38. CASE ComponentLost
  BY <1>38 DEF ComponentLost, evidence, final
<1>39. CASE StrayEnds
  BY <1>39 DEF StrayEnds, evidence, final
<1>40. CASE UNCHANGED vars
  BY <1>40 DEF vars, world, evidence, final
<1> QED BY Actions, <1>1, <1>2, <1>3, <1>4, <1>5, <1>6, <1>7, <1>8, <1>9,
  <1>10, <1>11, <1>12, <1>13, <1>14, <1>15, <1>16, <1>17, <1>18, <1>19, <1>20,
  <1>21, <1>22, <1>23, <1>24, <1>25, <1>26, <1>27, <1>28, <1>29, <1>30, <1>31,
  <1>32, <1>33, <1>34, <1>35, <1>36, <1>37, <1>38, <1>39, <1>40

\* An exit code of 0 leaves no verdict open and no error listed.
LEMMA ZeroIsPass ==
  ASSUME NEW e, NEW f, NEW r \in SUBSET ErrorKinds, ExitCode(e, f, r) = 0
  PROVE  r = {} /\ \A v \in VerdictNames : f[v] = {} /\ Chain(v) \subseteq e
<1> DEFINE some(status) == \E v \in VerdictNames : Status(v, e, f) = status
<1>1. ~ some("FAIL") /\ ~ some("INCONCLUSIVE")
  <2> HIDE DEF some
  <2>1. ExitCode(e, f, r) = IF some("FAIL") THEN 10
                            ELSE IF "internal" \in r THEN 24
                            ELSE IF "operational" \in r THEN 23
                            ELSE IF "cleanup" \in r THEN 25
                            ELSE IF some("INCONCLUSIVE") THEN 20 ELSE 0
    BY DEF ExitCode, some
  <2> QED BY <2>1
<1>2. r = {}
  BY DEF ExitCode, ErrorKinds
<1> QED BY <1>1, <1>2 DEF Status

\* An exit code of 0 has everything behind it.
LEMMA PaidStep ==
  ASSUME TypeOK, TypeOK', Reach, Swept, Paid, [Next]_vars
  PROVE  Paid'
<1> USE DEF Paid, Enter, ExecutePoints, Everything, Reach, Loop, CheckBase,
  BaseControls, TypeOK, PlaceOK, FinalOK, NoExit
<1>1. CASE CreateSession
  BY <1>1 DEF CreateSession, evidence
<1>2. CASE Publish
  <2>1. /\ pc' = "verify" /\ exit' = exit /\ pc = "publish" /\ cleanup' = cleanup
        /\ UNCHANGED <<established, failures>>
        /\ code' = ExitCode(established, failures, errors')
    BY <1>2 DEF Publish
  <2>2. runErr' \/ machine' = "COMPLETE"
    BY <1>2 DEF Publish, Advance
  <2>3. errors' \in SUBSET ErrorKinds
    BY DEF EvidenceOK
  <2>4. code' = 0 => errors' = {} /\ \A v \in VerdictNames : failures[v] = {} /\ Chain(v) \subseteq established
    BY <2>1, <2>3, ZeroIsPass, ZenonT(60)
  <2>5. cleanup # "none" /\ exit # 0
    BY <2>1 DEF Swept
  <2> QED BY <2>1, <2>2, <2>4, <2>5
<1>3. CASE Verify
  <2>1. /\ pc = "verify" /\ pc' = "exited" /\ exit' = IF code = 0 /\ runErr THEN 24 ELSE code
        /\ UNCHANGED <<machine, established, failures, errors, runErr, cleanup>>
    BY <1>3 DEF Verify, evidence
  <2>2. exit' = 0 => code = 0 /\ ~ runErr
    BY <2>1
  <2> QED BY <2>1, <2>2
<1>4. CASE Signal
  BY <1>4 DEF Signal, evidence, final
<1>5. CASE StrayEnds
  BY <1>5 DEF StrayEnds, evidence, final
<1>6. CASE UNCHANGED vars
  BY <1>6 DEF vars, evidence, final
<1>7. CASE Prepare \/ BuildImages \/ StartSharedEnvironment \/ LaunchHook \/
         HookEnds \/ HooksPass \/ LaunchRole \/ AwaitReady \/ NextScenario
  BY <1>7 DEF Prepare, BuildImages, final, StartSharedEnvironment, LaunchHook,
    HookFailed, CandidateOnlyHooksFailed, RollbackHooksFailed,
    SetupHooksFailed, evidence, HookEnds, HooksPass, LaunchRole, StartFailed,
    AwaitReady, NextScenario
<1>8. CASE StageSharedHealth \/ RunScenario \/ StageInspect \/ StageProbe \/
         CheckBaseShared \/ CheckBaseInspect \/ CheckBaseProbe \/
         BaselineEnds \/ BaseControlEnds
  BY <1>8 DEF StageSharedHealth, final, RunScenario, StageInspect,
    StageCheckFails, StageLost, StageProbe, CheckBaseShared, BaseCheckError,
    CheckBaseInspect, BaseNotUsable, CheckBaseProbe, BaseUsable, BaselineEnds,
    BaseControlEnds
<1>9. CASE CandidateControlEnds \/ MixedControlEnds \/ CoexistenceEnds \/
         TrafficEnds \/ RollbackEnds \/ BeginCoexistence \/ StopBase \/
         CandidateInspect \/ CandidateProbe
  BY <1>9 DEF CandidateControlEnds, final, MixedControlEnds, CoexistenceEnds,
    TrafficEnds, RollbackEnds, BeginCoexistence, evidence, StopBase,
    CandidateInspect, CandidateHealth, CandidateProbe
<1>10. CASE SkipTraffic \/ StopCandidate \/ Recover \/ SharedLost \/ ComponentLost
  BY <1>10 DEF SkipTraffic, final, StopCandidate, Recover, SharedLost, evidence,
    ComponentLost
<1>11. CASE Report \/ Clean
  BY <1>11 DEF Report, Clean
<1> QED BY Actions, <1>1, <1>2, <1>3, <1>4, <1>5, <1>6, <1>7, <1>8, <1>9,
  <1>10, <1>11

\* What has failed is shown, and stays shown.
LEMMA VisibleStep ==
  ASSUME TypeOK, Reach, Timely, Scored, Visible, [Next]_vars
  PROVE  Visible'
<1> USE DEF Visible, Shown, ToShow, Scored, Timely, Reach, ExecutePoints,
  Loop, CheckBase, BaseControls, Advance, Enter, Successor, BaseChecked,
  Cutover, Closing, AfterTransition, TypeOK, PlaceOK, EvidenceOK, AddFailure,
  VerdictNames, RecordOK, Records, Stage, Control, StageOutcome,
  ControlOutcome, ControlStages, ExpectedStages, States, HookStage, Passed,
  OperationalOnly, OutcomeOf, Classification, Mark, ResetFrame
<1>1. CASE CreateSession
  BY <1>1 DEF CreateSession, world, frame, evidence, record
<1>2. CASE Prepare
  BY <1>2 DEF Prepare, world, frame, record
<1>3. CASE BuildImages
  <2>1. UNCHANGED <<canceled, controls, failures, marks>>
    BY <1>3 DEF BuildImages, world, frame
  <2>2. \E outcome \in Outcomes : stages' = [stages EXCEPT !["BUILD"] = outcome]
    BY <1>3, Readings DEF BuildImages, Outcomes, DockerCommandResults
  <2>3. errors \subseteq errors' /\ pc = "build" /\ pc' \in {"shared", "report"}
    BY <1>3 DEF BuildImages
  <2> QED BY <2>1, <2>2, <2>3, <1>3 DEF BuildImages
<1>4. CASE StartSharedEnvironment
  BY <1>4 DEF StartSharedEnvironment, frame, final
<1>5. CASE LaunchHook
  BY <1>5 DEF LaunchHook, HookFailed, CandidateOnlyHooksFailed,
    RollbackHooksFailed, SetupHooksFailed, world, frame, evidence, record,
    final
<1>6. CASE HookEnds
  <2>1. CASE \E result \in DockerCommandResults \ {"pass"} : HookFailed(result)
    BY <1>6, <2>1, Readings DEF HookEnds, HookFailed, CandidateOnlyHooksFailed,
      RollbackHooksFailed, SetupHooksFailed, DockerCommandResults, final
  <2>2. CASE /\ pc = "hook" /\ pc' = "hooks" /\ errors \subseteq errors'
             /\ UNCHANGED <<machine, canceled, marks, stages, controls, failures>>
    BY <2>2
  <2> QED BY <1>6, <2>1, <2>2 DEF HookEnds, world, record
<1>7. CASE HooksPass
  BY <1>7 DEF HooksPass, world, final
<1>8. CASE LaunchRole
  BY <1>8 DEF LaunchRole, StartFailed, frame, evidence, record, final
<1>9. CASE AwaitReady
  BY <1>9 DEF AwaitReady, StartFailed, world, frame, final
<1>10. CASE NextScenario
  BY <1>10 DEF NextScenario, world, evidence, record, final
<1>11. CASE StageSharedHealth
  BY <1>11 DEF StageSharedHealth, world, record, final
<1>12. CASE RunScenario
  BY <1>12 DEF RunScenario, world, record, final
<1>13. CASE StageInspect
  BY <1>13 DEF StageInspect, StageCheckFails, StageLost, world, record, final
<1>14. CASE StageProbe
  BY <1>14 DEF StageProbe, StageCheckFails, StageLost, world, record, final
<1>15. CASE CheckBaseShared
  BY <1>15 DEF CheckBaseShared, BaseCheckError, world, frame, final
<1>16. CASE CheckBaseInspect
  BY <1>16 DEF CheckBaseInspect, BaseCheckError, BaseNotUsable, world, frame,
    final
<1>17. CASE CheckBaseProbe
  BY <1>17 DEF CheckBaseProbe, BaseUsable, BaseNotUsable, BaseCheckError,
    world, frame, final
<1>18. CASE BaselineEnds
  BY <1>18 DEF BaselineEnds, world, final
<1>19. CASE BaseControlEnds
  BY <1>19 DEF BaseControlEnds, world, final
<1>20. CASE CandidateControlEnds
  BY <1>20 DEF CandidateControlEnds, world, final
<1>21. CASE MixedControlEnds
  BY <1>21 DEF MixedControlEnds, world, final
<1>22. CASE CoexistenceEnds
  BY <1>22 DEF CoexistenceEnds, world, final
<1>23. CASE TrafficEnds
  BY <1>23 DEF TrafficEnds, world, final
<1>24. CASE RollbackEnds
  BY <1>24 DEF RollbackEnds, world, final
<1>25. CASE BeginCoexistence
  BY <1>25 DEF BeginCoexistence, world, frame, evidence, record, final
<1>26. CASE StopBase
  BY <1>26 DEF StopBase, frame, record, final
<1>27. CASE CandidateInspect
  BY <1>27 DEF CandidateInspect, CandidateHealth, world, frame, record, final
<1>28. CASE CandidateProbe
  BY <1>28 DEF CandidateProbe, CandidateHealth, world, frame, record, final
<1>29. CASE SkipTraffic
  BY <1>29 DEF SkipTraffic, world, frame, final
<1>30. CASE StopCandidate
  BY <1>30 DEF StopCandidate, frame, record, final
<1>31. CASE Report
  BY <1>31 DEF Report, world, frame
<1>32. CASE Clean
  BY <1>32 DEF Clean, frame, record
<1>33. CASE Publish
  BY <1>33 DEF Publish, world, frame, record
<1>34. CASE Verify
  BY <1>34 DEF Verify, world, frame, evidence, record
<1>35. CASE Recover
  BY <1>35 DEF Recover, world, frame, record
<1>36. CASE Signal
  BY <1>36 DEF Signal, frame, evidence, record, final
<1>37. CASE SharedLost
  BY <1>37 DEF SharedLost, frame, evidence, record, final
<1>38. CASE ComponentLost
  BY <1>38 DEF ComponentLost, frame, evidence, record, final
<1>39. CASE StrayEnds
  BY <1>39 DEF StrayEnds, frame, evidence, record, final
<1>40. CASE UNCHANGED vars
  BY <1>40 DEF vars, world, frame, evidence, record, final
<1> QED BY Actions, <1>1, <1>2, <1>3, <1>4, <1>5, <1>6, <1>7, <1>8, <1>9,
  <1>10, <1>11, <1>12, <1>13, <1>14, <1>15, <1>16, <1>17, <1>18, <1>19, <1>20,
  <1>21, <1>22, <1>23, <1>24, <1>25, <1>26, <1>27, <1>28, <1>29, <1>30, <1>31,
  <1>32, <1>33, <1>34, <1>35, <1>36, <1>37, <1>38, <1>39, <1>40

-----------------------------------------------------------------------------
\* A new run owes nothing.
LEMMA FullInit == Init => FullInv
<1> SUFFICES ASSUME Init PROVE FullInv
  OBVIOUS
<1>1. Inv
  BY InvInit
<1>2. Scored /\ UsableOK /\ Answerable
  BY DEF Init, Scored, UsableOK, Answerable, ExecutePoints, Loop, BaseChecked
<1>3. Credited
  BY DEF Init, Credited, CreditedMixed, CreditedRollback, ExecutePoints, Loop
<1>4. Swept /\ Paid
  BY DEF Init, Swept, Paid, NoExit
<1>5. Visible
  BY DEF Init, Visible, Shown, ToShow, VerdictNames, BaseControls, ControlStages,
    ExpectedStages, States
<1> QED BY <1>1, <1>2, <1>3, <1>4, <1>5 DEF FullInv

\* One step keeps what is owed paid.
LEMMA FullStep == FullInv /\ [Next]_vars => FullInv'
<1> SUFFICES ASSUME FullInv, [Next]_vars PROVE FullInv'
  OBVIOUS
<1>1. /\ TypeOK /\ Reach /\ Attributable /\ Timely
      /\ Scored /\ UsableOK /\ Answerable /\ Credited /\ Swept /\ Paid /\ Visible
  BY DEF FullInv, Inv
<1>2. Inv' /\ TypeOK'
  BY InvStep DEF FullInv, Inv
<1>3. Scored' /\ UsableOK' /\ Answerable'
  BY <1>1, ScoredStep, UsableStep, AnswerableStep
<1>4. Credited' /\ Swept'
  BY <1>1, CreditedStep, SweptStep
<1>5. Paid' /\ Visible'
  BY <1>1, <1>2, PaidStep, VisibleStep
<1> QED BY <1>2, <1>3, <1>4, <1>5 DEF FullInv

\* The invariant with what the record owes to the evidence holds throughout
\* every run.
THEOREM FullInvariance == Spec => []FullInv
BY FullInit, FullStep, PTL DEF Spec

\* No verdict is inconclusive for a reason nobody recorded.
THEOREM DoubtExplainedHolds == Spec => []DoubtExplained
<1>1. FullInv => DoubtExplained
  BY DEF FullInv, Answerable, Open, Explained, DoubtExplained, Status
<1> QED BY <1>1, FullInvariance, PTL

\* Exit code 0 is earned by the evidence and by the record: every stage and
\* control passed, no error is listed and nothing of the run is left behind.
THEOREM PassIsEarnedHolds == Spec => []PassIsEarned
<1>1. FullInv => PassIsEarned
  <2> SUFFICES ASSUME FullInv, exit = 0 PROVE PassIsEarned
    BY DEF PassIsEarned
  <2>1. Everything /\ ~ runErr
    BY DEF FullInv, Paid
  <2>2. \A v \in VerdictNames : Status(v, established, failures) = "PASS"
    BY <2>1 DEF Everything, Status
  <2>3. MixedChain \subseteq established /\ RollbackChain \subseteq established
    BY <2>1 DEF Everything, VerdictNames, Chain
  <2>4. CreditedMixed /\ CreditedRollback /\ failures["rollback"] = {}
    BY <2>1 DEF FullInv, Everything, Credited, VerdictNames
  <2>5. \A s \in ExpectedStages : stages[s] = "PASS"
    BY <2>3, <2>4 DEF CreditedMixed, CreditedRollback, MixedChain, RollbackChain,
      ExpectedStages, States, Opening
  <2>6. \A c \in ControlStages : controls[c] = "PASS"
    BY <2>3, <2>4 DEF CreditedMixed, MixedChain, ControlStages
  <2>7. ExitCode(established, failures, errors) = 0
    <3>1. \A v \in VerdictNames : Status(v, established, failures) = "PASS"
      BY <2>2
    <3> QED BY <3>1, <2>1 DEF ExitCode, Everything
  <2>8. cleanup = "PASS"
    BY <2>1, <2>7 DEF FullInv, Inv, TypeOK, FinalOK, Swept, Everything
  <2> QED BY <2>1, <2>2, <2>5, <2>6, <2>8 DEF FullInv, Swept, Everything, PassIsEarned
<1> QED BY <1>1, FullInvariance, PTL

\* The report of an undisturbed run shows each failed verdict as a failed
\* stage or control, and each failed base control, coexistence stage or
\* rollback stage as a failed verdict.
THEOREM FailureVisibleHolds == Spec => []FailureVisible
<1>1. FullInv => FailureVisible
  <2> SUFFICES ASSUME FullInv, pc \in {"clean", "publish"}, ~ canceled,
                      "internal" \notin errors
               PROVE  \A v \in VerdictNames : failures[v] # {} <=> Shown(v)
    BY DEF FailureVisible, Shown, VerdictNames
  <2>1. \A v \in VerdictNames : ~ ToShow(v)
    BY DEF ToShow, Loop
  <2> QED BY <2>1 DEF FullInv, Visible
<1> QED BY <1>1, FullInvariance, PTL

-----------------------------------------------------------------------------
(***************************************************************************)
(* Why a run ends: no step goes back, the loops are bounded by what is     *)
(* configured, and the only way out without a decision on cleanup is to    *)
(* have no session.                                                        *)
(***************************************************************************)

\* The place of each lifecycle state.
LEMMA StateOrders ==
  /\ StateOrder("PREFLIGHT") = 0 /\ StateOrder("BUILD") = 1
  /\ StateOrder("SHARED_ENVIRONMENT") = 2 /\ StateOrder("BOOTSTRAP") = 3
  /\ StateOrder("BASE_STARTUP") = 4 /\ StateOrder("BASELINE") = 5
  /\ StateOrder("TRANSITION") = 6 /\ StateOrder("BASE_AFTER_TRANSITION_CONTROL") = 7
  /\ StateOrder("CANDIDATE_STARTUP") = 8 /\ StateOrder("CANDIDATE_CONTROL") = 9
  /\ StateOrder("BASE_WITH_CANDIDATE_CONTROL") = 10 /\ StateOrder("COEXISTENCE") = 11
  /\ StateOrder("CANDIDATE_ONLY") = 12 /\ StateOrder("CANDIDATE_TRAFFIC") = 13
  /\ StateOrder("ROLLBACK") = 14 /\ StateOrder("REPORTING") = 15
  /\ StateOrder("CLEANUP") = 16 /\ StateOrder("COMPLETE") = 17
BY DEF StateOrder

\* The place of each point within its state.
LEMMA Sections ==
  /\ Section("session") = 0 /\ Section("build") = 0 /\ Section("shared") = 0
  /\ Section("stopCandidate") = 0 /\ Section("prepare") = 1 /\ Section("hooks") = 1
  /\ Section("hook") = 1 /\ Section("sharedHealth") = 2 /\ Section("healthInspect") = 2
  /\ Section("coexist") = 2 /\ Section("start") = 2 /\ Section("baseInspect") = 3
  /\ Section("healthProbe") = 3 /\ Section("ready") = 3 /\ Section("baseProbe") = 4
  /\ Section("begin") = 5 /\ Section("stageHealth") = 5 /\ Section("run") = 5
  /\ Section("inspect") = 5 /\ Section("probe") = 5 /\ Section("ended") = 6
  /\ Section("stopBase") = 7 /\ Section("skipTraffic") = 7 /\ Section("report") = 8
  /\ Section("clean") = 9 /\ Section("publish") = 9 /\ Section("verify") = 10
  /\ Section("exited") = 11
BY DEF Section

\* The place of each point of a loop within its round.
LEMMA Turns ==
  /\ Turn("hooks") = 0 /\ Turn("begin") = 0 /\ Turn("hook") = 1
  /\ Turn("stageHealth") = 1 /\ Turn("run") = 2 /\ Turn("inspect") = 3
  /\ Turn("probe") = 4
BY DEF Turn

\* Every transition to another state StateMachine.Advance permits is to a later
\* one.
LEMMA AdvanceFurther ==
  ASSUME machine \in States, NEW state \in States, machine # state, Advance(state)
  PROVE  StateOrder(machine') > StateOrder(machine)
<1>1. CASE state = "REPORTING" /\ machine \notin {"CLEANUP", "COMPLETE"}
  BY <1>1, StateOrders DEF Advance, States
<1>2. CASE state = Successor(machine)
  BY <1>2, StateOrders DEF Advance, States, Successor
<1> QED BY <1>1, <1>2 DEF Advance

\* A step of the program goes further; one of the environment takes something
\* away.
LEMMA OnwardStep ==
  ASSUME PlaceOK, WorldOK, Reach, [Next]_vars
  PROVE  Further \/ Fades \/ UNCHANGED vars
<1> USE Sections DEF Further, Enter
<1>1. CASE CreateSession
  BY <1>1 DEF CreateSession, frame
<1>2. CASE Prepare
  BY <1>2, AdvanceFurther DEF Prepare, frame, States, PlaceOK, Reach
<1>3. CASE BuildImages
  <2>1. \/ pc = "build" /\ Advance("SHARED_ENVIRONMENT")
        \/ pc = "build" /\ pc' = "report" /\ machine' = machine
    BY ZenonT(30), <1>3 DEF BuildImages
  <2> QED BY <2>1, AdvanceFurther DEF States, PlaceOK, Reach
<1>4. CASE StartSharedEnvironment
  BY <1>4, AdvanceFurther DEF StartSharedEnvironment, frame, States, PlaceOK,
    Reach
<1>5. CASE LaunchHook
  BY <1>5, AdvanceFurther, Turns DEF LaunchHook, HookFailed,
    RollbackHooksFailed, SetupHooksFailed, CandidateOnlyHooksFailed, frame,
    States, PlaceOK, Reach
<1>6. CASE HookEnds
  <2>1. CASE pc' = "hooks" /\ next' = next + 1 /\ machine' = machine
    BY <1>6, <2>1 DEF HookEnds, PlaceOK
  <2>2. ASSUME NEW result, HookFailed(result) PROVE Further
    BY <1>6, <2>2, AdvanceFurther DEF HookEnds, HookFailed, RollbackHooksFailed,
      SetupHooksFailed, CandidateOnlyHooksFailed, States, PlaceOK
  <2> QED BY <1>6, <2>1, <2>2 DEF HookEnds
<1>7. CASE HooksPass
  BY <1>7, AdvanceFurther DEF HooksPass, frame, States, PlaceOK, Reach
<1>8. CASE LaunchRole
  BY <1>8 DEF LaunchRole, StartFailed, frame
<1>9. CASE AwaitReady
  BY <1>9, AdvanceFurther DEF AwaitReady, StartFailed, frame, States, PlaceOK,
    Reach
<1>10. CASE NextScenario
  BY <1>10, Turns DEF NextScenario, frame
<1>11. CASE StageSharedHealth
  BY <1>11, Turns DEF StageSharedHealth, frame
<1>12. CASE RunScenario
  BY <1>12, Turns DEF RunScenario, frame
<1>13. CASE StageInspect
  BY <1>13, Turns DEF StageInspect, StageCheckFails, frame
<1>14. CASE StageProbe
  <2>1. /\ pc = "probe" /\ machine' = machine
        /\ (pc' = "begin" /\ next' = next + 1) \/ pc' = "ended"
    BY <1>14 DEF StageProbe, StageCheckFails
  <2> QED BY <2>1 DEF PlaceOK
<1>15. CASE CheckBaseShared
  BY <1>15 DEF CheckBaseShared, BaseCheckError, frame
<1>16. CASE CheckBaseInspect
  BY <1>16, AdvanceFurther DEF CheckBaseInspect, BaseNotUsable,
    BaseCheckError, frame, States, PlaceOK, Reach
<1>17. CASE CheckBaseProbe
  BY <1>17, AdvanceFurther DEF CheckBaseProbe, BaseUsable, BaseNotUsable,
    BaseCheckError, frame, States, PlaceOK, Reach
<1>18. CASE BaselineEnds
  BY <1>18, AdvanceFurther DEF BaselineEnds, frame, States, PlaceOK, Reach
<1>19. CASE BaseControlEnds
  BY <1>19, AdvanceFurther DEF BaseControlEnds, frame, States, PlaceOK, Reach
<1>20. CASE CandidateControlEnds
  BY <1>20, AdvanceFurther DEF CandidateControlEnds, frame, States, PlaceOK,
    Reach
<1>21. CASE MixedControlEnds
  BY <1>21, AdvanceFurther DEF MixedControlEnds, frame, States, PlaceOK, Reach
<1>22. CASE CoexistenceEnds
  BY <1>22 DEF CoexistenceEnds, frame
<1>23. CASE TrafficEnds
  BY <1>23, AdvanceFurther DEF TrafficEnds, frame, States, PlaceOK, Reach
<1>24. CASE RollbackEnds
  BY <1>24 DEF RollbackEnds, frame
<1>25. CASE BeginCoexistence
  BY <1>25 DEF BeginCoexistence, frame
<1>26. CASE StopBase
  BY <1>26, AdvanceFurther DEF StopBase, frame, States, PlaceOK, Reach
<1>27. CASE CandidateInspect
  BY <1>27, AdvanceFurther DEF CandidateInspect, CandidateHealth, frame,
    States, PlaceOK, Reach
<1>28. CASE CandidateProbe
  BY <1>28, AdvanceFurther DEF CandidateProbe, CandidateHealth, frame, States,
    PlaceOK, Reach
<1>29. CASE SkipTraffic
  BY <1>29, AdvanceFurther DEF SkipTraffic, frame, States, PlaceOK, Reach
<1>30. CASE StopCandidate
  BY <1>30 DEF StopCandidate, frame
<1>31. CASE Report
  BY <1>31, AdvanceFurther DEF Report, frame, States, PlaceOK, Reach
<1>32. CASE Clean
  BY <1>32, AdvanceFurther DEF Clean, frame, States, PlaceOK, Reach
<1>33. CASE Publish
  BY <1>33, AdvanceFurther DEF Publish, frame, States, PlaceOK, Reach
<1>34. CASE Verify
  BY <1>34 DEF Verify, frame
<1>35. CASE Recover
  BY <1>35 DEF Recover, ExecutePoints, frame
<1>36. CASE Signal \/ SharedLost \/ ComponentLost \/ StrayEnds
  BY <1>36 DEF Signal, SharedLost, ComponentLost, StrayEnds, Fades, frame, world
<1>37. CASE UNCHANGED vars
  BY <1>37
<1> QED BY Actions, <1>1, <1>2, <1>3, <1>4, <1>5, <1>6, <1>7, <1>8, <1>9,
  <1>10, <1>11, <1>12, <1>13, <1>14, <1>15, <1>16, <1>17, <1>18, <1>19, <1>20,
  <1>21, <1>22, <1>23, <1>24, <1>25, <1>26, <1>27, <1>28, <1>29, <1>30, <1>31,
  <1>32, <1>33, <1>34, <1>35, <1>36, <1>37

\* The loops keep to the configured hooks and scenarios.
LEMMA CountedStep ==
  ASSUME PlaceOK, Reach, Counted, [Next]_vars
  PROVE  Counted'
<1>a. /\ \A s \in ScenarioStages : Workload[s] \in Nat \ {0}
      /\ \A s \in HookStages : Hooks[s] \in Nat
  BY WorkloadAssumption, HooksAssumption
<1>b. /\ pc \in Loop => machine \in ScenarioStages
      /\ pc \in {"hooks", "hook"} => machine \in HookStages
      /\ next \in Nat
  BY DEF Reach, Loop, ScenarioStages, HookStages, PlaceOK
<1> USE DEF Counted, Loop, ExecutePoints, Advance, Enter, ResetFrame
<1>1. CASE CreateSession
  BY <1>1 DEF CreateSession, frame
<1>2. CASE Prepare
  BY <1>2 DEF Prepare, frame
<1>3. CASE BuildImages
  BY <1>3 DEF BuildImages, frame
<1>4. CASE StartSharedEnvironment
  BY <1>4, <1>a, <1>b DEF StartSharedEnvironment, frame, Reach,
    ScenarioStages, HookStages
<1>5. CASE LaunchHook
  BY <1>5 DEF LaunchHook, HookFailed, RollbackHooksFailed, SetupHooksFailed,
    CandidateOnlyHooksFailed, frame
<1>6. CASE HookEnds
  <2>1. CASE pc' = "hooks" /\ next' = next + 1 /\ machine' = machine
    BY <1>6, <2>1, <1>a, <1>b DEF HookEnds
  <2>2. ASSUME NEW result, HookFailed(result) PROVE Counted'
    BY <2>2 DEF HookFailed, RollbackHooksFailed, SetupHooksFailed,
      CandidateOnlyHooksFailed
  <2> QED BY <1>6, <2>1, <2>2 DEF HookEnds
<1>7. CASE HooksPass
  BY <1>7 DEF HooksPass, frame
<1>8. CASE LaunchRole
  BY <1>8 DEF LaunchRole, StartFailed, frame
<1>9. CASE AwaitReady
  BY <1>9, <1>a, <1>b DEF AwaitReady, StartFailed, frame, Reach,
    ScenarioStages, HookStages
<1>10. CASE NextScenario
  BY <1>10 DEF NextScenario, frame
<1>11. CASE StageSharedHealth
  BY <1>11 DEF StageSharedHealth, frame
<1>12. CASE RunScenario
  BY <1>12 DEF RunScenario, frame
<1>13. CASE StageInspect
  BY <1>13 DEF StageInspect, StageCheckFails, frame
<1>14. CASE StageProbe
  <2>1. /\ pc = "probe" /\ machine' = machine
        /\ (pc' = "begin" /\ next' = next + 1) \/ pc' = "ended"
    BY <1>14 DEF StageProbe, StageCheckFails
  <2> QED BY <2>1, <1>a, <1>b
<1>15. CASE CheckBaseShared
  BY <1>15 DEF CheckBaseShared, BaseCheckError, frame
<1>16. CASE CheckBaseInspect
  BY <1>16 DEF CheckBaseInspect, BaseNotUsable, BaseCheckError, frame
<1>17. CASE CheckBaseProbe
  BY <1>17, <1>a, <1>b DEF CheckBaseProbe, BaseUsable, BaseNotUsable,
    BaseCheckError, frame, Reach, CheckBase, BaseControls, ScenarioStages, HookStages
<1>18. CASE BaselineEnds
  BY <1>18, <1>a, <1>b DEF BaselineEnds, frame, Reach, ScenarioStages,
    HookStages
<1>19. CASE BaseControlEnds
  BY <1>19 DEF BaseControlEnds, frame
<1>20. CASE CandidateControlEnds
  BY <1>20 DEF CandidateControlEnds, frame
<1>21. CASE MixedControlEnds
  BY <1>21 DEF MixedControlEnds, frame
<1>22. CASE CoexistenceEnds
  BY <1>22 DEF CoexistenceEnds, frame
<1>23. CASE TrafficEnds
  BY <1>23 DEF TrafficEnds, frame
<1>24. CASE RollbackEnds
  BY <1>24 DEF RollbackEnds, frame
<1>25. CASE BeginCoexistence
  BY <1>25, <1>a, <1>b DEF BeginCoexistence, frame, Reach, ScenarioStages,
    HookStages
<1>26. CASE StopBase
  BY <1>26, <1>a, <1>b DEF StopBase, frame, Reach, ScenarioStages, HookStages
<1>27. CASE CandidateInspect
  BY <1>27 DEF CandidateInspect, CandidateHealth, frame
<1>28. CASE CandidateProbe
  BY <1>28, <1>a, <1>b DEF CandidateProbe, CandidateHealth, frame, Reach,
    ScenarioStages, HookStages
<1>29. CASE SkipTraffic
  BY <1>29 DEF SkipTraffic, frame
<1>30. CASE StopCandidate
  BY <1>30, <1>a, <1>b DEF StopCandidate, frame, Reach, ScenarioStages,
    HookStages
<1>31. CASE Report
  BY <1>31 DEF Report, frame
<1>32. CASE Clean
  BY <1>32 DEF Clean, frame
<1>33. CASE Publish
  BY <1>33 DEF Publish, frame
<1>34. CASE Verify
  BY <1>34 DEF Verify, frame
<1>35. CASE Recover
  BY <1>35 DEF Recover, ExecutePoints, frame
<1>36. CASE Signal \/ SharedLost \/ ComponentLost \/ StrayEnds
  BY <1>36 DEF Signal, SharedLost, ComponentLost, StrayEnds, frame
<1>37. CASE UNCHANGED vars
  BY <1>37 DEF vars, frame
<1> QED BY Actions, <1>1, <1>2, <1>3, <1>4, <1>5, <1>6, <1>7, <1>8, <1>9,
  <1>10, <1>11, <1>12, <1>13, <1>14, <1>15, <1>16, <1>17, <1>18, <1>19, <1>20,
  <1>21, <1>22, <1>23, <1>24, <1>25, <1>26, <1>27, <1>28, <1>29, <1>30, <1>31,
  <1>32, <1>33, <1>34, <1>35, <1>36, <1>37

\* Run decides on cleanup before it returns beside a session.
LEMMA CleanupDecidedStep ==
  ASSUME Reach, Swept, CleanupDecided, [Next]_vars
  PROVE  CleanupDecided'
<1> USE DEF CleanupDecided, Enter
<1>1. CASE Signal \/ SharedLost \/ ComponentLost \/ StrayEnds \/ UNCHANGED vars
  BY <1>1 DEF Signal, SharedLost, ComponentLost, StrayEnds, vars, final
<1>2. CASE CreateSession
  BY <1>2 DEF CreateSession, Reach
<1>3. CASE Publish
  BY <1>3 DEF Publish, Swept
<1>4. CASE Verify
  BY <1>4 DEF Verify
<1>5. CASE Recover \/ Report \/ Clean
  BY <1>5 DEF Recover, Report, Clean
<1>6. CASE Prepare \/ BuildImages \/ StartSharedEnvironment \/ LaunchHook
         \/ HookEnds \/ HooksPass
  BY <1>6 DEF Prepare, BuildImages, StartSharedEnvironment, LaunchHook, HookFailed,
    CandidateOnlyHooksFailed, RollbackHooksFailed, SetupHooksFailed, HookEnds, HooksPass
<1>7. CASE LaunchRole \/ AwaitReady \/ NextScenario \/ StageSharedHealth \/ RunScenario
         \/ StageInspect \/ StageProbe
  BY <1>7 DEF LaunchRole, StartFailed, AwaitReady, NextScenario, StageSharedHealth,
    RunScenario, StageInspect, StageCheckFails, StageProbe
<1>8. CASE CheckBaseShared \/ CheckBaseInspect \/ CheckBaseProbe \/ BaselineEnds
         \/ BaseControlEnds \/ CandidateControlEnds \/ MixedControlEnds
  BY <1>8 DEF CheckBaseShared, BaseCheckError, CheckBaseInspect, BaseNotUsable,
    CheckBaseProbe, BaseUsable, BaselineEnds, BaseControlEnds, CandidateControlEnds,
    MixedControlEnds
<1>9. CASE CoexistenceEnds \/ TrafficEnds \/ RollbackEnds \/ BeginCoexistence \/ StopBase
         \/ CandidateInspect \/ CandidateProbe \/ SkipTraffic \/ StopCandidate
  BY <1>9 DEF CoexistenceEnds, TrafficEnds, RollbackEnds, BeginCoexistence, StopBase,
    CandidateInspect, CandidateHealth, CandidateProbe, SkipTraffic, StopCandidate
<1> QED BY Actions, <1>1, <1>2, <1>3, <1>4, <1>5, <1>6, <1>7, <1>8, <1>9

\* No run goes back or round in circles: every step of the program is to a place
\* it has not been at.
THEOREM OnwardHolds == Spec => Onward
<1>1. Inv /\ [Next]_vars => [Further \/ Fades]_vars
  BY OnwardStep DEF Inv, TypeOK
<1> QED BY <1>1, Invariance, PTL DEF Spec, Onward

\* The loops over hooks and scenarios stay within what is configured, whatever
\* the number of hooks and scenarios.
THEOREM CountedHolds == Spec => []Counted
<1>1. Init => Counted
  BY HooksAssumption DEF Init, Counted, ExecutePoints, Loop
<1>2. Inv /\ Counted /\ [Next]_vars => Counted'
  BY CountedStep DEF Inv, TypeOK
<1> QED BY <1>1, <1>2, Invariance, PTL DEF Spec

\* A run that got its artifact session never exits without a decision on
\* cleanup: what AlwaysCleansUp says of an exit, for every workload.
THEOREM CleanupDecidedHolds == Spec => []CleanupDecided
<1>1. Init => CleanupDecided
  BY DEF Init, CleanupDecided
<1>2. FullInv /\ CleanupDecided /\ [Next]_vars => CleanupDecided'
  BY CleanupDecidedStep DEF FullInv, Inv
<1> QED BY <1>1, <1>2, FullInvariance, PTL DEF Spec

-----------------------------------------------------------------------------
(***************************************************************************)
(* The parts of a run fit together: Lifecycle calls a part when its        *)
(* contract lets it, and is prepared for every result the contract allows. *)
(***************************************************************************)

\* A start assigns the instance it returns, and a stop forgets the one it
\* removed.
LEMMA ReferredStep ==
  ASSUME PlaceOK, Reach, Referred, [Next]_vars
  PROVE  Referred'
<1> USE DEF Referred, allInstances, Enter
<1>1. CASE LaunchRole
  BY <1>1 DEF LaunchRole, StartFailed, Assign, ExecutePoints
<1>2. CASE StopBase
  BY <1>2 DEF StopBase, Stop, ExecutePoints, PlaceOK
<1>3. CASE StopCandidate
  BY <1>3 DEF StopCandidate, Stop, ExecutePoints, PlaceOK
<1>4. CASE Clean
  BY <1>4 DEF Clean, ExecutePoints
<1>5. CASE Report \/ Publish \/ Verify \/ Recover
  BY <1>5 DEF Report, Publish, Verify, Recover, ExecutePoints
<1>6. CASE Signal \/ SharedLost \/ ComponentLost \/ StrayEnds \/ UNCHANGED vars
  BY <1>6 DEF Signal, SharedLost, ComponentLost, StrayEnds, vars, world, refs
<1>7. CASE CreateSession \/ Prepare
  BY <1>7 DEF CreateSession, Prepare, ExecutePoints, world, refs
<1>8. ASSUME pc \in ExecutePoints, UNCHANGED <<exists, refs>>
      PROVE  Referred'
  BY <1>8 DEF refs
<1>9. CASE BuildImages \/ StartSharedEnvironment \/ LaunchHook \/ HookEnds \/ HooksPass
  BY <1>8, <1>9 DEF BuildImages, StartSharedEnvironment, LaunchHook, HookEnds, HooksPass,
    HookFailed, ExecutePoints, world, refs
<1>10. CASE AwaitReady \/ NextScenario \/ StageSharedHealth \/ RunScenario
          \/ StageInspect \/ StageProbe
  BY <1>8, <1>10 DEF AwaitReady, NextScenario, StageSharedHealth, RunScenario,
    StageInspect, StageProbe, ExecutePoints, world, refs
<1>11. CASE CheckBaseShared \/ CheckBaseInspect \/ CheckBaseProbe \/ BaselineEnds
          \/ BaseControlEnds \/ CandidateControlEnds \/ MixedControlEnds
  BY <1>8, <1>11 DEF CheckBaseShared, CheckBaseInspect, CheckBaseProbe, BaselineEnds,
    BaseControlEnds, CandidateControlEnds, MixedControlEnds, ExecutePoints, world, refs
<1>12. CASE CoexistenceEnds \/ TrafficEnds \/ RollbackEnds \/ BeginCoexistence
          \/ CandidateInspect \/ CandidateProbe \/ SkipTraffic
  BY <1>8, <1>12 DEF CoexistenceEnds, TrafficEnds, RollbackEnds, BeginCoexistence,
    CandidateInspect, CandidateProbe, CandidateHealth, SkipTraffic, ExecutePoints, world, refs
<1> QED BY Actions, <1>1, <1>2, <1>3, <1>4, <1>5, <1>6, <1>7, <1>9, <1>10, <1>11, <1>12

LEMMA RestartedStep ==
  ASSUME Reach, Restarted, [Next]_vars
  PROVE  Restarted'
<1> USE DEF Restarted, Enter, Advance, Loop
<1>1. CASE LaunchRole
  BY <1>1 DEF LaunchRole, StartFailed, Assign, Starting
<1>2. ASSUME pc' \notin {"ready"} \union Loop
      PROVE  Restarted'
  BY <1>2
<1>3. CASE Startup
  BY <1>2, <1>3 DEF Startup, CreateSession, Prepare, BuildImages, StartSharedEnvironment
<1>4. CASE HookStep
  BY <1>2, <1>4 DEF HookStep, LaunchHook, HookEnds, HooksPass, HookFailed, SetupHooksFailed,
    CandidateOnlyHooksFailed, RollbackHooksFailed
<1>5. CASE FinishStep \/ Recover
  BY <1>2, <1>5 DEF FinishStep, Report, Clean, Publish, Verify, Recover
<1>6. CASE Signal \/ SharedLost \/ ComponentLost \/ StrayEnds \/ UNCHANGED vars
  BY <1>6 DEF Signal, SharedLost, ComponentLost, StrayEnds, vars, refs
<1>7. CASE AwaitReady
  BY <1>7 DEF AwaitReady, StartFailed, refs
<1>8. CASE ScenarioStep
  BY <1>8 DEF ScenarioStep, NextScenario, StageSharedHealth, RunScenario, StageInspect,
    StageProbe, StageCheckFails, refs
<1>9. CASE BaseStep
  BY <1>9 DEF BaseStep, CheckBaseShared, CheckBaseInspect, CheckBaseProbe, BaseCheckError,
    BaseUsable, BaseNotUsable, Reach, CheckBase, BaseControls, refs
<1>10. CASE StageEnds
  BY <1>2, <1>10 DEF StageEnds, BaselineEnds, BaseControlEnds, CandidateControlEnds,
    MixedControlEnds, CoexistenceEnds, TrafficEnds, RollbackEnds
<1>11. CASE CutoverStep
  BY <1>2, <1>11 DEF CutoverStep, BeginCoexistence, StopBase, CandidateInspect, CandidateProbe,
    CandidateHealth, SkipTraffic, StopCandidate, Reach
<1> QED BY Actions, <1>1, <1>3, <1>4, <1>5, <1>6, <1>7, <1>8, <1>9, <1>10, <1>11
        DEF Startup, HookStep, ScenarioStep, BaseStep, StageEnds, CutoverStep, FinishStep

\* A start is of a role that is not there, and what may go wrong with it may go
\* wrong in the run.
LEMMA StartsFit ==
  ASSUME Inv
  PROVE  StartFits
<1> DEFINE S == Starting
<1>1. pc \in {"start", "ready"} =>
        /\ machine \in {"BASE_STARTUP", "CANDIDATE_STARTUP", "ROLLBACK"}
        /\ exists = Expected
  BY DEF Inv, Reach, Present, ExecutePoints
<1>2. /\ pc = "start" => Starting \notin exists
      /\ pc = "ready" => Starting \in exists
  BY <1>1 DEF Starting, Expected
<1>3. pc \in {"start", "ready"} => Concerned = {S}
  BY DEF Concerned
<1>4. ASSUME pc = "start", NEW call \in Returned("start"), call.result = "operational"
      PROVE  LaunchFails(call.exists, call.held)
  <2>1. /\ canceled \/ "docker" \in RoleFaults \/ (call.held /\ "exit" \in RoleFaults)
        /\ call.held => call.exists
    BY <1>4 DEF Returned, Role!Attributed, Role!Accounted
  <2>2. "exit" \in RoleFaults => S \in Faults
    BY <1>3, <1>4, FaultsAssumption DEF RoleFaults, FaultKinds
  <2>3. "docker" \in RoleFaults => "docker" \in Faults
    BY DEF RoleFaults
  <2> QED BY <2>1, <2>2, <2>3 DEF LaunchFails
<1>5. ASSUME pc = "ready", NEW call \in Returned("start"), call.result = "failure"
      PROVE  "fail" \in WaitFailures
  <2>1. \/ {"exit", "slow"} \intersect RoleFaults # {} \/ canceled
        \/ ReadinessType = "command" /\ "docker" \in RoleFaults
    BY <1>5 DEF Returned, Role!Attributed
  <2>2. {"exit", "slow"} \intersect RoleFaults # {} => S \in Faults \/ shared # "healthy"
    BY <1>3, <1>5, FaultsAssumption DEF RoleFaults, FaultKinds
  <2>3. "docker" \in RoleFaults => "docker" \in Faults
    BY DEF RoleFaults
  <2> QED BY <2>1, <2>2, <2>3 DEF WaitFailures, ProbeFails
<1> QED BY <1>2, <1>4, <1>5 DEF StartFits

\* A check is of instances that are there, and what may be wrong with one may be
\* wrong in the run.
LEMMA ChecksFit ==
  ASSUME Inv, Referred, Restarted
  PROVE  CheckFits
<1> DEFINE Checks == {"inspect", "probe", "baseInspect", "baseProbe", "healthInspect", "healthProbe"}
<1>1. ASSUME pc \in Checks PROVE Concerned # {} /\ Concerned \subseteq exists
  <2>1. /\ exists = Expected
        /\ BaseAssigned => base = "base"
        /\ CandidateAssigned => candidate = "candidate"
        /\ allInstances \subseteq exists
    BY <1>1 DEF Inv, Present, Referred, ExecutePoints
  <2>2. CASE pc \in {"baseInspect", "baseProbe"}
    <3>1. machine \in BaseControls
      BY <2>2 DEF Inv, Reach, CheckBase
    <3>2. base = "base" /\ exists # {} /\ "base" \in exists
      BY <2>1, <2>2, <3>1 DEF BaseAssigned, Expected, BaseControls
    <3> QED BY <2>2, <3>2 DEF Concerned
  <2>3. CASE pc \in {"healthInspect", "healthProbe"}
    <3>1. machine = "CANDIDATE_ONLY"
      BY <2>3 DEF Inv, Reach
    <3> QED BY <2>1, <2>3, <3>1 DEF CandidateAssigned, Expected, Concerned
  <2>4. CASE pc \in {"inspect", "probe"}
    <3>1. Concerned = allInstances
      BY <2>4 DEF Concerned
    <3>2. base \in Instances \/ candidate \in Instances
      BY <2>1, <2>4 DEF Inv, Reach, Loop, Restarted, BaseAssigned, CandidateAssigned,
        BaseControls, Instances
    <3>3. allInstances # {}
      BY <3>2 DEF allInstances, Instances
    <3> QED BY <2>1, <3>1, <3>3
  <2> QED BY <1>1, <2>2, <2>3, <2>4
<1>2. ASSUME pc \in Checks, NEW call \in Returned("check"), call.result = "operational"
      PROVE  "error" \in CheckResults
  <2>1. canceled \/ "docker" \in Faults
    BY <1>2 DEF Returned, Role!Attributed, RoleFaults
  <2> QED BY <2>1 DEF CheckResults, InspectResults
<1>3. ASSUME pc \in Checks, NEW call \in Returned("check"), call.result = "failure"
      PROVE  Concerned \intersect CheckResults # {}
  <2>1. \/ {"exit", "slow"} \intersect RoleFaults # {}
        \/ canceled /\ ReadinessType \in {"http", "command"}
        \/ ReadinessType = "command" /\ "docker" \in RoleFaults
    BY <1>3 DEF Returned, Role!Attributed
  <2>2. {"exit", "slow"} \intersect RoleFaults # {} =>
          Concerned \intersect Faults # {} \/ shared # "healthy"
    BY FaultsAssumption DEF RoleFaults, FaultKinds
  <2>3. "docker" \in RoleFaults => "docker" \in Faults
    BY DEF RoleFaults
  <2>4. \E i \in Concerned : ProbeFails(i)
    BY <1>1, <1>3, <2>1, <2>2, <2>3 DEF ProbeFails
  <2> QED BY <2>4 DEF CheckResults, ProbeResults
<1> QED BY <1>1, <1>2, <1>3 DEF CheckFits

\* A stop is of an instance that is there, and may pass or fail.
LEMMA StopsFit ==
  ASSUME Inv
  PROVE  StopFits
<1>1. ASSUME pc \in {"stopBase", "stopCandidate"} PROVE Concerned \subseteq exists
  <2>1. /\ exists = Expected
        /\ BaseAssigned => base = "base"
        /\ CandidateAssigned => candidate = "candidate"
    BY <1>1 DEF Inv, Present, ExecutePoints
  <2>2. /\ pc = "stopBase" => machine = "COEXISTENCE"
        /\ pc = "stopCandidate" => machine = "ROLLBACK"
    BY DEF Inv, Reach
  <2> QED BY <1>1, <2>1, <2>2 DEF Concerned, BaseAssigned, CandidateAssigned, Expected
<1>2. ASSUME NEW call \in Returned("stop"), call.result = "operational"
      PROVE  "error" \in StopResults
  <2>1. canceled \/ "docker" \in Faults
    BY <1>2 DEF Returned, Role!Attributed, RoleFaults
  <2> QED BY <2>1 DEF StopResults
<1> QED BY <1>1, <1>2 DEF StopFits, StopResults

\* A stage meets every return of RunScenario.
LEMMA ScenariosFit == StageFits
<1> SUFFICES ASSUME pc = "run", NEW result \in Scenarios!Result, Scenarios!Allowed(result)
             PROVE  MayReturn(ResultOf[result.outcome], result.lost, result.began)
  BY DEF StageFits
<1>1. /\ result.outcome \in {"PASS", "FAIL", "ERROR", "INCOMPLETE"}
      /\ result.began \in BOOLEAN /\ result.lost \in BOOLEAN
  BY DEF Scenarios!Result
<1>2. /\ result.outcome = "FAIL" => CommandFails
      /\ result.outcome = "INCOMPLETE" => canceled
      /\ result.outcome = "ERROR" => "docker" \in Faults \/ "artifacts" \in Faults
      /\ result.outcome \in {"PASS", "FAIL"} => result.began
      /\ result.lost => "artifacts" \in Faults
  BY FaultsAssumption DEF Scenarios!Allowed, ScenarioFaults, FaultKinds
<1>3. ResultOf[result.outcome] \in ScenarioResults
  BY <1>1, <1>2, Readings DEF ResultOf, ScenarioResults
<1>4. ResultOf[result.outcome] \in {"pass", "fail"} => result.began
  BY <1>1, <1>2 DEF ResultOf
<1> QED BY <1>2, <1>3, <1>4 DEF MayReturn

\* Whatever sequence of results the components, the scenarios and the shared
\* services of a run produce within their contracts, it is one of Lifecycle.
THEOREM PartsFitHolds == Spec => []PartsFit
<1>1. Init => Referred /\ Restarted
  BY DEF Init, Referred, Restarted, allInstances
<1>2. Inv /\ (Referred /\ Restarted) /\ [Next]_vars => (Referred /\ Restarted)'
  BY ReferredStep, RestartedStep DEF Inv, TypeOK
<1>3. Inv /\ (Referred /\ Restarted) => PartsFit
  <2>1. ServicesFit
    BY DEF ServicesFit, Services!MayFail, ServiceFaults, SharedStartFails
  <2>2. CleanFits
    BY DEF CleanFits, Cleanups!MayEnd, CleanupTrouble, Left, MayLeave
  <2> QED BY <2>1, <2>2, StartsFit, ChecksFit, StopsFit, ScenariosFit DEF PartsFit
<1> QED BY <1>1, <1>2, <1>3, Invariance, PTL DEF Spec
=============================================================================
