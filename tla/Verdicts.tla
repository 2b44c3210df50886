------------------------------ MODULE Verdicts ------------------------------
(***************************************************************************)
(* internal/verdicts: the pure classification of the evidence of a run     *)
(* into the two compatibility verdicts, the overall status and the exit    *)
(* code.                                                                   *)
(*                                                                         *)
(* The Boolean fields of the Evidence struct are the set `established' of  *)
(* the fields that are TRUE.  Its four reason lists are two functions,     *)
(* `failures' and `uncertainty', from the verdict to the set of reason     *)
(* codes recorded for it: uniqueReasons drops duplicates, and no property  *)
(* here depends on the order.  OperationalErrors # empty, InternalError    *)
(* and CleanupFailed are the members of the set `errors'.                  *)
(***************************************************************************)
VerdictNames == {"mixed", "rollback"}

\* The conjuncts of the PASS branch of classifyMixed.
MixedChain == {"BaselinePassed", "TransitionPassed",
               "BaseAfterTransitionPassed", "CandidateStarted",
               "CandidateControlPassed", "BaseWithCandidatePassed",
               "CoexistenceCompleted"}

\* Mutant of RollbackChain: classifyRollback forgets candidate traffic.
RollbackChainWithoutTraffic ==
  {"CandidateStarted", "CandidateControlPassed", "CandidateOnlyCompleted",
   "CandidateMutationRan", "RollbackHooksCompleted", "FreshBaseStarted",
   "RollbackChecksCompleted"}

\* The conjuncts of the PASS branch of classifyRollback.
RollbackChain == {"CandidateStarted", "CandidateControlPassed",
                  "CandidateOnlyCompleted", "CandidateTrafficCompleted",
                  "CandidateMutationRan", "RollbackHooksCompleted",
                  "FreshBaseStarted", "RollbackChecksCompleted"}

Flags == MixedChain \union RollbackChain

Chain(v) == IF v = "mixed" THEN MixedChain ELSE RollbackChain

\* The reason codes of internal/model that the orchestrator records as
\* evidence (the others are produced before a run or only name a stage).
Reason == {"BUILD_FAILED", "SHARED_ENVIRONMENT_FAILED", "BOOTSTRAP_FAILED",
           "BASE_STARTUP_FAILED", "BASELINE_FAILED", "TRANSITION_HOOK_FAILED",
           "BASE_LOST_READINESS", "BASE_AFTER_TRANSITION_CONTROL_FAILED",
           "CANDIDATE_STARTUP_FAILED", "CANDIDATE_CONTROL_FAILED",
           "BASE_WITH_CANDIDATE_CONTROL_FAILED", "COEXISTENCE_SCENARIO_FAILED",
           "REQUIRED_COMPONENT_EXITED", "COMMAND_LAUNCH_FAILED",
           "CANDIDATE_ONLY_HOOK_FAILED", "CANDIDATE_TRAFFIC_FAILED",
           "CANDIDATE_TRAFFIC_INCOMPLETE",
           "NO_CANDIDATE_MUTATION_SCENARIO_RAN", "ROLLBACK_HOOK_FAILED",
           "BASE_RESTART_FAILED", "ROLLBACK_SCENARIO_FAILED", "INTERRUPTED",
           "ORCHESTRATION_ERROR"}

ErrorKinds == {"operational", "internal", "cleanup"}

Statuses == {"PASS", "FAIL", "INCONCLUSIVE"}

ExitCodes == {0, 10, 20, 21, 22, 23, 24, 25}

-----------------------------------------------------------------------------
\* classifyMixed and classifyRollback: a direct failure first, then the
\* complete chain of evidence, otherwise inconclusive.
Status(v, established, failures) ==
  IF failures[v] # {} THEN "FAIL"
  ELSE IF Chain(v) \subseteq established THEN "PASS"
  ELSE "INCONCLUSIVE"

\* The reason codes shown with a verdict.  An inconclusive verdict nobody
\* gave a reason for falls back to ORCHESTRATION_ERROR.
ReasonCodes(v, established, failures, uncertainty) ==
  LET status == Status(v, established, failures)
  IN  CASE status = "FAIL" -> failures[v]
        [] status = "PASS" -> {"NONE"}
        [] status = "INCONCLUSIVE" ->
             IF uncertainty[v] = {} THEN {"ORCHESTRATION_ERROR"}
                                    ELSE uncertainty[v]

\* overall: the exit code by precedence.
ExitCode(established, failures, errors) ==
  LET some(status) ==
        \E v \in VerdictNames : Status(v, established, failures) = status
  IN  IF some("FAIL") THEN 10
      ELSE IF "internal" \in errors THEN 24
      ELSE IF "operational" \in errors THEN 23
      ELSE IF "cleanup" \in errors THEN 25
      ELSE IF some("INCONCLUSIVE") THEN 20
      ELSE 0

\* overall: the status that goes with the exit code.
Overall(established, failures, errors) ==
  LET code == ExitCode(established, failures, errors)
  IN  CASE code = 10 -> "FAIL"
        [] code \in {23, 24, 25} -> "ERROR"
        [] code = 20 -> "INCONCLUSIVE"
        [] code = 0 -> "PASS"
=============================================================================
