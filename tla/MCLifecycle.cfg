SPECIFICATION Spec
CONSTANTS
  Workload <- OneEach
  Mutating <- FirstMutates
  Hooks <- OneHookEach
  ReadinessType = "http"
  KeepOnFailure = TRUE
  Faults <- WorldFaults
INVARIANTS
  Isolation
  FailGrounded
  DoubtExplained
  PassIsEarned
  PartsFit
  FailureVisible
PROPERTIES
  VerdictsFinal
  Onward
  InterruptStopsLaunches
