SPECIFICATION FairSpec
CONSTANTS
  Workload <- OneEach
  Mutating <- FirstMutates
  Hooks <- NoHooks
  ReadinessType = "http"
  KeepOnFailure = FALSE
  Faults <- OnlySignal
INVARIANTS
  InterruptionIsNotFailure
