SPECIFICATION FairSpec
CONSTANTS
  Workload <- OneEach
  Mutating <- FirstMutates
  Hooks <- OneHookEach
  ReadinessType = "tcp"
  KeepOnFailure = FALSE
  Faults <- OnlyCommands
INVARIANTS
  HooksAreOver
