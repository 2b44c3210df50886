SPECIFICATION FairSpec
CONSTANTS
  Workload <- TwoTraffic
  Mutating <- SecondMutates
  Hooks <- NoHooks
  ReadinessType = "command"
  KeepOnFailure = FALSE
  Faults <- ArtifactFaults
PROPERTIES
  AlwaysCleansUp
