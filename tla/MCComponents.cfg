CONSTANTS
  Count = 3
  Readiness <- MCReadiness
  Ports <- MCPorts
  Networks = 1
  FaultSets <- MCFaultSets
  MaxCalls = 3
SPECIFICATION FairSpec
INVARIANTS
  StartedInTurn
  LeftIsAccounted
  DeadAreFound
PROPERTIES
  CallsReturn
  Promise
