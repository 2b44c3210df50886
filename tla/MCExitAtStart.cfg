CONSTANTS
  Count = 2
  Readiness <- MCTwo
  Ports <- MCPorts
  Networks = 1
  FaultSets = {{"exit"}}
  MaxCalls = 1
SPECIFICATION Spec
INVARIANTS
  ExitIsTheComponents
