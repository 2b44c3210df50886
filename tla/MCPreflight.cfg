CONSTANTS
  Faults = {"refuse", "add", "remove", "files", "panic", "signal"}
SPECIFICATION Spec
INVARIANTS
  SuccessLeavesNothing
  LeftoversExplained
  PreparedIsSound
CHECK_DEADLOCK FALSE
