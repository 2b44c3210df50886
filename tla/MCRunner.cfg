CONSTANTS
  Platforms = {"unix", "windows"}
  Children = {c1, c2}
  Limit = 1
  MaxOutput = 2
  Bounded = TRUE
  Faults = {"launch", "attach", "terminate", "wait"}
SPECIFICATION Spec
INVARIANTS
  TreeGone
  OutputComplete
PROPERTIES
  Promise
  CallReturns
