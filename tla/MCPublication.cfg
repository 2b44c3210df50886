CONSTANTS
  Faults = {"event", "write", "rename", "append", "close", "crash"}
SPECIFICATION Spec
INVARIANTS
  PassIsPublished
  ExitIsReported
  OmitsOnlyLater
PROPERTIES
  NeverLost
