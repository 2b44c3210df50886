CONSTANTS
  Containers <- MCContainers
  Images <- MCImages
  ServiceImages = {"service-image"}
  ImageOf <- MCImageOf
  KeepOnFailure = TRUE
  Faults = {"call", "panic", "removal", "silent", "deadline", "worktree"}
SPECIFICATION Spec
INVARIANTS
  CleanUnlessCleanupFails
PROPERTIES
  Promise
