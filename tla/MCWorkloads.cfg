CONSTANTS
  Names <- MCNames
  Directory <- MCDirectory
  Documents <- MCDocuments
  FaultSets <- Single
SPECIFICATION Spec
INVARIANTS
  WorkloadGuaranteed
  TargetsRun
  EvidenceIsRun
  BothDirections
  RecordsKept
PROPERTIES
  Promise
