CONSTANTS
  Runs <- MCRuns
  Names <- MCNames
  Keys <- MCKeys
  Instances <- MCInstances
SPECIFICATION FairSpec
INVARIANTS
  MadeIsKnown
  ReadyIsUsable
  GoneIsGone
PROPERTIES
  Promise
  RunsAreApart
  StartReturns
