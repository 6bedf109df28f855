SPECIFICATION FairSpec
CONSTANTS
  MaxVersion = 2
  MaxFailures = 1
  MaxCrashes = 1
INVARIANTS
  SavedIsDurable
  QuietExitSavesAll
PROPERTIES
  StopEnds
  AliveAutosaveCatchesUp
