SPECIFICATION Spec
CONSTANTS
  MaxVersion = 2
  MaxFailures = 0
  MaxCrashes = 0
INVARIANTS
  FileNeverPartial
