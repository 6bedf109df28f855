SPECIFICATION Spec
CONSTANTS
  NoKind = NoKind
  NoPhase = NoPhase
  Nowhere = Nowhere
  Units <- MCUnits
  Crew <- MCCrew
  Classic = {"module"}
  Alone = {"module", "solo"}
  Ids <- MCIds
  Plans <- MCPlans
  Files <- MCFiles
  Kinds <- MCKinds
  Main = "main"
  Saves <- MCSaves
  Racks = {"n1"}
  MaxJobs = 2
  MaxSteps = 2
  MaxServers = 1
  MaxFaults = 1
  MaxInterrupts = 1
  Catalog <- MCCatalog
  NoPart = NoPart
  Boards <- MCBoards
  PartsIn <- MCPartsIn
  Owned <- MCOwned
  MaxList = 2
INVARIANTS
  WaitedMeansRecorded
  NothingLeftBehind
  SoundRunsReturn
  BuiltCardsHaveSlots
  VerdictIsExact
PROPERTIES
  UnitsKeepContract
  ProgramGoesOn
