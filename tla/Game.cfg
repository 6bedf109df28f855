SPECIFICATION Spec
CONSTANTS
  Switch = "network_switch"
  NoIface = NoIface
  Ids = {n1, n2}
  Roles = {"application_server", "network_switch"}
  GivenNames = {"name"}
  NoName = NoName
  Kits = {"duo", "bare"}
  Parts = {"board", "nic"}
  KitParts <- MCKitParts
  KitNics <- MCKitNics
  Compatible <- MCCompatible
  Prebuilt = {"application_server"}
  PrebuiltKit <- MCPrebuiltKit
  CableIds = {"cat6", "cat8"}
  Addresses <- MCAddresses
  Routes <- MCRoutes
  Quantities = {1}
  MaxPort = 1
  MaxEntries = 1
  MaxBought = 1
  MaxVersion = 2
SYMMETRY
  MCSymmetry
INVARIANTS
  AssetsConserved
  RestoresAll
  LoadableUnlessStranded
  CablesFitUnlessStranded
PROPERTIES
  OnlyRolesStrand
  ChangesBumpVersion
