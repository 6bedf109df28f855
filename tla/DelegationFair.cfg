SPECIFICATION FairSpec
CONSTANTS
  Nodes = {1, 2}
  Roles = {"application_server", "database_server"}
  App = "application_server"
  NoRole = NoRole
  StartRoles <- PairStart
  Workers <- PairWorkers
  Jobs = {"q", "x", "y"}
  Plan <- MCPlan
  Callers = {"c", "d"}
  RunOf <- BatchRuns
  Networks <- PairNetwork
  StopOrder <- PairStopOrder
PROPERTIES
  EveryRunReturns
  StopAllEnds
  NodesKeepContract
