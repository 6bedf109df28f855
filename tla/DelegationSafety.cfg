SPECIFICATION Spec
CONSTANTS
  Nodes = {1, 2, 3}
  Roles = {"application_server", "database_server"}
  App = "application_server"
  NoRole = NoRole
  StartRoles <- MCStart
  Workers <- TwoWorkers
  Jobs = {"p", "x"}
  Plan <- MCPlan
  Callers = {"c", "d"}
  RunOf <- ShortRuns
  Networks <- MCNetworks
  StopOrder <- MCStopOrder
INVARIANTS
  WorkRunsInItsRole
  WaitGraphIsFlat
  ResultsAreTrue
