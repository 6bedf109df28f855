SPECIFICATION Spec
CONSTANTS
  Switch = "network_switch"
  NoIface = NoIface
  Nodes <- AllNodes
  Worlds <- MCWorlds
  Width = 2
  Plan <- AllPlan
  RoutePlan <- MCRoutes
INVARIANTS
  ResolveIsForwarding
  HopsAreAWalk
  L2PathIsShortest
CHECK_DEADLOCK FALSE
