SPECIFICATION FairSpec
CONSTANTS
  Workers = {t1, t2}
  Clients = {c1, c2}
  Works = {w1, w2}
  Roles = {app, db}
  NoWork = NoWork
  NoRole = NoRole
  Slow = {}
INVARIANTS
  TypeOK
  WorkAccounting
  NoDeafClient
  QueueHasTaker
PROPERTIES
  ImplementsContract
  AcceptedWorkFinishes
  StopTerminates
  WaitForIsIndependent
  FailedStartLeavesNoThread
