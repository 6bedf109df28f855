SPECIFICATION FairSpec
CONSTANTS
  Workers = {t1, t2}
  Clients = {c1, c2}
  Works = {w1, w2, w3}
  Roles = {app}
  NoWork = NoWork
  NoRole = NoRole
  Slow = {w1}
PROPERTIES
  WaitForIsIndependent
