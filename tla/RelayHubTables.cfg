CONSTANTS
  c1 = c1
  c2 = c2
  c3 = c3
  s1 = s1
  s2 = s2
  e1 = e1
  e2 = e2
  f1 = f1
  f2 = f2
  None = None
  Clients = {c1, c2, c3}
  Challenged <- C1Alone
  Slow <- C1Alone
  SubIds = {s1}
  Uses <- ThreeUses
  Events = {e1}
  Filters = {f1}
  Finds <- OneFilter
  Suits <- OneFilter
  Clashes <- Nothing
  Expiring <- Nothing
  Spoilt <- Nothing
  Imports <- Nothing
  Mutes <- Nothing
  QueryLimit = 1
  MaxConn = 2
SPECIFICATION FairSpec
INVARIANTS NoOrphanSubscription SlotsMatchConnections
PROPERTY HandlerReturns
CHECK_DEADLOCK FALSE
