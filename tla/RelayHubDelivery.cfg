CONSTANTS
  c1 = c1
  c2 = c2
  c3 = c3
  s1 = s1
  s2 = s2
  e1 = e1
  e2 = e2
  f1 = f1
  f2 = f2
  None = None
  Clients = {c1, c2}
  Challenged <- Nothing
  Slow <- Nothing
  SubIds = {s1, s2}
  Uses <- OwnUses
  Events = {e1, e2}
  Filters = {f1, f2}
  Finds <- FindsOf
  Suits <- SuitsOf
  Clashes <- ClashF2
  Expiring <- Nothing
  Spoilt <- JustE2
  Imports <- JustE2
  Mutes <- MutesE1
  QueryLimit = 1
  MaxConn = 2
SPECIFICATION Spec
INVARIANTS NoGap SubscriptionKept
CHECK_DEADLOCK FALSE
