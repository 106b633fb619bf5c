CONSTANTS
  e1 = e1
  e2 = e2
  t1 = t1
  t2 = t2
  t3 = t3
  None = None
  Eose = Eose
  Eof = Eof
  Events = {e1, e2}
  created <- MCCreated
  Conns <- MCConns
  Limit = 1
  Default = 2
  Threads = {t1, t2, t3}
  Followers = {t1, t3}
  Generators = {t3}
  MaxRetries = 2
  MaxTime = 2
  Plans <- MCPlans
  Users = {u1, u2}
  Keys = {k1, k2}
  Ttl = 0
  Wss = wss
  Sse = sse
  Others = {other}
  Cooldown = 2
  Probe = Probe
  Tries <- MCTries
  Watched <- MCWatched
SPECIFICATION SystemSpec
INVARIANTS NoQueueLeft IdsDiffer TokenNamesItsKey FailureNamed
PROPERTIES LeavesNothingBehind GivesUp
CHECK_DEADLOCK FALSE
