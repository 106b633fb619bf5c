CONSTANTS
  Events = {"ask", "reply"}
  Relays = {"r1", "r2"}
  Agents = {"agent"}
  Mentions <- MCMentions
  Wishes <- MCWishes
  QueueMax = 1
  BatchSize = 1
  ScanSize = 2
  Failures = 1
  Restarts = 1
  None = None
SPECIFICATION FairSpec
INVARIANTS EveryTargetOffered RoutedByPreferences
PROPERTIES QueueDrains PoolFollowsRelays
