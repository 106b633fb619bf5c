CONSTANTS
  r1 = r1
  r2 = r2
  n1 = n1
  n2 = n2
  Relays = {r1, r2}
  Events = {n1, n2}
  Created <- MCCreated
  Reaches <- MCReaches
  Unsteady = {r1}
  Talkers = {r2}
  Odd = {r1}
  Window = 1
  Limit = 1
  MaxTime = 1
  MaxRefused = 1
  MaxRestarts = 1
SPECIFICATION FairSpec
PROPERTIES MovesOnlyPastSeen MeshFollowsRelays
CHECK_DEADLOCK FALSE
