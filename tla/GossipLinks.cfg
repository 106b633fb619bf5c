CONSTANTS
  ann = ann
  ben = ben
  k1 = k1
  Shards <- ThreeShards
  Agents = {ann, ben}
  Watched = {ann}
  Conns = {k1}
  Fed = {1}
  Attempts = 1
  MaxMessages = 2
  Frail = {0}
  MaxCrashes = 1
SPECIFICATION FairShardSpec
INVARIANTS OneLinkPerPeer
CHECK_DEADLOCK FALSE
PROPERTIES StormSettles GoneAreForgotten
