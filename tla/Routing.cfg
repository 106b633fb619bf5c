CONSTANTS
  m1 = m1
  m2 = m2
  d1 = d1
  h1 = h1
  o1 = o1
  c1 = c1
  c2 = c2
  None = None
  Events = {m1, m2, d1, h1, o1}
  Dao = {d1}
  Heartbeats = {h1}
  Odd = {o1}
  Clients = {c1, c2}
  MaxEvents = 2
  Quarter = 1
  MaxWire = 1
  MaxFaults = 1
  MaxTaken = 2
SPECIFICATION FairRouting
INVARIANTS DedupSound OneReconnect NothingVanishes
PROPERTIES LosesOnlyInOutages TakenArrives
CHECK_DEADLOCK FALSE
