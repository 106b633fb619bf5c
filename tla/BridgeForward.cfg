CONSTANTS
  e1 = e1
  e2 = e2
  e3 = e3
  x = x
  None = None
  Events = {e1, e2, e3, x}
  Forwarded = {e1, e2, e3}
  Deleted = {e1, x}
  Limit = 2
  MaxRow = 4
  Crashes = 1
SPECIFICATION FairSpec
INVARIANTS NothingSkipped NothingSentTwice
PROPERTY ForwardedWhileCursorStays
CHECK_DEADLOCK FALSE
