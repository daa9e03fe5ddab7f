SPECIFICATION LockSpec
CHECK_DEADLOCK FALSE
CONSTANTS
  Proc = {p1, p2, p3}
  Former = Former
  Missing = Missing
  Pidless = Pidless
  LeftLocks = {Missing}
  LeftClaims = {Missing}
  MaxCrashes = 0
INVARIANT
  MutualExclusion
