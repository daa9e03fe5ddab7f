SPECIFICATION LockFairSpec
CHECK_DEADLOCK FALSE
CONSTANTS
  Proc = {p1, p2}
  Former = Former
  Missing = Missing
  Pidless = Pidless
  LeftLocks = {Former, Missing, Pidless}
  LeftClaims = {Former, Missing, Pidless}
  MaxCrashes = 1
INVARIANTS
  NothingLeftBehind
PROPERTIES
  LockAnswers
