SPECIFICATION FairSpec
CHECK_DEADLOCK FALSE
CONSTANTS
  Proc = {p1, p2}
  Mgr = {m1}
  Commands = {"add", "pause", "resume", "rm"}
  MaxRuns = 2
  UntilDone = TRUE
  NoSpec = NoSpec
  Torn = Torn
  MaxFaults = 1
  Former = Former
  Missing = Missing
  Pidless = Pidless
  LeftLocks = {Former}
  LeftClaims = {Missing}
  MaxCrashes = 1
INVARIANTS
  SlowRunsNeverOverlap
  ExecInv
PROPERTIES
  LockSpec
  LockGivenBack
