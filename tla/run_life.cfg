SPECIFICATION FairSpec
CHECK_DEADLOCK FALSE
CONSTANTS
  Commands = {1, 2}
  Kinds <- MCKinds
  DeadChecks = 2
INVARIANTS
  DeadIsFinal
PROPERTIES
  ForeignSpared
  WatchReturns
  CommandsTakeEffect
