SPECIFICATION Spec
CHECK_DEADLOCK FALSE
CONSTANTS
  Calls = {1, 2}
  MaxCalls = 2
  Slots = 1
  Isolated = {}
  LifetimeCap = 2
  BudgetTotal = 1
  NoBudget = NoBudget
  MaxUsage = 1
  MaxBatch = 2
PROPERTIES
  PendingAtStopResolveNull
