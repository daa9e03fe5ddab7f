SPECIFICATION FairSpec
CHECK_DEADLOCK FALSE
CONSTANTS
  Calls = {1, 2}
  MaxCalls = 2
  Slots = 1
  Isolated = {1}
  LifetimeCap = 2
  BudgetTotal = 1
  NoBudget = NoBudget
  MaxUsage = 1
  MaxBatch = 2
INVARIANTS
  TypeOK
  ExecutorOutlivesNothing
  WorktreesAccounted
  CompleteUnlessTimedOut
  ConcurrencyBounded
PROPERTIES
  NoOvertaking
  AbortWins
  StopAdmitsNothing
  BudgetGatesStart
  ImplementsContract
  SemSpec
  NothingHangs
