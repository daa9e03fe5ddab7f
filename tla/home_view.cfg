SPECIFICATION BoundedSpec
CHECK_DEADLOCK FALSE
CONSTANTS
  Names = {a, b}
  Foreign = {f}
  Cmds = {c1}
  Tui = tui
  NoSpec = NoSpec
  Torn = Torn
  NoOne = NoOne
  MaxFaults = 1
  MaxEdits = 1
  MaxKeys = 1
INVARIANTS
  DeskInv
  CrontabKept
PROPERTIES
  RemovesConfirmed
  ScreenCatchesUp
