SPECIFICATION Spec
CONSTANTS
    a = a
    b = b
    Seats = {a, b}
    NoRow = NoRow
    NoSeat = NoSeat
    Whole = Whole
    Ledger <- MCLedger
    Commands <- MCCommands
    TickModes <- MCTickModes
    Others = {{}, {b}}
    Outcomes = {"works", "sloppy", "fails", "half"}
    Reports <- MCReports
    MaxReplays = 2
    MaxTicks = 1
    MaxAudits = 1
    MaxCrashes = 1
INVARIANTS ReplayInv NoFalseTrespass
PROPERTY CommitIsLinted
CHECK_DEADLOCK FALSE
