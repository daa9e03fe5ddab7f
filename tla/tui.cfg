SPECIFICATION TuiSpec
CHECK_DEADLOCK FALSE
CONSTANTS
    NoPhase = NoPhase
    NarratorMax = 1
    AgentCount = 2
    Titles = {"p", "q"}
    Declared <- DeclaredPhases
    PhasesOf <- AgentPhases
    MaxActs = 2
    MaxUnread = 1
    Rows = {8, 14}
    LineRows = {0, 1, 3}
    CardTierMax = 1
    RowTierMax = 1
    NarratorTail = 1
    ResultTailMax = 3
    Seats <- Organisation
    Parent <- ParentOf
    Facts <- Amounts
    FactsAtFirst <- AtFirst
    Busy = {"group"}
    MaxWrites = 1
    MaxStamps = 2
    MaxOthers = 1
    MaxOrgKeys = 4
INVARIANTS
    TuiInv
    NothingReadUnseen
PROPERTIES
    ScreensSettle
