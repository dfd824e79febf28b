SPECIFICATION FairSpec
CONSTANTS
    parent = parent
    other = other
    child = child
    p1 = p1
    p2 = p2
    o1 = o1
    c1 = c1
    c2 = c2
    NoRow = NoRow
    Tables <- ThreeTables
    Rows <- FiveRows
    TableOf <- RowTables
    RefersTo <- References
    LevelOf <- TwoLevels
    Keyed <- KeyedTables
    Strategies = {"truncate", "delete", "append"}
    MaxRuns = 2
    MaxWrites = 2
    MaxFaults = 1
INVARIANTS SuccessIsSnapshot SuccessIsIntact CopyIsWhole FailureHasReason
PROPERTIES RunReturns
CHECK_DEADLOCK FALSE
