SPECIFICATION FairSpec
CONSTANTS
    Tables = {t1, t2}
    Keys <- OneKey
    MaxCursor = 2
    BatchSize = 1
    Every = 2
    MaxFaults = 1
    SerialWriters = TRUE
INVARIANTS SuccessSaved
PROPERTIES FileForward RunEnds
