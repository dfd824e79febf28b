SPECIFICATION FairSpec
CONSTANTS
    Tables = {t1}
    Keys <- TwoKeys
    MaxCursor = 2
    BatchSize = 1
    Every = 2
    MaxFaults = 1
    SerialWriters = FALSE
PROPERTIES EventuallyCaughtUp
