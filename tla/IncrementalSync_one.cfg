SPECIFICATION FairSpec
CONSTANTS
    Tables = {t1}
    Keys <- ThreeKeys
    MaxCursor = 3
    BatchSize = 2
    Every = 2
    MaxFaults = 1
    SerialWriters = TRUE
INVARIANTS FileCovered StoreCovered BoundedReplay
PROPERTIES EventuallyCaughtUp ImplementsReplica
