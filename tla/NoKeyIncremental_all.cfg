SPECIFICATION FairSpec
CONSTANTS
    Rows = {r1, r2, r3}
    MaxCursor = 3
    GroupLimit = 2
    Every = 2
    MaxFaults = 1
    Deletes = TRUE
INVARIANTS NoDuplicates FileCovered
PROPERTIES EventuallyCaughtUp RunEnds DoneBehindFile
