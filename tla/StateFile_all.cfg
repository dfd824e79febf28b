SPECIFICATION FairSpec
CONSTANTS
    Processes = {p, q}
    Tables = {t1, t2}
    MaxPages = 1
    MaxFaults = 1
    MaxCrashes = 2
INVARIANTS NeverTorn FileBehindTarget OverlapBounded
PROPERTIES Atomic EventuallySaved
