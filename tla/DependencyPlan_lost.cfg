SPECIFICATION Spec
CONSTANTS
    a = a
    b = b
    c = c
    d = d
    Tables <- TwoTables
    Order <- TwoConfigured
    MaxLost = 1
INVARIANTS ParentsEarlier
CHECK_DEADLOCK FALSE
