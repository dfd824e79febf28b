SPECIFICATION Spec
CONSTANTS
    a = a
    b = b
    c = c
    d = d
    Tables <- TwoTables
    Order <- TwoMappings
    MaxLost = 0
INVARIANTS EveryMappingOnce
CHECK_DEADLOCK FALSE
