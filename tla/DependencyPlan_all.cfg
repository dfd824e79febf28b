SPECIFICATION FairSpec
CONSTANTS
    a = a
    b = b
    c = c
    d = d
    Tables <- FourTables
    Order <- ThreeConfigured
    MaxLost = 1
INVARIANTS ReadParentsEarlier EveryMappingOnce LevelsTight CycleIsReal
PROPERTIES PlanningEnds
CHECK_DEADLOCK FALSE
