SPECIFICATION Spec
CONSTANTS
    Commands = {"incremental"}
    Levels <- TwoLevels
    Configured <- Order
    Progress = FALSE
    Strategy = "truncate"
    Parallelism = 2
    Keyless = {"products"}
    Limits = {0}
    MaxFaults = 0
INVARIANTS SuccessCopiedData
CHECK_DEADLOCK FALSE
