SPECIFICATION FairSpec
CONSTANTS
    Commands = {"full", "incremental", "schema"}
    Levels <- TwoLevels
    Configured <- Order
    Progress = TRUE
    Strategy = "truncate"
    Parallelism = 2
    Keyless = {"products"}
    Limits = {0, 1}
    MaxFaults = 2
INVARIANTS ConnectsInOrder NoActionAfterReturn RootCause
    SuccessIsComplete ErrorsAreCounted FullCopiedData
PROPERTIES CommandReturns
CHECK_DEADLOCK FALSE
