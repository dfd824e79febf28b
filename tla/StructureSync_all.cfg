SPECIFICATION FairSpec
CONSTANTS
    Tables = {orders, events}
    Names = {"id", "name", "extra", "by_name"}
    orders = orders
    events = events
    SchemaOf <- OneSchema
    Columns <- TwoColumns
    Serial = "id"
    Identity = {orders}
    Indexes <- OneIndex
    IndexColumns <- OfName
    Misfits <- NullsAndDuplicates
    InitialTables <- Targets
    MaxValue = 1
    MaxFaults = 1
INVARIANTS SuccessIsStructured RefusalIsExplained SequencesCaughtUp
PROPERTIES StaysStructured EventuallyStructured
