SPECIFICATION FairSpec
CONSTANTS
    Storages = {a, b, c}
    Nil = Nil
    Commands <- MCCommands
    Batches = {}
    MaxApplied = 0
    Dbs = {0, 1}
    NoDb = NoDb
    HasBacklog = TRUE
    RdbEntries = 2
    MaxStream = 4
    MaxDrops = 2
INVARIANTS VisibleExact TxAtomic OffsetTracksStream
PROPERTY CleanResyncServesMaster
CHECK_DEADLOCK FALSE
