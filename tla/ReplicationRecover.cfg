SPECIFICATION FairSpec
CONSTANTS
    Storages = {a, b, c}
    Nil = Nil
    Commands <- MCCommands
    Batches = {}
    MaxApplied = 0
    Dbs = {0, 1}
    NoDb = NoDb
    HasBacklog = TRUE
    RdbEntries = 2
    MaxStream = 2
    MaxDrops = 1
PROPERTY EventuallyServesMaster
CHECK_DEADLOCK FALSE
