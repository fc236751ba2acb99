SPECIFICATION Spec
CONSTANTS
    Storages = {a, b, c}
    Nil = Nil
    Commands <- MCCommands
    Batches = {}
    MaxApplied = 0
    Dbs = {0, 1}
    NoDb = NoDb
    HasBacklog = FALSE
    RdbEntries = 2
    MaxStream = 2
    MaxDrops = 1
CHECK_DEADLOCK FALSE
INVARIANT ReadsSeeWholeSnapshot
