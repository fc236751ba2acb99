SPECIFICATION ProjSpec
CONSTANTS
    Storages = {a, b, c}
    Nil = Nil
    Commands <- MCCommands
    Batches <- MCBatches
    MaxApplied = 3
INVARIANTS ProjTypeOK ServesCurrent BufferOnlyInTransaction NotifiedIsVisible NoSilentChange
PROPERTY FrozenWhileLoading
SYMMETRY StorageSymmetry
