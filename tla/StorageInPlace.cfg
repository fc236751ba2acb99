SPECIFICATION Spec
CONSTANTS
    Keys <- MCKeys
    Bytes <- Elements
    Dbs = {0, 1}
    Commands <- MCCommands
    MaxInt = 1
    MaxSize = 4
    MaxScore = 3
INVARIANT UnionIsStored
