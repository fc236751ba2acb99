SPECIFICATION FairSpec
CONSTANTS
    Pids = {p1, p2, p3}
    Ids = {x}
    Nil = Nil
    MaxRestarts = 1
INVARIANTS OneOwner SwapAccepted
PROPERTIES KeepsHandle CallsEnd IdFreed
CHECK_DEADLOCK FALSE
