SPECIFICATION Spec
CONSTANTS
    s1 = s1
    s2 = s2
    Sentinels <- MCSentinels
    Servers = {r1, r2, r3}
    Nil = Nil
    MaxChanges = 3
INVARIANTS TypeOK UsesVerifiedServer
PROPERTY EventuallyConnected
CHECK_DEADLOCK FALSE
