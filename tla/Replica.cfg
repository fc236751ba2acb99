SPECIFICATION FairSpec
CONSTANTS
    Sockets = {s1, s2, s3, s4}
    TimerRefs = {t1, t2, t3}
    Nil = Nil
    ReconnectDelay = 1
    MaxReconnectDelay = 3
    MaxFaults = 3
    MaxInbox = 4
INVARIANTS TypeOK ReconnectOwned SocketHeard AckTimerOwned
PROPERTY EventuallyReplicating
