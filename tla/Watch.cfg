SPECIFICATION FairSpec
CONSTANTS
    Pids = {p1, p2}
    Refs = {r}
    DbKeys <- MCDbKeys
    DbPrefixes <- MCDbPrefixes
    MaxCalls = 2
    MaxIdx = 2
INVARIANTS LookupsExact NoLeak MonitoredOrGone
PROPERTIES Implements DeadForgotten
CHECK_DEADLOCK FALSE
