SPECIFICATION FairSpec
CONSTANTS
    p1 = p1
    p2 = p2
    Nobody = nobody
    Pushers <- MCPushers
    Deadlined <- MCDeadlined
    NumMasters = 3
    MaxFlaps = 2
    MaxPools = 8
INVARIANTS OnlyActiveOpen TriesCurrentLast
PROPERTIES EndsWithContext PushFindsMaster
CHECK_DEADLOCK FALSE
