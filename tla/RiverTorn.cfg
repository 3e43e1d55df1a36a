SPECIFICATION FairSpec
CONSTANTS
    p1 = p1
    p2 = p2
    Nobody = nobody
    Pushers <- MCPushers
    Deadlined <- MCDeadlined
    NumMasters = 2
    MaxFlaps = 1
    MaxPools = 5

PROPERTY PushSucceeds
CHECK_DEADLOCK FALSE
