SPECIFICATION FairSpec
CONSTANTS
    p1 = p1
    p2 = p2
    Nobody = nobody
    Pushers <- MCPushers
    Deadlined <- MCNone
    NumMasters = 2
    MaxFlaps = 1
    MaxPools = 5

PROPERTY SwitchesOnce
CHECK_DEADLOCK FALSE
