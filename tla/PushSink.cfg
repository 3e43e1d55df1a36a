SPECIFICATION FairSpec
CONSTANTS
    n1 = n1
    n2 = n2
    n3 = n3
    w1 = w1
    w2 = w2
    c1 = c1
    c2 = c2
    Probe = probe
    Monitor = monitor
    Free = free
    Notifs <- MCNotifs
    Expired <- MCExpired
    SendThenRead <- MCNone
    Workers <- MCWorkers
    Closers <- MCClosers
    BatchSize = 2
    ChanCap = 1
INVARIANTS BatchesFit Conserved CloseDrains ChannelOpenInUse
PROPERTIES SendAnswered CloseReturns
CHECK_DEADLOCK FALSE
