SPECIFICATION FairSpec
CONSTANTS
    n1 = n1
    n2 = n2
    n3 = n3
    w1 = w1
    w2 = w2
    c1 = c1
    c2 = c2
    Probe = probe
    Monitor = monitor
    Free = free
    Notifs <- MCTwoNotifs
    Expired <- MCNone
    SendThenRead <- MCBothRead
    Workers <- MCOneWorker
    Closers <- MCOneCloser
    BatchSize = 2
    ChanCap = 1
PROPERTY EverySenderIsAnswered
CHECK_DEADLOCK FALSE
