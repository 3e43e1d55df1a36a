SPECIFICATION FairSpec
CONSTANTS
    c1 = c1
    c2 = c2
    Closers <- MCClosers
    MaxErrors = 3
    ChanSize = 2
    MaxSent = 3
    MaxFaults = 3
INVARIANTS NoConnLeak NothingMissed
PROPERTIES CloseReturns DBCloseReturns Settles
CHECK_DEADLOCK FALSE
