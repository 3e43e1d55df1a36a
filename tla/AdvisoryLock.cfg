SPECIFICATION FairSpec
CONSTANTS
    r1 = r1
    r2 = r2
    m1 = m1
    m2 = m2
    k1 = k1
    k2 = k2
    k3 = k3
    Nil = nil
    Stale = stale
    Runtimes <- MCRuntimes
    Mutexes <- MCMutexes
    Conns <- MCConns
    RuntimeOf <- MCRuntimeOf
    HomesOf <- MCHomesOf
    MaxFaults = 1
INVARIANT ToldSoHasIt
PROPERTY HeldIsUsable
PROPERTY CloseReturns
CHECK_DEADLOCK FALSE
