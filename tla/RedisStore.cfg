SPECIFICATION FairSpec
CONSTANTS
    w = w
    r = r
    Callers <- MCCallers
    Inputs <- MCInputs
    NumInstances = 2
    Keys = {"k1", "k2"}
    Fields <- MCFields
    Tagged = {"own", "emb"}
    OmitEmpty = {"own"}
    Embedded = {"emb"}
    Empty = 0
    Nil = nil
    MaxTries = 1
    MaxFaults = 2
    MaxCalls = 2
PROPERTIES TellsHealth KeepsPromise CallsReturn
CHECK_DEADLOCK FALSE
