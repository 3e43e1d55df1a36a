SPECIFICATION FairSpec
CONSTANTS
    c1 = c1
    c2 = c2
    Calls <- MCCalls
    NumFallbacks = 3
    NumReplicas = 2
    MaxTries = 2
    MaxLost = 2
INVARIANTS RepeatedOnlyIfLost Truthful NoFallbackSpared
PROPERTY EndsWithContext
CHECK_DEADLOCK FALSE
