SPECIFICATION FairBatch
CONSTANTS
    d1 = d1
    d2 = d2
    d3 = d3
    Devices <- MCDevices
INVARIANTS ReportTruthful VerdictKept DuplicateOnlyIfLost
PROPERTY BatchEnds
CHECK_DEADLOCK FALSE
