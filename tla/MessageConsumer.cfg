SPECIFICATION FairSpec
CONSTANTS
    Partitions <- MCPartitions
    LogLen = 3
    Key <- MCKey
    OnePerPartition <- MCOnePerPartition
    MaxPoll = 2
    MaxRevocations = 1
INVARIANTS CommittedProcessed ConsumerReady InOrder
PROPERTIES ShutdownEnds AllProcessed
CHECK_DEADLOCK FALSE
