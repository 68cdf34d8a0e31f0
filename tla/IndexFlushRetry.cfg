SPECIFICATION FlushSpec
CONSTANTS
    NumShards = 2
    MaxVersion = 2
    MaxTxn = 4
    FaultPlans <- MCRetry
    Torn = Torn
    Corrupt = Corrupt
CHECK_DEADLOCK FALSE
INVARIANT
    OpenSucceeds
