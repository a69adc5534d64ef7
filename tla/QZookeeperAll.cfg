SPECIFICATION FairSpec
CONSTANTS
    k1 = k1
    k2 = k2
    Keys <- TwoKeys
    MAX_RETRY = 1
    MaxHandles = 3
    MaxChanges = 2
    MaxFaults = 2
CHECK_DEADLOCK FALSE
INVARIANTS
    TypeOK
    OneHandle
    ConfigCurrent
PROPERTY
    StartReturns
