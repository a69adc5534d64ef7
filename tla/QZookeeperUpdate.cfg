SPECIFICATION ServiceSpec
CONSTANTS
    k1 = k1
    k2 = k2
    Keys <- OneKey
    MAX_RETRY = 2
    MaxHandles = 3
    MaxChanges = 1
    MaxFaults = 2
CHECK_DEADLOCK FALSE
PROPERTY
    ConfigFollows
