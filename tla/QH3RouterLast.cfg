SPECIFICATION Spec
CONSTANTS
    s1 = s1
    s2 = s2
    cc = cc
    Servers <- TwoServers
    CommandCenter = cc
    Spawned <- OneSpawned
    MaxStarts = 2
    MaxPackets = 2
CHECK_DEADLOCK FALSE
INVARIANT CommandCenterLast
