SPECIFICATION FairSpec
CONSTANTS
    c1 = c1
    c2 = c2
    c3 = c3
    c4 = c4
    NoConn = NoConn
    Conns <- Conns3
    Configs <- Party
    MaxRooms = 2
    MAX_COUNT_DOWN = 2
CHECK_DEADLOCK FALSE
PROPERTIES
    EndedRoomDeleted
    WaitingRoomResolves

