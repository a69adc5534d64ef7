SPECIFICATION Spec
CONSTANTS
    c1 = c1
    c2 = c2
    c3 = c3
    c4 = c4
    NoConn = NoConn
    Conns <- Conns4
    Configs <- Mixed
    MaxRooms = 3
    MAX_COUNT_DOWN = 1
SYMMETRY Symmetry
CHECK_DEADLOCK FALSE
INVARIANTS
    RoomCountExact
    WaitingCountCovers
    ListsMatchState
