SPECIFICATION Spec
CONSTANTS
    c1 = c1
    c2 = c2
    c3 = c3
    c4 = c4
    NoConn = NoConn
    Conns <- Conns4
    Configs <- Party
    MaxRooms = 2
    MAX_COUNT_DOWN = 2
SYMMETRY Symmetry
CHECK_DEADLOCK FALSE
INVARIANTS
    TypeOK
    MembershipConsistent
    OneWaitingRoom
    SeatsKept
    CountdownSound
    RosterAgreement
    ObserverBalanced
PROPERTIES
    RoomMovesForward
    OnlyReturnsAfterStart
    ImplementsService
