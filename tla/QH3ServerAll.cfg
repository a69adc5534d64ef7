SPECIFICATION FairSpec
CONSTANTS
    c1 = c1
    slash = slash
    path1 = path1
    NoPath = NoPath
    Conns <- OneConn
    MaxRequests = 3
    Paths <- AllPaths
    ShortPaths <- Slash
    Lengths <- OneAndFour
    SEND_CHUNK_SIZE = 2
    Capacities <- OneAndThree
CHECK_DEADLOCK FALSE
INVARIANTS
    TypeOK
    BodyInOrder
PROPERTIES
    ResponseCompletes
    QueueDrained
