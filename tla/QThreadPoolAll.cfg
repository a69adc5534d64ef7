SPECIFICATION FairSpec
CONSTANTS
    t1 = t1
    t2 = t2
    t3 = t3
    NoTask = NoTask
    num_threads = 3
    Tasks <- ThreeTasks
    Notified <- TwoNotified
CHECK_DEADLOCK FALSE
INVARIANTS
    TypeOK
    StartedInOrder
    NothingLost
    StopDrains
PROPERTIES
    TasksRun
    StopReturns
