SPECIFICATION FairSpec
CONSTANTS
    Absent = Absent
    Plugins <- NodeThread
    max_size_of_file = 1
    MaxLogs = 2
    MaxRestarts = 0
    CanFail = FALSE
CHECK_DEADLOCK FALSE
INVARIANTS
    OrderKept
PROPERTIES
    ExitCompletes
    QueueWritten
