SPECIFICATION Spec
CONSTANTS
    Absent = Absent
    Plugins <- NoPlugin
    max_size_of_file = 2
    MaxLogs = 4
    MaxRestarts = 1
    CanFail = TRUE
CHECK_DEADLOCK FALSE
INVARIANTS
    TypeOK
    RecordsKept
PROPERTIES
    FinishedUntouched
