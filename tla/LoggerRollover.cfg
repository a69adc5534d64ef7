SPECIFICATION Spec
CONSTANTS
    Absent = Absent
    Plugins <- NoPlugin
    max_size_of_file = 1
    MaxLogs = 3
    MaxRestarts = 0
    CanFail = FALSE
CHECK_DEADLOCK FALSE
INVARIANTS
    RecordAllocated
