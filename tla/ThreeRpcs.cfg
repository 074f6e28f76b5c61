SPECIFICATION Spec
CONSTANTS
    t1 = t1
    t2 = t2
    t3 = t3
    Tasks <- ThreeTasks
    Rpcs = {"create", "start", "stop", "delete"}
    StartRetries = 1
    PatchFails = FALSE
    NoTask = NoTask
    NoSandbox = NoSandbox
    Foreign = Foreign
SYMMETRY Symmetric
INVARIANTS
    TypeOK
    MarkedStopStands
    DeletedIsGone
    ForeignUntouched
    MarkerHasAuthor
CHECK_DEADLOCK FALSE
