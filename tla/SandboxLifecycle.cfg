SPECIFICATION FairSpec
CONSTANTS
    t1 = t1
    t2 = t2
    t3 = t3
    Tasks <- TwoTasks
    Rpcs = {"create", "start", "stop", "delete"}
    StartRetries = 2
    PatchFails = FALSE
    NoTask = NoTask
    NoSandbox = NoSandbox
    Foreign = Foreign
INVARIANTS TypeOK MarkedStopStands DeletedIsGone ForeignUntouched MarkerHasAuthor
PROPERTY
    EveryRpcEnds
CHECK_DEADLOCK FALSE
