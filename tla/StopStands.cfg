SPECIFICATION Spec
CONSTANTS
    t1 = t1
    t2 = t2
    t3 = t3
    Tasks <- TwoTasks
    Rpcs = {"create", "stop"}
    StartRetries = 1
    PatchFails = FALSE
    NoTask = NoTask
    NoSandbox = NoSandbox
    Foreign = Foreign
SYMMETRY Symmetric
INVARIANT
    StopStands
CHECK_DEADLOCK FALSE
