SPECIFICATION Spec
CONSTANTS
    t1 = t1
    t2 = t2
    d1 = d1
    d2 = d2
    Tasks <- TwoTasks
    Digests <- TwoDigests
    Gc = Gc
    NoDigest = NoDigest
    NoActor = NoActor
    MaxReleases = 1
    MaxCollections = 1
INVARIANT
    BinaryStays
CHECK_DEADLOCK FALSE
