SPECIFICATION FairSpec
CONSTANTS
    t1 = t1
    t2 = t2
    p1 = p1
    p2 = p2
    d1 = d1
    Tasks <- TwoTasks
    Processes <- TwoProcesses
    Digests <- OneDigest
    Revisions <- TwoRevisions
    Legacy = Legacy
    None = None
INVARIANTS
    TypeOK
    ResolvedStays
    ImportsAreNeeded
    NothingIsLeftBehind
PROPERTY
    EveryResolveEnds
CHECK_DEADLOCK FALSE
