SPECIFICATION Spec
CONSTANTS
    n1 = n1
    n2 = n2
    i1 = i1
    i2 = i2
    Names <- TwoNames
    Ids <- TwoIds
    NoId = NoId
    Unmanaged = Unmanaged
    Capacity = 2
    MaxEvents = 5
    MaxGaps = 1
SYMMETRY Symmetric
INVARIANTS
    TypeOK
    ToldDeletedAreGone
    CatchesUp
CHECK_DEADLOCK FALSE
