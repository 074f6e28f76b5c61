SPECIFICATION Spec
CONSTANTS
    n1 = n1
    n2 = n2
    i1 = i1
    i2 = i2
    Names <- OneName
    Ids <- TwoIds
    NoId = NoId
    Unmanaged = Unmanaged
    Capacity = 2
    MaxEvents = 3
    MaxGaps = 0
SYMMETRY Symmetric
INVARIANT
    DeletedAreGone
CHECK_DEADLOCK FALSE
