SPECIFICATION Spec
CONSTANTS
    t1 = t1
    t2 = t2
    t3 = t3
    n1 = n1
    n2 = n2
    a1 = a1
    a2 = a2
    a3 = a3
    a4 = a4
    Tasks <- MCTasks
    Names <- MCNames
    Arcs <- MCArcs
    NoTask = NoTask
    NoName = NoName
    NoArc = NoArc
SYMMETRY Symmetric
INVARIANTS
    TypeOK
    MutualExclusion
    ClonesAreCurrent
PROPERTY
    ImplementsNameMutex
