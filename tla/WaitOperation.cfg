SPECIFICATION FairSpec
CONSTANTS
    MaxFaults = 3
    MaxQueue = 2
INVARIANTS
    TypeOK
    AnswersAreTrue
PROPERTY
    AnsweredUnlessStranded
CHECK_DEADLOCK FALSE
