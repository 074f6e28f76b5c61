SPECIFICATION FairSpec
CONSTANTS
    MaxFaults = 3
    MaxQueue = 2
PROPERTY
    FinishedIsAnswered
CHECK_DEADLOCK FALSE
