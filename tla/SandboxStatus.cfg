SPECIFICATION Spec
CONSTANT
    MaxStops = 2
INVARIANTS
    TypeOK
    RestartIsConfirmed
    RuntimeStopsAreTold
    RequestedStopsAreTold
CHECK_DEADLOCK FALSE
