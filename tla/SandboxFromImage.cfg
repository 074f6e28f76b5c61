SPECIFICATION JointSpec
CONSTANTS
    None = None
    d1 = d1
    d2 = d2
    t1 = t1
    t2 = t2
    Drivers <- MCDrivers
    Tasks <- MCTasks
    Scenarios <- MCScenarios
    Width = 3
    ReadLimit = 6
    MaxChanges = 2
    MaxHops = 2
    MaxTarget = 3
    MaxId = 32767
    Groups = 3
    Images <- MCImages
    Names <- MCNames
    Chunk = 2
    Unnameable <- MCUnnameable
    Responses <- MCResponses
INVARIANTS
    JointTypeOK
    PeersAreTrusted
    EgressIsConfined
    GatewayIsAllowed
    RacesEndWell
    DhcpClientIsStatic
    NoOtherInit
    StaysInRootfs
    OwnersAreRestored
    UploadIsTrue
CHECK_DEADLOCK FALSE
