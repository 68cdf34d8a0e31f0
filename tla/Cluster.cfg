SPECIFICATION PartSpec
CONSTANTS
    Callers = {"w1", "w2", "w3"}
    NShards = 3
    HomeShard = 0
    Kind <- MCKind
    StrictDelete = FALSE
    Plays <- MCPlays
    MaxFaults = 3
    Objects = {"k1", "k2", "k3"}
    Slots = 3
    Admins = {"a", "b"}
    Threshold = 2
    Batch = 2
    AdminBatch = 1
    Scenes <- MCScenes
CHECK_DEADLOCK FALSE
INVARIANTS
    CreateOnce
    AckedPutsReadable
    ReadRepairRestores
    NoObjectLost
    FactorKept
    HoldRespected
    OperationsDeliver
PROPERTIES
    UndisturbedOpExact
    InspectionExact
    RedundancyRestored
