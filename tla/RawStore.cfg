SPECIFICATION StoreSpec
CONSTANTS
    NBlocks = 3
    k1 = k1
    k2 = k2
    d1 = d1
    d2 = d2
    Keys = {k1, k2}
    TmpKeys = {}
    Shards = {0, 1}
    ShardOf <- MCShardOf
    Data = {d1, d2}
    Bodies <- MCBodies
    Metas <- MCNoMetas
    OpenModes = {"FullVerify"}
    IOErrors = TRUE
    Readers = {r1}
    ChunkBlocks = 1
    Idle = Idle
    Bad = Bad
    None = None
INVARIANTS
    TypeOK
    SpaceAccounted
    CleanIsPersisted
    FlushedSurvives
    LiveDataIntact
    UndisturbedReadExact
PROPERTIES
    OpenLosesNothing
    WriteProtectHolds
