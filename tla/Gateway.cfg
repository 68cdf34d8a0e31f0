SPECIFICATION GatewaySpec
CONSTANTS
    Universe <- MCUniverse
    AskedPrefixes <- MCPrefixes
    PageSizes = {0, 1, 2}
    Escaped = {3}
    Clients = {"reader", "writer"}
    Sends <- MCSends
    Buckets = {b1}
    ObjKeys = {"k1", "k2"}
    S3Bodies <- MCBodies
    Headers <- MCHeaders
    Ranges <- MCByteRanges
    Conds <- MCConds
    WordSize = 16
    UpClients = {c1, c2}
    UploadIds = {u1, u2}
    PartNumbers = {1, 2}
    PartData = {d1, d2}
    TempFiles = {f1, f2, f3}
    PartLists <- MCPartLists
    MaxUploads = 1
    NoUpload = NoUpload
    NoPart = NoPart
    NoFile = NoFile
    NoTarget = NoTarget
    FieldOrder <- MCFieldOrder
    Tag <- MCTag
    Suffix <- MCSuffix
    FieldValues <- MCFieldValues
    Table <- MCTable
    LookupBit = 4
    MaxFieldLen = 63
    Objects = {"a"}
    Clusters = {{0}, {0, 1}}
    Volatile = {1}
    NoCatalog = NoCatalog
    TornFile = TornFile
    MaxStops = 2
    MaxFailures = 1
    Replicas = {"r1", "r2"}
    EventKeys = {"a", "a "}
    Trimmed <- MCTrimmed
    Ops <- MCOps
    Mirrors = {{0}, {0, 1}}
    FlushKey = FlushKey
    Capacity = 1
    MaxReaders = 1
    MaxEvents = 2
    MaxFaults = 1
SYMMETRY PartSymmetry
CHECK_DEADLOCK FALSE
INVARIANTS
    WalkIsExact
    EtagMatchesBody
    CachedStatsExact
    TempFilesAccounted
    DecodeInverts
    CatalogTruthful
    
PROPERTIES
    UndisturbedAnswersExact
    CompleteAssembles
    ShutdownKeepsAll
