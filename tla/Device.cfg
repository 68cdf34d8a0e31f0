SPECIFICATION DeviceSpec
CONSTANTS
    NBlocks = 7
    MaxExtent = 4
    NumShards = 2
    MaxVersion = 2
    MaxTxn = 4
    FaultPlans <- MCPlans
    Torn = Torn
    Corrupt = Corrupt
    BlockData = 2
    BatchBlocks = 2
    Sizes = {1, 2, 4, 5, 7}
    MetaSizes = {0, 1, 3}
    ChunkSizes = {1, 2, 3, 4}
    BufferSizes = {1, 3}
    GetRanges <- MCRanges
    MaxInflated = 6
    Word = 16
    BadBlock = BadBlock
CHECK_DEADLOCK FALSE
INVARIANTS
    CleanIsOnDevice
    ReaderCurrent
    ReadsExact
PROPERTIES
    ImplementsFreeSpace
    ImplementsDurableIndex
