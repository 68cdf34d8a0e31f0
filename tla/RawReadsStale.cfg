SPECIFICATION RSpec
CONSTANTS
    NBlocks = 3
    k1 = k1
    k2 = k2
    d1 = d1
    d2 = d2
    Keys = {k1, k2}
    TmpKeys = {}
    Shards = {0}
    ShardOf <- MCShardOf
    Data = {d1, d2}
    Bodies <- MCBodies
    Metas <- MCMetas
    OpenModes = {}
    IOErrors = FALSE
    Bad = Bad
    None = None
    Readers = {r1}
    ChunkBlocks = 1
    Idle = Idle
INVARIANT
    NormalReadsExact
