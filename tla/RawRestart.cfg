SPECIFICATION RestartSpec
CONSTANTS
    NBlocks = 4
    k1 = k1
    d1 = d1
    d2 = d2
    Keys = {k1}
    TmpKeys <- MCTmpKeys
    Shards = {0}
    ShardOf <- MCShardOf
    Data = {d1, d2}
    Bodies <- MCBodies
    Metas <- MCMetas
    OpenModes = {"FullVerify"}
    IOErrors = FALSE
    Bad = Bad
    None = None
    Uploads = {u1}
    MaxParts = 2
    Unused = Unused
SYMMETRY DataSymmetry
INVARIANTS
    SpaceAccounted
    NoOrphanParts
PROPERTIES
    MetadataKeepsBody
    CompleteJoinsInOrder
