SPECIFICATION FairSpec
CONSTANTS
    MaxShift = 8
    Chains <- ForkChains
    Bip30 <- Shadowed
    StopHeights = {2, 3}
    MaxRuns = 1
    MaxStops = 1
    MaxReorgs = 1
    LeafWorkers = {0, 1}
    ChaserWorkers = {0, 1}
    HeightChunk = 2
    PublishNodes = 2
    ParentBatch = 1
    LeafCapacity = 0
    MaxFaults = 1
    PublicationBlocks = 2
    LeafCacheBlocks = 1
    PageNodes = 4
    MaxChanges = 1
    MaxCrashes = 1
    MaxDamages = 1
INVARIANTS
    TypeOK
    HintsAreUtxos
    OneWriter
    OwnFileAccepted
    BuiltForest
    BuiltIndex
    ViewIsReference
    PositionsAreCurrent
    ProofsReachLeaves
PROPERTIES
    BuildEnds
    ProverCatchesUp
CHECK_DEADLOCK FALSE
