CONSTANTS
    Contents <- Documents
    BlockTarget = 2
    SealBlocks = 1
    ChunkSize = 1
    MaxSegs = 3
    MaxCrashes = 2
SPECIFICATION FairSpec
INVARIANTS ArchiveInv IndexedReadsBack VerifyFindsNoLoss
PROPERTIES ImplementsBlobStore WorkCompletes
CHECK_DEADLOCK FALSE
