CONSTANTS
    NumBlocks = 4
    ChunkBlocks = 2
    Retries = 2
    MaxRequests = 2
    MimicLinux = FALSE
    Dma = TRUE
    WriteEnabled = TRUE
SPECIFICATION FairSpec
CHECK_DEADLOCK FALSE
INVARIANTS ChunksInStep NothingLeaks
PROPERTIES DeviceSpec RequestCompletes
