SPECIFICATION FairSpec
CONSTANTS
    FromBlock = 1
    ToBlock = 9
    ChunkSize = 4
    Providers <- AllProviders
    NoLimit = NoLimit
    RecursionLimit = 6
    MaxFaults = 0
PROPERTIES
    RejectedRangesShrink
CHECK_DEADLOCK FALSE
