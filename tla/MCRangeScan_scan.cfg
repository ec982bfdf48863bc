SPECIFICATION FairSpec
CONSTANTS
    FromBlock = 1
    ToBlock = 9
    ChunkSize = 4
    Providers <- AllProviders
    NoLimit = NoLimit
    RecursionLimit = 6
    MaxFaults = 2
INVARIANTS
    TypeOK
    NoBlockLost
    SplittingSucceeds
PROPERTIES
    ImplementsContiguousScan
    ScanEnds
CHECK_DEADLOCK FALSE
