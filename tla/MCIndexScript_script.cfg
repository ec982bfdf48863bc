SPECIFICATION Spec
CONSTANTS
    k1 = k1
    k1b = k1b
    k2 = k2
    Keys = {k1, k1b, k2}
    EventOf <- Event
    Depth = 1
    MaxBlock = 3
    FromBlocks = {0, 2}
    ToBlocks = {2}
    Confirmations = 1
    ChunkSize = 2
    Torn = Torn
    NoCheckpoint = NoCheckpoint
    MaxFaults = 2
    MaxFallBacks = 1
INVARIANTS
    TypeOK
    CheckpointMeansWritten
    NoLineTwice
    SummaryTruthful
