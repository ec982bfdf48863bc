SPECIFICATION FairSpec
CONSTANTS
    k1 = k1
    k1b = k1b
    k2 = k2
    c1 = c1
    c2 = c2
    w1 = w1
    w2 = w2
    Workers = {w1, w2}
    Keys = {k1, k2}
    EventOf <- Event
    Torn = Torn
    NoCheckpoint = NoCheckpoint
    Matches <- AllMatch
    Contexts = {c1}
    FromBlocks = {1}
    Checkpointing = {TRUE}
    Confirmations = 0
    Depth = 0
    MaxBlock = 2
    ChunkSize = 1
    MaxFaults = 1
    DocRef <- OneDocument
    Content <- Places
    LogOrder <- Places
INVARIANTS
    CheckpointCovered
    IndexIsOfChain
PROPERTIES
    EventuallyCached
CHECK_DEADLOCK FALSE
