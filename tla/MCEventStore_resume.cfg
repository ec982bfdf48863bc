SPECIFICATION Spec
CONSTANTS
    k1 = k1
    k1b = k1b
    k2 = k2
    c1 = c1
    c2 = c2
    w1 = w1
    w2 = w2
    Workers = {w1}
    Keys = {k1, k1b, k2}
    EventOf <- Event
    Torn = Torn
    NoCheckpoint = NoCheckpoint
    Matches <- TwoContexts
    Contexts = {c1, c2}
    FromBlocks = {1, 2}
    Checkpointing = {TRUE, FALSE}
    Confirmations = 1
    Depth = 1
    MaxBlock = 4
    ChunkSize = 2
    MaxFaults = 2
    DocRef <- OneDocument
    Content <- Places
    LogOrder <- Places
INVARIANTS
    TypeOK
    CheckpointCovered
    RecordsOnChain
    NoDuplicateRecords
    IndexIsOfChain
PROPERTIES
    CheckpointAdvances
