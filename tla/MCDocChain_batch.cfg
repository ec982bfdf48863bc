SPECIFICATION Spec
CONSTANTS
    alice = alice
    bob = bob
    d1 = d1
    d2 = d2
    short = short
    long = long
    ZeroAddress = ZeroAddress
    Stranger = Stranger
    Addresses = {alice}
    Wallets = {}
    Couriers = {bob}
    Attestations <- BatchAttestations
    UriBytes <- MCUriBytes
    MAX_URI_BYTES = 1
    ChainIds = {1}
    CachedChainId = 1
    SignatureShapes <- BatchShapes
    MaxTime = 1
    MaxSigned = 2
    MaxApproved = 0
    MaxBatch = 3
INVARIANTS
    TypeOK
    LogMatchesStorage
PROPERTIES
    OnlyAuthorisedClaims
    BatchOutcome
    ImplementsWitnessLog
