SPECIFICATION Spec
CONSTANTS
    alice = alice
    bob = bob
    d1 = d1
    d2 = d2
    short = short
    long = long
    ZeroAddress = ZeroAddress
    Stranger = Stranger
    Addresses = {alice, bob}
    Wallets = {alice}
    Couriers = {bob}
    Attestations <- SingleAttestations
    UriBytes <- MCUriBytes
    MAX_URI_BYTES = 1
    ChainIds = {1, 2}
    CachedChainId = 1
    SignatureShapes <- AllShapes
    MaxTime = 1
    MaxSigned = 2
    MaxApproved = 1
    MaxBatch = 0
INVARIANTS
    TypeOK
    LogMatchesStorage
PROPERTIES
    OnlyAuthorisedClaims
    SingleOutcome
    ImplementsWitnessLog
