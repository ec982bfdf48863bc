SPECIFICATION Spec
CONSTANTS
    k1 = k1
    k2 = k2
    a = a
    b = b
    f1 = f1
    f2 = f2
    Keys = {k1, k2}
    Docs = {d}
    Chains = {1, 2}
    Contracts = {a, b}
    Deployed <- Registry
    SignedFiles = {f1, f2}
    Deadlines = {0}
    Keystore = Keystore
    Nothing = Nothing
    MaxTime = 1
    MaxAsked = 2
SYMMETRY Symmetry
INVARIANTS
    TypeOK
    SignedIsOfOnePrepared
    RecordedAsPrepared
    SuccessMeansRecorded
    RefusedForCause
