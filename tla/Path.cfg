SPECIFICATION Spec
CONSTANTS
    a = a
    b = b
    c = c
    ka = ka
    kb = kb
    kc = kc
    Address = {a, b, c}
    OffchainPublicKey = {ka, kb, kc}
    None = None
    PathInput <- Paths
    OriginInput = {a, ka}
    Registries <- SomeRegistries
    MaxChanges = 1
INVARIANTS TypeOK DecidesValidity AcceptedIsLoopFree AcceptedWasTrue
CHECK_DEADLOCK FALSE
