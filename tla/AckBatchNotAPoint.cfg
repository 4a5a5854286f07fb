SPECIFICATION Spec
CONSTANTS
    k1 = k1
    k2 = k2
    notAPoint = notAPoint
    OffchainPublicKey = {k1, k2, notAPoint}
    Curve = {k1, k2}
    HalfKey = {h1}
    Invalid = Invalid
    MinBatchSize = 2
    MemoCapacity = 1
    MaxBatch = 3
INVARIANT EveryEntryAnswered
CHECK_DEADLOCK FALSE
