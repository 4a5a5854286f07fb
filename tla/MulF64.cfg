SPECIFICATION SequentialSpec
CONSTANTS
    k1 = k1
    k2 = k2
    notAPoint = notAPoint
    OffchainPublicKey = {k1, k2, notAPoint}
    Curve = {k1, k2}
    HalfKey = {h1}
    Invalid = Invalid
    MinBatchSize = 2
    MemoCapacity = 1
    MaxBatch = 3
    Bits = 4
    Extra = 2
    Epsilon = 8
    MaxU256 = 63
    MaxAmount = 255
    Scale = 2
    Currency = {wxHOPR, xDai}
    LeftBits = {1}
    RightBits = {1, 2}
    Iv = {{1}, {2}}
    Keystream <- MCKeystream
    Digest <- MCDigest
    Modulus = 7
    Coefficient = 3
    Order = 13
    SignBit = 16
    Base = 6
    Length = 2
    GeneratorTimes <- MCGeneratorTimes
    Infinity = Infinity
    Error = Error
    SpendKey <- MCSpendKey
    Scalar <- MCScalar
    ZeroScalar = 0
    ScalarAdd <- MCScalarAdd
    ScalarMul <- MCTimes
    Secp256k1 <- MCScalar
    Identity = 0
    Generator = 1
    Plus <- MCScalarAdd
    Minus <- MCMinus
    Times <- MCTimes
    AddressOf <- MCAddressOf
    Message = {0, 1}
    Tag = {0, 1}
    HashToCurve <- MCHashToCurve
    HashToScalar <- MCHashToScalar
    PacketKey <- MCPacketKey
    KeySize = 1
    OnCurve25519 <- MCOnCurve
    KeyPrefix <- MCKeyPrefix
    ChainKey = {c1, c2}
    Name = {"ip4", "tcp"}
    NameSize = 3
    Graphic <- MCGraphic
    Zero = "0"
    Refused = Refused
    Bound = 3
    NarrowMax = 3
    Default = Default
    OutOfBounds = OutOfBounds
SYMMETRY Symmetry
INVARIANT ProductsNotLess
CHECK_DEADLOCK FALSE
