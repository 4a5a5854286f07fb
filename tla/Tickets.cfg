CONSTANTS
    a = a
    b = b
    Node = {a, b}
    Nobody = Nobody
    d1 = d1
    d2 = d2
    Separator = {d1, d2}
    NoSig = NoSig
    Missing = Missing
    AmountInput = {0, 1}
    IndexInput = {0, 2}
    EpochInput = {1}
    WinProbInput = {0}
    MaxAmount = 1
    MaxIndex = 1
    MaxEpoch = 1
    AmountMod = 2
    IndexMod = 2
    EpochMod = 2
    MaxLuck = 1
    Luck <- MCLuck
    Order = 3
    TrustedCallers = TRUE
    MaxValues = 5
SPECIFICATION Spec
INVARIANTS
    TypeOK
    VerifiedIsIssued
    TransferExact
    ResponseSolvesChallenge
    RedeemableIsForeignWin
SYMMETRY MCSymmetry
CHECK_DEADLOCK FALSE
