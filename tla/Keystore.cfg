SPECIFICATION Spec
CONSTANTS
    Process = {p1, p2, p3}
    Password = {wrong, right}
    wrong = wrong
    right = right
    None = None
    Absent = Absent
    Torn = Torn
    InitialFile <- AnyFile
    MaxFresh = 3
SYMMETRY Symmetry
INVARIANTS TypeOK OneIdentity RunningIsDurable ExistingKeysKept
PROPERTIES CompleteFileStays DamagedFileIsNotReplaced
CHECK_DEADLOCK FALSE
