SPECIFICATION Spec
CONSTANTS
    Process = {p1, p2}
    Password = {wrong, right}
    wrong = wrong
    right = right
    None = None
    Absent = Absent
    Torn = Torn
    InitialFile <- AnyFile
    MaxFresh = 3
SYMMETRY Symmetry
PROPERTY CompleteFileUntouched
CHECK_DEADLOCK FALSE
