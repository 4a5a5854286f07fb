SPECIFICATION FollowSpec
CONSTANTS
    Second = 2
    MaxTime = 5
    Grace = 3
    MaxStake = 2
    MaxTicketIndex = 2
    MaxEpoch = 2
    None = None
    ServiceTypes = {vpn}
    Node = {n1, n2}
    Safe = {s1}
    Owner = {o}
    MetadataValue = {"m"}
    MetadataLength = {1, 2}
    MaxLength = 2
    MaxLogs = 5
    MaxBlock = 3
INVARIANTS TypeOK CopyIsReport EarlyByLessThanASecond ClosureTimesAgree MirrorAgrees
CHECK_DEADLOCK FALSE
