CONSTANTS
    Roles = {"client", "server"}
    Pairs <- const_Pairs
    MaxSessions = 2
    MaxReplies = 3
    MaxSends = 1
SPECIFICATION FairSpec
INVARIANTS UdpTypeOK SessionRefs ConnectionsExact OneSessionPerPair SessionMemory
PROPERTIES SessionsEnd
CHECK_DEADLOCK FALSE
