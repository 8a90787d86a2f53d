CONSTANTS
    Roles = {"client", "server"}
    Pairs <- const_Pairs
    MaxSessions = 2
    MaxReplies = 3
    MaxSends = 1
SPECIFICATION Spec
INVARIANT RequestsOwnTheirMemory
CHECK_DEADLOCK FALSE
