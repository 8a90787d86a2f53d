CONSTANTS
    Stages <- const_Stages
    StreamingStages <- const_Streaming
    FirstStage = "handshake"
    Payload = {"data"}
    MaxWrites = 1
SPECIFICATION FairSpec
INVARIANTS TypeOK RefCounts NoStaleCallback  AssertsHold
PROPERTIES ShutdownCompletes FreedIsFinal ClosedStaysClosed
CHECK_DEADLOCK FALSE
