CONSTANTS
    Stages <- tunnel_stage
    StreamingStages <- const_Streaming
    FirstStage = "initial"
    Payload <- const_Payload
    MaxWrites <- const_MaxWrites
    ServerModes = {"tls"}
    Requests = {"udp"}
    MaxData = 2
SPECIFICATION SrvSpec
INVARIANTS NoClosedWrite
CHECK_DEADLOCK FALSE
