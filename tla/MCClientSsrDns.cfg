CONSTANTS
    Stages <- tunnel_stage
    StreamingStages <- const_Streaming
    FirstStage = "handshake"
    Payload <- const_Payload
    MaxWrites <- const_MaxWrites
    CipherModes = {"plain"}
    MaxData = 1
SPECIFICATION SsrSpec
INVARIANTS GetaddrinfoSafe
CHECK_DEADLOCK FALSE
