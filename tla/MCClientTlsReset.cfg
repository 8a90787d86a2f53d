CONSTANTS
    Stages <- tls_stage
    StreamingStages <- const_Streaming
    FirstStage = "handshake"
    Payload <- const_Payload
    MaxWrites <- const_MaxWrites
    CipherModes = {"plain"}
    MaxData = 1
SPECIFICATION TlsFairSpec
PROPERTIES ConnectionEndReported
CHECK_DEADLOCK FALSE
