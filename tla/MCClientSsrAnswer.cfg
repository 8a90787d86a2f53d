CONSTANTS
    Stages <- tunnel_stage
    StreamingStages <- const_Streaming
    FirstStage = "handshake"
    Payload <- const_Payload
    MaxWrites <- const_MaxWrites
    CipherModes = {"confirm", "ticket"}
    MaxData = 1
SPECIFICATION SsrSpec
INVARIANTS AnswerAssertsHold
CHECK_DEADLOCK FALSE
