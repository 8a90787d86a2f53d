CONSTANTS
    Stages <- tunnel_stage
    StreamingStages <- const_Streaming
    FirstStage = "handshake"
    Payload <- const_Payload
    MaxWrites <- const_MaxWrites
    CipherModes = {"plain", "confirm", "ticket"}
    MaxData = 2
SPECIFICATION SsrFairSpec
INVARIANTS SsrTypeOK SsrAssertsHold UplinkFaithful WireOrder 
PROPERTIES ImplementsTunnel Reclaimed
CHECK_DEADLOCK FALSE
