CONSTANTS
    Stages <- tls_stage
    StreamingStages <- const_Streaming
    FirstStage = "handshake"
    Payload <- const_Payload
    MaxWrites <- const_MaxWrites
    CipherModes = {"plain"}
    MaxData = 2
SPECIFICATION TlsFairSpec
INVARIANTS TlsTypeOK TlsAssertsHold TlsRefCounts ContextAlive TlsUplink TlsDownlink
PROPERTIES TlsReleased
CHECK_DEADLOCK FALSE
