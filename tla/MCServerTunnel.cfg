CONSTANTS
    Stages <- tunnel_stage
    StreamingStages <- const_Streaming
    FirstStage = "initial"
    Payload <- const_Payload
    MaxWrites <- const_MaxWrites
    ServerModes = {"plain", "confirm", "ticket", "both", "tls"}
    Requests = {"tcp", "udp"}
    MaxData = 2
SPECIFICATION SrvFairSpec
INVARIANTS SrvTypeOK  TargetFaithful ClientFaithful AuthBeforeDial RelayLifetime
PROPERTIES ServerImplementsTunnel 
CHECK_DEADLOCK FALSE
