CONSTANTS
    MaxConfig <- const_MaxConfig
    MaxLoops <- const_MaxLoops
SPECIFICATION FairSpec
INVARIANTS RunnerTypeOK PortIsCurrent
PROPERTIES  ReloadHonoured
CHECK_DEADLOCK FALSE
