CONSTANTS
    MaxConfig <- const_MaxConfig
    MaxLoops <- const_MaxLoops
SPECIFICATION FairSpec

PROPERTY ReloadTakesEffect
CHECK_DEADLOCK FALSE
