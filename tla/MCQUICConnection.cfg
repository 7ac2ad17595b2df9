CONSTANTS
    Configs <- VerifyingConfigs
    MaxDatagrams = 3
    MaxStops = 2
SPECIFICATION FairSpec
INVARIANTS
    TypeOK
    ClosingIsWatched
    EndsOnlyClosed
    LockHeldToVerify
PROPERTIES
    EndsInTime
CHECK_DEADLOCK FALSE
