CONSTANTS
    Side = "server"
    StreamIds = {0, 2, 3, 4}
    MaxStreamId = 4
    MaxLimit = 1
    MaxFrames = 2
SPECIFICATION Spec
INVARIANTS
    TypeOK
    NeverOnlyAfterLimit
    
    StoppedWithoutStreams
PROPERTY NoStreamIdReuse
CHECK_DEADLOCK FALSE
