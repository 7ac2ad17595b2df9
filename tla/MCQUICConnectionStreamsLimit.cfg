CONSTANTS
    Side = "client"
    StreamIds = {0, 4}
    MaxStreamId = 4
    MaxLimit = 1
    MaxFrames = 1
SPECIFICATION Spec
INVARIANT NewStreamIdIsFresh
CHECK_DEADLOCK FALSE
