CONSTANTS
    i1 = i1
    i2 = i2
    Ids = {i1, i2}
    Tasks <- TwoClients
    MaxStarts = 2
SPECIFICATION FairSpec
INVARIANTS
    EndsWithSocket
    MapIsTrue
    StopIsThorough
PROPERTIES
    StopReturns
CHECK_DEADLOCK FALSE
