CONSTANTS
    Clients = {c1, c2, c3}
    Limit = 2
    Weights = {1, 2}
    MaxQueue = 3
SPECIFICATION FairSpec
INVARIANTS
    Accounting
    LightestFirst
PROPERTIES
    EveryCallEnds
