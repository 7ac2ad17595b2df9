CONSTANTS
    StreamIds = {0, 1, 2, 3, 4, 5, 6, 7, 8, 9, 10, 11, 12}
    MaxStreamId = 12
SPECIFICATION IdsSpec
INVARIANTS
    WaitingOnlyBeyondGap
PROPERTIES
    RefinesIdSet
