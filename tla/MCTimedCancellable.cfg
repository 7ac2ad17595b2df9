SPECIFICATION CtxFairSpec
INVARIANTS
    NothingLeft
    ResultOfTarget
PROPERTIES
    QuietAfterEnd
    AbortEnds
CHECK_DEADLOCK FALSE
