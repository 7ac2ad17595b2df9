CONSTANTS
    Clients = {c1, c2, c3}
    None = None
SPECIFICATION FairSpec
INVARIANTS
    Exclusion
    NothingLeft
PROPERTIES
    WritersFirst
    EveryCallEnds
