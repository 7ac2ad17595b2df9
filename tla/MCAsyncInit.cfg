CONSTANTS
    Clients = {c1, c2, c3}
    Allowed <- MCAllowed
SPECIFICATION FairSpec
INVARIANTS
    StatusIsBody
    BlockingSeesReady
PROPERTIES
    MethodsBeginBetween
    EveryCallEnds
