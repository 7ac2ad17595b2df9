SPECIFICATION FairSpec
CONSTANTS
    a = a
    b = b
    Clients <- MCClients
    Casts <- MCCasts
    SharedSocket = shared
INVARIANTS
    TypeOK
    NothingLeft
    SocketStopsInTurn
PROPERTIES
    EveryCallEnds
CHECK_DEADLOCK FALSE
