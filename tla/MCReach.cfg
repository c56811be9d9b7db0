CONSTANTS
    Peer = {a, b}
    CallId = {1}
    RingAge = 1
    QueueCap = 4
    MaxEnds = 1
    MaxDrops = 1
    OthersOnline = TRUE
    NoCall = NoCall
    a = a
    Ident = {i}
    Server = {1}
    Addr = {x}
    OldAddr = o
    Hb = {h1, h2}
    NoOne = NoOne
    PollTries = 1
    Budgets <- LogoutOrTrouble
SPECIFICATION ReachSpec
INVARIANTS
    CoordTypeOK
    RegisteredHasHeartbeat
PROPERTIES
    RingsEnd
    
    RowReturns
CHECK_DEADLOCK FALSE
