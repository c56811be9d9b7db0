CONSTANTS
    Peer = {a, b}
    CallId = {1}
    RingAge = 1
    QueueCap = 4
    MaxEnds = 0
    MaxDrops = 0
    OthersOnline = FALSE
    NoCall = NoCall
    a = a
SPECIFICATION CallSpec
INVARIANT
    AnswerConnectsBoth
