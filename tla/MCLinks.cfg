CONSTANTS
    Small = Small
    Large = Large
    MaxConns = 2
    MaxBreaks = 1
    MaxExpiries = 1
    MaxDepth = 2
    MaxFlight = 2
    MaxLost = 1
SPECIFICATION LinksSpec
INVARIANTS
    TypeOK
    WriterIsAlive
    LoneSessionStays
    GuardHasDial
PROPERTIES
    BrokenPictureIsFlagged
    RegistriesAgree
    StallEnds
CHECK_DEADLOCK FALSE
