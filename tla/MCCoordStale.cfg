CONSTANTS
    Ident = {i}
    Server = {1}
    Addr = {x}
    OldAddr = o
    Hb = {h1, h2}
    NoOne = NoOne
    PollTries = 1
    Budgets <- OneLogout
SPECIFICATION CoordFairSpec
PROPERTY
    RowIsKept
CHECK_DEADLOCK FALSE
