CONSTANTS
    Small = Small
    Large = Large
    MaxConns = 2
    MaxBreaks = 0
    MaxExpiries = 0
SPECIFICATION Spec
INVARIANT
    SimultaneousDialLeavesSession
CHECK_DEADLOCK FALSE
