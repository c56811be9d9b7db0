CONSTANTS
    Msg = {n}
    Kinds = {"text"}
    S = S
    R = R
    Quota = 1
    MaxTime = 1
    MaxFaults = 1
    MaxUploads = 2
    PersistFails = FALSE
    NoRow = NoRow
    NoOne = NoOne
    a = a
    b = b
    m1 = m1
    m2 = m2
    Contact = {a, b}
    Mail = {m1, m2}
    RoomOf <- TwoRooms
    LastTime = 2
    MaxCmds = 1
    MaxFailures = 1
    Nobody = Nobody
    NoMsg = NoMsg
SPECIFICATION LiveSpec
INVARIANTS
    ReceiptsTypeOK
    ReadOnlyIfShown
PROPERTIES
    ExitMovesForward
    PendingEnds
    QueuedArrives
    QueuedIsSentInRoom
CHECK_DEADLOCK FALSE
