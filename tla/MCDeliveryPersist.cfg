CONSTANTS
    Msg = {m1}
    Kinds = {"text"}
    S = S
    R = R
    Quota = 1
    MaxTime = 1
    MaxFaults = 0
    MaxUploads = 1
    PersistFails = TRUE
    NoRow = NoRow
    NoOne = NoOne
SPECIFICATION Spec
INVARIANTS
    NoAcceptedMessageLost
CHECK_DEADLOCK FALSE
