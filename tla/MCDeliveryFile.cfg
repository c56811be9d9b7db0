CONSTANTS
    Msg = {m1}
    Kinds = {"attachment_offer"}
    S = S
    R = R
    Quota = 1
    MaxTime = 1
    MaxFaults = 1
    MaxUploads = 2
    PersistFails = FALSE
    NoRow = NoRow
    NoOne = NoOne
SPECIFICATION Spec
INVARIANTS
    ArrivesAsSent
CHECK_DEADLOCK FALSE
