CONSTANTS
    Msg = {m1}
    Kinds = {"voice"}
    S = S
    R = R
    Quota = 1
    MaxTime = 1
    MaxFaults = 2
    MaxUploads = 3
    PersistFails = FALSE
    NoRow = NoRow
    NoOne = NoOne
    MediaCall = {1, 2}
    VideoCall = {1}
    NoMedia = NoMedia
    MaxSealed = 1
    MaxBreaks = 1
    w = w
    u = u
    y = y
    Conn = {w, u, y}
    Worker = {w, y}
    Writer = Writer
    Reader = Reader
    OwnerOf <- Owners
    Mail = {n1}
    WaitLimit = 2
    MaxConnects = 3
    MaxMishaps = 1
    NoId = NoId
SPECIFICATION DeliverySpec
INVARIANTS
    DeliveryTypeOK
    NoAcceptedMessageLost
    TicksAreTruthful
    ArrivesAsSent
    EndedCallIsCut
    OnlyRivalsRefuse
PROPERTY
    PushesInOrder
CHECK_DEADLOCK FALSE
