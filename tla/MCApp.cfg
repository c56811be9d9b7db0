CONSTANTS
    Peer = {p, q}
    CallId = {1, 2}
    RingAge = 1
    QueueCap = 4
    MaxEnds = 0
    MaxDrops = 1
    OthersOnline = TRUE
    NoCall = NoCall
    ChatPeer = {a, b}
    NoPeer = NoPeer
    Page = {"lang", "contacts", "scan", "add"}
    MaxHistory = 2
    RosterPeer = {a, b}
    Unselected = Unselected
    MaxVersion = 4
    LineCount = 3
    CreatedAt <- FirstIsLast
    Outgoing = {1, 3}
    Offers = {3}
    PageSize = 1
    MaxWindow = 2
    MaxRevision = 4
    a = a
    m1 = m1
    m2 = m2
    m3 = m3
    SenderOf <- OneRoom
    SentAt <- InOrder
    KindOf <- OneOfEach
    Nowhere = Nowhere
    MaxBadgeFailures = 1
    Ids = 2
    Nodes = 3
    Sender = {s1}
    Recipient = {r1, r2}
    MessageId = {m1, m2}
    MaxSize = 2
    Quota = 3
    MinTtl = 1
    MaxTtl = 2
    MaxTime = 2
    MaxUploads = 2
    NoRow = NoRow
    weak = weak
    Algorithm = {"secp256k1", "ed25519"}
    Secret = {k1, weak}
    ValidSecret <- ValidKeys
    Password = {v, x}
    MaxMishaps = 2
    NoFile = NoFile
    Torn = Torn
    NoOne = NoOne
    Idle = Idle
SPECIFICATION AppSpec
INVARIANTS
    AppTypeOK
    DialsAgree
    ShownRoomIsTold
    RosterIsFresh
    LinesAreFresh
    BadgeCoversUnseen
    RunningNodeIsHeld
    ThreadsServeSession
    QuotaRespected
    KeyIsKept
PROPERTY
    TrustIsTheUsers
SYMMETRY DeviceSymmetry
CHECK_DEADLOCK FALSE
