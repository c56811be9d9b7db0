CONSTANTS
    a = a
    b = b
    m1 = m1
    m2 = m2
    Contact = {a, b}
    Mail = {m1, m2}
    RoomOf <- TwoRooms
    LastTime = 2
    MaxCmds = 1
    MaxFailures = 0
    Nobody = Nobody
    NoMsg = NoMsg
SPECIFICATION ReceiptsFairSpec
PROPERTY
    OpenRoomIsRead
CHECK_DEADLOCK FALSE
