CONSTANTS
    Bridge = {1}
    Sock = {1, 2, 3}
    NoSock = NoSock
    MaxFrames = 2
SPECIFICATION BridgeSpec
INVARIANTS
    EntryHasSocket
    OnlyHeldAreOvertaken
PROPERTIES
    BridgeIsPipe
    BridgeFlows
CHECK_DEADLOCK FALSE
