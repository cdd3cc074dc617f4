SPECIFICATION FairSpec
CONSTANTS
    Sends <- MCSends
    Sender <- MCSender
    Limit = 1
    Window = 1
    MaxClock = 5
    MaxFaults = 1
    NoSend = "none"
    Viewer = "viewer"
    SocketEnabled = TRUE
    PageSize = 1
    MaxLosses = 1
INVARIANTS
    RateLimit
    NoPhantom
PROPERTIES
    ReadWasGiven
    VisibleInOrder
    OnlyKnownGaps
    CatchesUp
CHECK_DEADLOCK FALSE
