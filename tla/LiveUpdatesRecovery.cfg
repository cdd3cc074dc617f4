SPECIFICATION FairSpec
CONSTANTS
    Sends <- MCSends
    Sender <- MCSender
    Limit = 2
    Window = 1
    MaxClock = 3
    MaxFaults = 0
    NoSend = "none"
    Viewer = "viewer"
    SocketEnabled = TRUE
    PageSize = 2
    MaxLosses = 0
PROPERTIES
    PollingRecovers
CHECK_DEADLOCK FALSE
