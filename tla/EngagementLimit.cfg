SPECIFICATION Spec
CONSTANTS
    Requests <- FewRequests
    Kind <- FewKind
    Post <- FewPost
    Threshold = 1
    MaxInFlight = 1
    MaxFaults = 0
    MaxResolved = 0
    NoRow = "none"
PROPERTIES
    LimitIsTemporary
CHECK_DEADLOCK FALSE
