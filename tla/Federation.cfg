SPECIFICATION FederationSpec
CONSTANTS
    Workers = {w1, w2}
    MaxRetries = 2
    SlowRetries <- MCSlowRetries
    MaxFaults = 1
    Ids = {"i"}
    Uris = {"x", "y"}
    Null = Null
    Processes = {p1, p2}
    Configured = 0
    Default = 1
    MaxInbound = 2
    MaxClock = 4
    Times <- MCTimes
    MaxDeaths = 1
    Directions = {"out", "in"}
INVARIANTS
    RetryTreeBounded
    SuccessWasAccepted
    OnRecord
PROPERTIES
    ImplementsJob
    EventuallyWorkedOff
    ReplayIsRecent
CHECK_DEADLOCK FALSE
