SPECIFICATION AbuseSpec
CONSTANTS
    l1 = l1
    m1 = m1
    d1 = d1
    r1 = r1
    s1 = s1
    Requests = {l1, m1, d1, r1, s1}
    Kind <- MCKind
    Post <- MCPost
    Threshold = 0
    MaxInFlight = 3
    MaxFaults = 1
    MaxResolved = 1
    NoRow = "none"
    Settings <- MCSettings
    Traits = {"verified", "posts"}
    Ages = {0, 60}
    MaxReports = 4
    MaxActions = 3
    MaxBurst = 1
    Parts = {"toggles", "trust"}
SYMMETRY MCSymmetry
INVARIANTS
    OneReaction
    DeniedLeavesNothing
    NoReportFlood
    StaleIsLenient
CHECK_DEADLOCK FALSE
