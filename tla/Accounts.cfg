SPECIFICATION AccountsSpec
CONSTANTS
    Leaves <- MCLeaves
    Supports <- MCSupports
    Clicks <- MCClicks
    Kind <- MCKind
    Retention <- MCRetention
    MaxTime = 4
    MaxFaults = 1
    Never = Never
    Visits = {"v1", "v2", "v3"}
    Browsers = {"b1", "b2"}
    Tokens = {"t"}
    PerSet = 1
    Staff = "staff"
    Scenarios <- MCScenarios
INVARIANTS
    RecoverableInTime
    SpentOnce
    OldCodesGone
PROPERTIES
    SparedUnlessUndone
    LeavingEnds
    SuspensionHolds
