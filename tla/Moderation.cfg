SPECIFICATION ModerationSpec
CONSTANTS
    p = p
    q = q
    c = c
    Posts = {p, q}
    Comments = {c}
    PostOf <- MCPostOf
    Texts = {before, after}
    Slots = {s1, s2}
    Reports = {r}
    Reasons = {"minor_safety", "dmca_ip", "harassment", "spam_scam"}
    Statuses = {"open", "resolved"}
    Times <- MCTimes
    MaxRequests = 3
    MaxDeaths = 1
SYMMETRY MCSymmetry
INVARIANTS
    HistoryTellsAll
    EvidenceFirst
    SlaAgrees
PROPERTIES
    WithdrawnStays
CHECK_DEADLOCK FALSE
