SPECIFICATION Spec
CONSTANTS
    Edits = {e1, e2}
    Visits = {v1, v2, v3}
    Signup = signup
    Addresses <- MCAddresses
    NoGuardian = "nobody"
    Forms <- MCForms
    MaxInFlight = 2
SYMMETRY MCSymmetry
INVARIANTS
    VerifiedByLink
PROPERTIES
    ProtectionsHold
CHECK_DEADLOCK FALSE
