SPECIFICATION Spec
CONSTANTS
    None = None
    Users = {u1}
    Browsers = {b1, b2}
    Requests = {r1, r2}
    MaxTokens = 3
    RefreshTTL = 1
    Horizon = 1
    MaxFaults = 1
SYMMETRY Interchangeable
INVARIANTS
    ForksCostOverlap
    SessionIsKept
    LogoutEndsSession
CHECK_DEADLOCK FALSE
