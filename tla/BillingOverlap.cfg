SPECIFICATION FairSpec
CONSTANTS
    None = None
    Accounts = {a1}
    FirstPayments = {p1, p2}
    Renewals = {}
    Hooks = {h1, h2}
    PeriodLen = 1
    RetryInterval = 1
    MaxDunning = 2
    Horizon = 1
    MaxFaults = 0
INVARIANTS
    CancelSticks
PROPERTIES
    PaidIsActivated
CHECK_DEADLOCK FALSE
