SPECIFICATION FairSpec
CONSTANTS
    None = None
    Accounts = {a1}
    FirstPayments = {p1}
    Renewals = {}
    Hooks = {h1}
    PeriodLen = 1
    RetryInterval = 1
    MaxDunning = 2
    Horizon = 1
    MaxFaults = 1
PROPERTIES
    PaidIsActivated
CHECK_DEADLOCK FALSE
