SPECIFICATION Spec
CONSTANTS
    None = None
    Accounts = {a1}
    FirstPayments = {p1}
    Renewals = {r1, r2}
    Hooks = {h1}
    PeriodLen = 1
    RetryInterval = 1
    MaxDunning = 2
    Horizon = 4
    MaxFaults = 1
SYMMETRY Interchangeable
INVARIANTS
    PremiumIsPaid
    GraceIsCounted
    DowngradeIsEarned
    ChargesAreBacked
    ActivatesOnce
CHECK_DEADLOCK FALSE
