SPECIFICATION Spec
CONSTANTS
    None = None
    Keep = Keep
    Pages = {p1, p2}
    Domains = {d1}
    Passwords = {w1}
    Emails = {e1}
    Tokens = {t1}
    Requests = {r1, r2}
    Patches <- OneFieldEach
    MaxRecords = 2
    PageAccessTTL = 1
    AccessLinkTTL = 1
    Horizon = 2
    MaxInputs = 5
    MaxFaults = 1
SYMMETRY Interchangeable
INVARIANTS
    PrivacySticks
    VerifiedIsChecked
    AttachmentMatches
    SeenIsEarned
CHECK_DEADLOCK FALSE
