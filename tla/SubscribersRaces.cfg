SPECIFICATION Spec
CONSTANTS
    None = None
    Pages = {p1, p2}
    Emails = {e1}
    Hooks = {h1}
    Chat = chat
    Scopes = {"page"}
    Requests = {r1, r2}
    MaxRows = 8
    MaxInputs = 4
    MaxFaults = 1
    MaxCrashes = 1
SYMMETRY Interchangeable
INVARIANTS
    ConsentGiven
    PendingCanConfirm
    BotObeys
CHECK_DEADLOCK FALSE
