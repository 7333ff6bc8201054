SPECIFICATION Spec
CONSTANTS
    None = None
    Keep = Keep
    Pages = {p1, p2}
    Groups = {g1}
    Components = {c1, c2}
    Statuses = {"operational", "under_maintenance", "major_outage"}
    Attributes <- MCAttributes
    Bodies <- MCBodies
    Requests = {r1}
    DayLen = 2
    Periods = {1, 2}
    Horizon = 3
    MaxInputs = 2
SYMMETRY Interchangeable
INVARIANTS
    ShownOnce
    HeadIsExplained
    UptimeIsExact
CHECK_DEADLOCK FALSE
