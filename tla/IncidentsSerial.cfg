SPECIFICATION Spec
CONSTANTS
    None = None
    c1 = c1
    Incidents = {i1, i2}
    Maints = {m1}
    Components = {c1}
    Keys = {k1}
    Txs = {t1}
    Reports <- EveryReport
    MaintReports <- Works
    ManualStatuses = {"partial_outage"}
SYMMETRY Interchangeable
INVARIANTS
    TypeOK
    StatusIsDerived
    AnnouncedOnTransition
CHECK_DEADLOCK FALSE
