SPECIFICATION Spec
CONSTANTS
    None = None
    c1 = c1
    Incidents = {i1, i2}
    Maints = {}
    Components = {c1}
    Keys = {k1}
    Txs = {t1, t2}
    Reports <- OutageOnly
    MaintReports <- NoWorks
    ManualStatuses = {"partial_outage"}
SYMMETRY Interchangeable
INVARIANTS
    HistoryMatches
    StampsMatch
    OneOpenPerKey
CHECK_DEADLOCK FALSE
