SPECIFICATION Spec
CONSTANTS
    e1 = e1
    w1 = w1
    w2 = w2
    k1 = k1
    k2 = k2
    None = None
    Events = {e1}
    Confirms = {}
    Links = {}
    Subs = {"ann", "wes"}
    Workers = {w1, w2}
    Components = {k1, k2}
    Channel <- MCChannel
    Scope <- MCScope
    Affected <- MCAffected
    Serves <- ServeAll
    MaxAttempts = 2
    MaxFaults = 2
SYMMETRY Replicas
INVARIANTS
    TypeOK
    NeverLost
    SentMeansDelivered
    FailedMeansExhausted
    UnsubscribedStaysQuiet
    DuplicatesCostFaults
    FanOutCompletes
CHECK_DEADLOCK FALSE
