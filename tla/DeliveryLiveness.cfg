SPECIFICATION FairSpec
CONSTANTS
    e1 = e1
    w1 = w1
    w2 = w2
    k1 = k1
    k2 = k2
    None = None
    Events = {e1}
    Confirms = {c1}
    Links = {l1}
    Subs = {"ann"}
    Workers = {w1, w2}
    Components = {k1, k2}
    Channel <- MCChannel
    Scope <- MCScope
    Affected <- MCAffected
    Serves <- ServeOwn
    MaxAttempts = 1
    MaxFaults = 1
PROPERTIES
    EventuallySettled
    SentIsFinal
CHECK_DEADLOCK FALSE
