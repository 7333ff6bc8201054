SPECIFICATION FairSpec
CONSTANTS
    Jobs = {1, 2}
    Workers = {w1, w2}
    Sources <- EveryPage
    Now = 5
    Modes <- UpdateSecond
    SlugAttempts = 2
    Taken = {0}
    MaxFaults = 1
INVARIANTS
    OrphansCostFaults
    MappedIsWhole
    TreeIsRestored
PROPERTIES
    ImplementsContract
    JobSettles
CHECK_DEADLOCK FALSE
