SPECIFICATION FairSpec
CONSTANTS
    Workers = {w1, w2}
    None = None
    Orphan = Orphan
    MaxEvents = 2
    Outcomes = {"folded"}
    BatchSize = 1
    Settle = 2
    MaxOpen = 0
    MaxLead = 1
    MaxAhead = 0
    MaxClock = 2
    MaxFaults = 1
    MaxLosses = 0
    MaxStops = 1
    LagWarn = 3
    LagCrit = 5
    Never = Never
INVARIANTS SingleWriter
PROPERTIES EveryEventConsumed StopReleasesLock
CHECK_DEADLOCK TRUE
