SPECIFICATION Spec
CONSTANTS
    Workers = {w1, w2}
    None = None
    Orphan = Orphan
    MaxEvents = 2
    Outcomes = {"folded"}
    BatchSize = 2
    Settle = 2
    MaxOpen = 2
    MaxLead = 0
    MaxAhead = 0
    MaxClock = 4
    MaxFaults = 0
    MaxLosses = 0
    MaxStops = 0
    LagWarn = 3
    LagCrit = 5
    Never = Never
INVARIANTS NoEventJumped
CHECK_DEADLOCK TRUE
