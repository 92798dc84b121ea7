SPECIFICATION Spec
CONSTANTS
    Workers = {w1, w2}
    None = None
    Orphan = Orphan
    MaxEvents = 3
    Outcomes = {"folded", "noop", "skipped"}
    BatchSize = 2
    Settle = 3
    MaxOpen = 1
    MaxLead = 1
    MaxAhead = 0
    MaxClock = 4
    MaxFaults = 1
    MaxLosses = 1
    MaxStops = 0
    LagWarn = 4
    LagCrit = 6
    Never = Never
SYMMETRY Interchangeable
INVARIANTS TypeOK NoEventJumped ExactlyOnce BatchOnCursor NeverTwice DrainedWhenDone OkBoundsTheWait
PROPERTIES FoldsEvents IdlesOnlyWhenCaughtUp
CHECK_DEADLOCK TRUE
VIEW InUse
