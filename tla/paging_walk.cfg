SPECIFICATION FairSpec
CONSTANTS
    Rows = {1, 2, 3, 4}
    MaxKey = 2
    Barred = {1}
    Branches = {registry, camera}
    RawLimits = {0, 3}
    MaxLimit = 2
    MaxCopies = 2
    Nil = Nil
    MaxChanges = 2
INVARIANTS TypeOK SteadyRowsOnce NoRowTwice
PROPERTIES WalkEnds
CHECK_DEADLOCK FALSE
