SPECIFICATION FairSpec
CONSTANTS
    Events = {e1, e2, e3}
    Recent = 2
    FeedCap = 3
    MaxLead = 1
    MaxClock = 3
    MaxDrops = 2
INVARIANTS
    TypeOK
    OnlyLateRowsMissed
    FeedInOrder
PROPERTY
    EveryRowShown
