SPECIFICATION Spec
CONSTANTS
    Slugs = {s1}
    Sources = {v1}
    MaxRequests = 3
    MaxFaults = 0
    None = None
    Refusal = Refusal
INVARIANTS PopupShowsLatest
CHECK_DEADLOCK FALSE
