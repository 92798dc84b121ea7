SPECIFICATION Spec
CONSTANTS
    Slugs = {s1, s2}
    Sources = {v1, v2}
    MaxRequests = 3
    MaxFaults = 1
    None = None
    Refusal = Refusal
SYMMETRY Interchangeable
INVARIANTS TypeOK BundleMatchesRow ListsMatchTables
CHECK_DEADLOCK FALSE
