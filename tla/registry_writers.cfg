SPECIFICATION Spec
CONSTANTS
    NoRow = NoRow
    lobby = lobby
    door = door
    Screens = {lobby, door}
    KindOf <- MCKindOf
    Admins = {a1, a2}
    Asked = {"active", "retired"}
    MaxEvents = 3
    MaxWrites = 3
    MaxRaises = 1
    MaxAborts = 1
SYMMETRY Interchangeable
INVARIANTS TypeOK JournalMatchesRegistry NoSightingLost ScopeIsRecent NullScopeRecorded
PROPERTIES RetiredIsFinal
CHECK_DEADLOCK FALSE
