SPECIFICATION Spec
CONSTANTS
    NoRow = NoRow
    lobby = lobby
    door = door
    Screens = {lobby, door}
    KindOf <- MCKindOf
    Admins = {a1, a2}
    Asked = {"active", "retired"}
    MaxEvents = 2
    MaxWrites = 1
    MaxRaises = 1
    MaxAborts = 0
SYMMETRY Interchangeable
INVARIANTS UnregisteredIsRecorded
CHECK_DEADLOCK FALSE
