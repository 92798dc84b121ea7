SPECIFICATION Spec
CONSTANTS
    NULL = NULL
    NoRow = NoRow
    t1 = t1
    t2 = t2
    cam = cam
    far = far
    screen = screen
    here = here
    there = there
    tracker = tracker
    person = person
    Triggers = {t1, t2}
    Screens = {cam, far, screen}
    Systems = {here, there}
    Tracks = {tracker}
    Subjects = {person}
    Whole = 2
    SystemOf <- MCSystemOf
    Registered = {far, screen}
    Lookback = 1
    MaxEvents = 4
    MaxDrifts = 1
    Alphabet <- Impression
INVARIANTS TypeOK ExposureJustified WatchedIsMeasured ReplayIsStable RecomputableFromTheLog ReplayHeals
PROPERTIES NothingForgotten
CHECK_DEADLOCK TRUE
