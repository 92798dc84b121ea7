SPECIFICATION Spec
CONSTANTS
    NULL = NULL
    NoRow = NoRow
    t1 = t1
    t2 = t2
    cam = cam
    far = far
    screen = screen
    here = here
    there = there
    tracker = tracker
    person = person
    Triggers = {t1, t2}
    Screens = {cam, screen}
    Systems = {here, there}
    Tracks = {tracker}
    Subjects = {person}
    Whole = 2
    SystemOf <- MCSystemOf
    Registered = {cam, screen}
    Lookback = 1
    MaxEvents = 4
    MaxDrifts = 0
    Alphabet <- Links
INVARIANTS ReplayIsStable InOrderReplayChangesNothing ReplayHeals
PROPERTIES NothingForgotten
CHECK_DEADLOCK TRUE
