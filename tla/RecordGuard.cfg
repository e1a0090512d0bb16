\* Two takes of two frames, one redo, two trips.
SPECIFICATION Spec
CONSTANTS
    Episodes = 2
    Frames = 2
    MaxRedos = 1
    MaxTrips = 2
    Fails = TRUE
    Instant = FALSE
    Free = Free
INVARIANTS TakesAreHonest RequestIsServed CollisionIsShown SessionCanEnd
CHECK_DEADLOCK FALSE
