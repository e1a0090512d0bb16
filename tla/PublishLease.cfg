\* Two processes while a deploy overlaps, any two tasks at a time.
SPECIFICATION Spec
CONSTANTS
    Procs = {p, q}
    Mirrors = {q}
    Ends <- CappedOrBad
    MaxTasks = 2
    MaxMirror = 1
    Misses = TRUE
    Stops = TRUE
    None = None
    Dead = Dead
INVARIANTS OneWriter OutcomeIsTrue
PROPERTY PublishEnds
CHECK_DEADLOCK FALSE
