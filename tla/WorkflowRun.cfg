\* A run with an event block and the debugger, and a second start on either manager.
SPECIFICATION Spec
CONSTANTS
    MaxRuns = 2
    Hats = {h1}
    Eventful = {1}
    Debugged = {1}
    None = None
INVARIANTS ClaimHeld OneBlockPerStep
PROPERTIES StopIsKept RunEnds
CHECK_DEADLOCK FALSE
