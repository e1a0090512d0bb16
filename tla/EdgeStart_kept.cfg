SPECIFICATION Spec
CONSTANTS
    a1 = a1
    a2 = a2
    a3 = a3
    ann = ann
    Nobody = Nobody
    MaxCrashes = 0
    Requests = {a1, a2, a3}
    Students = {ann}
    Student <- Ann
    PoolSize = 1
    Idle = 1
    Clocked = FALSE
    Faults = {"cancel", "db", "odd"}
SYMMETRY Alike
INVARIANTS OneStartPerStudent AnswerIsTrue 
CHECK_DEADLOCK FALSE
