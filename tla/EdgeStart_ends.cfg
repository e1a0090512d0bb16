SPECIFICATION Spec
CONSTANTS
    a1 = a1
    a2 = a2
    a3 = a3
    ann = ann
    Nobody = Nobody
    MaxCrashes = 1
    Requests = {a1, a2}
    Students = {ann}
    Student <- Ann
    PoolSize = 1
    Idle = 1
    Clocked = TRUE
    Faults = {"delete", "key", "modal"}
PROPERTIES TokenErased
CHECK_DEADLOCK FALSE
