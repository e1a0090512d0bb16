SPECIFICATION Spec
CONSTANTS
    Sessions = {s1, s2}
    Students = {u1, u2}
    Conns = {c1, c2}
    Loggers = {w1, w2}
    SessionMax = 2
    DailyCap = 2
    GlobalCap = 2
    MinLeft = 1
    ReserveS = 1
    ArmS = 2
    PageQuiet = 1
    ServerQuiet = 1
    DayLen = 3
    Lag = 0
    MaxTime = 3
    Nobody = Nobody
SYMMETRY Alike
INVARIANTS DailyUse RunLoggedOnce OneLivePerStudent
PROPERTIES EndIsJust
CHECK_DEADLOCK FALSE
