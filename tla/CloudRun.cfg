\* Chunks of four actions, a picture every second action, ticks up to two periods apart.
SPECIFICATION RunSpec
CONSTANTS
    Nil = Nil
    N = 4
    Cadence = 2
    ObsGap = 1
    Resend = 3
    Stall = 6
    Loading = 6
    HelloAttempts = 3
    MaxGap = 2
    Seqs = 3
INVARIANT OneOnTheWire
PROPERTY FreshMotion SilenceEnds
CHECK_DEADLOCK FALSE
