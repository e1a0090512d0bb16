\* Two attempts, two steps, an hour of one tick: order, time and the books together.
SPECIFICATION Spec
CONSTANTS
    MaxAttempt = 2
    Total = 2
    KeptStep = 0
    Reserved = 1
    Hour = 1
    MaxNow = 1
    MaxClaims = 2
INVARIANTS
    OneFencedAttempt
    PublishHasStep
    ChargedOrUseless
PROPERTIES
    TimeIsBilledOnce
    OverIsOver
    ImplementsReservation
CHECK_DEADLOCK FALSE
