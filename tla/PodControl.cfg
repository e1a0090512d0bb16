\* Two attempts over one pod, any two rounds overlap at every await, one restart.
SPECIFICATION FairSpec
CONSTANTS
    Pods = {p1}
    MaxAttempt = 2
    MaxCancel = 1
    Cancels = TRUE
    MaxOverlap = 2
    MaxCrashes = 1
    None = None
  
PROPERTY AllEnds
CHECK_DEADLOCK FALSE
