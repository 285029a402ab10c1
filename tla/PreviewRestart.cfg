SPECIFICATION FairSpec
CONSTANTS
    MaxProcs = 3
    MaxRestarts = 1
    MaxAsks = 2
    MaxReloads = 1
    MaxChecks = 1
    Gated = TRUE
INVARIANTS
    StoppedIsDown
    ServesThisAttempt
    OneLaunch
    NoOrphan
PROPERTIES
    StartingEnds
CHECK_DEADLOCK FALSE
