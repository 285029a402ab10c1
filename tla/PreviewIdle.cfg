SPECIFICATION Spec
CONSTANTS
    MaxProcs = 3
    MaxRestarts = 1
    MaxAsks = 2
    MaxReloads = 1
    MaxChecks = 1
    Gated = TRUE
CHECK_DEADLOCK FALSE
INVARIANT UpOnRequest
