SPECIFICATION Spec
CONSTANTS
    r1 = r1
    Requests = {r1}
    CallLimit = 1
    RecoveryLimit = 1
    RolloverLimit = 0
    MaxTurns = 2
    MaxSessions = 2
    MaxEdits = 0
    MaxSaves = 0
    MaxStops = 1
CHECK_DEADLOCK FALSE
PROPERTY LateRequestRefused
