SPECIFICATION FairSpec
CONSTANTS
    r1 = r1
    Requests = {r1}
    CallLimit = 1
    RecoveryLimit = 1
    RolloverLimit = 1
    MaxTurns = 1
    MaxSessions = 3
    MaxEdits = 1
    MaxSaves = 1
    MaxStops = 1
CHECK_DEADLOCK FALSE
INVARIANTS BudgetKept DecisionHeard ActiveIsNotRetired
PROPERTIES NoRestartAfterStop NoRetryOverAnEdit RecoveryResolved
