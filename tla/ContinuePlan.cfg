SPECIFICATION Spec
CONSTANTS
    c1 = c1
    c2 = c2
    c3 = c3
    Nobody = Nobody
    Clicks = {c1}
    MaxOffers = 1
    MaxBuilds = 2
    MaxEdits = 1
CHECK_DEADLOCK FALSE
PROPERTY BuiltPlanIsConsumed
