SPECIFICATION Spec
CONSTANTS
    c1 = c1
    c2 = c2
    c3 = c3
    Nobody = Nobody
    Clicks = {c1, c2, c3}
    MaxOffers = 3
    MaxBuilds = 3
    MaxEdits = 3
CHECK_DEADLOCK FALSE
SYMMETRY Symmetry
INVARIANTS RunsOnce PhaseOnItsPlan
PROPERTIES OwnerEnds
