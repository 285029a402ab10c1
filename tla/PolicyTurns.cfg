SPECIFICATION Spec
CONSTANTS
    c1 = c1
    c2 = c2
    b1 = b1
    b2 = b2
    p1 = p1
    Nobody = Nobody
    Chats = {c1, c2}
    Builds = {b1}
    Plans = {p1}
    Choices = {{}, {"readOnly", "sensitivity"}}
    Modes = {"auto", "implement"}
    Picks = {"none"}
    Strong = "strong"
    MaxClicks = 1
CHECK_DEADLOCK FALSE
SYMMETRY Symmetry
INVARIANTS KeepsItsGuarantees NoStaleArm NoStrandedEscalation CompactsAsItsThread
PROPERTIES KeepsItsMode
