SPECIFICATION Spec
CONSTANTS
    c1 = c1
    c2 = c2
    b1 = b1
    b2 = b2
    p1 = p1
    Nobody = Nobody
    Chats = {c1}
    Builds = {b1}
    Plans = {}
    Choices = {{}, {"readOnly", "web"}}
    Modes = {"auto", "implement"}
    Picks = {"none"}
    Strong = "strong"
    MaxClicks = 0
CHECK_DEADLOCK FALSE
INVARIANT BuildIsNotChat
