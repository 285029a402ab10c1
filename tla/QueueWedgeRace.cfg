SPECIFICATION Spec
CONSTANTS
    chat1 = chat1
    chat2 = chat2
    build1 = build1
    build2 = build2
    door1 = door1
    door2 = door2
    Turns = {build1, build2}
    Chats = {}
    Doors = {}
    Free = Free
    Drops = {}
    MaxEdits = 0
CHECK_DEADLOCK FALSE
INVARIANTS WedgedIsRefused
