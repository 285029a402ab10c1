SPECIFICATION Spec
CONSTANTS
    chat1 = chat1
    chat2 = chat2
    build1 = build1
    build2 = build2
    door1 = door1
    door2 = door2
    Turns = {chat1, build1, build2}
    Chats = {chat1}
    Doors = {door1}
    Free = Free
    Drops = {"pending", "announcing"}
    MaxEdits = 0
CHECK_DEADLOCK FALSE
SYMMETRY Symmetry
INVARIANTS NobodyMissing
PROPERTIES ServedInOrder WedgeKeepsLock
