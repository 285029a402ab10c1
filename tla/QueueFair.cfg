SPECIFICATION FairSpec
CONSTANTS
    chat1 = chat1
    chat2 = chat2
    build1 = build1
    build2 = build2
    door1 = door1
    door2 = door2
    Turns = {chat1, build1}
    Chats = {chat1}
    Doors = {door1, door2}
    Free = Free
    Drops = {"announcing"}
    MaxEdits = 1
CHECK_DEADLOCK FALSE
INVARIANTS OneInTree RunningIsLive
PROPERTIES EveryWaitEnds Refinement
