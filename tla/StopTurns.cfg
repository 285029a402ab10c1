SPECIFICATION Spec
CONSTANTS
    chat1 = chat1
    chat2 = chat2
    decline1 = decline1
    build1 = build1
    plan1 = plan1
    phased1 = phased1
    reset1 = reset1
    stop1 = stop1
    stop2 = stop2
    Chats = {chat1}
    Declines = {}
    Builds = {build1}
    Approvals = {}
    Phased = {phased1}
    Resets = {}
    Stops = {stop1}
    ChatSession = ChatSession
    BuildSession = BuildSession
    None = None
    MaxSends = 2
CHECK_DEADLOCK FALSE
INVARIANTS OneStopOneTurn OneWriterPerTurn GaveUpIsQuiet
