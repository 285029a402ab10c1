SPECIFICATION Spec
CONSTANTS
    talk1 = talk1
    build1 = build1
    deed1 = deed1
    deed2 = deed2
    open1 = open1
    door1 = door1
    t1 = t1
    t2 = t2
    t3 = t3
    Talks = {}
    Builds = {}
    Deeds = {deed1, deed2}
    Opens = {}
    Doors = {}
    Timers = {t1, t2, t3}
    None = None
    MaxFailures = 0
CHECK_DEADLOCK FALSE
INVARIANTS DeedIsDeferred
