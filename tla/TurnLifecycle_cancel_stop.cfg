SPECIFICATION FairSpec
CONSTANTS
    t1 = t1
    t2 = t2
    c1 = c1
    a = a
    b = b
    Turns = {t1, t2}
    Commands = {}
    Sessions = {a}
    SessionOf <- TwoTurns
    Permits = 1
    Disconnects = FALSE
    Repeats = {}
    DiskFaults = FALSE
    Shutdowns = TRUE
    Nobody = Nobody
PROPERTIES
    CancelEndsTurn
    StopEndsAll
CHECK_DEADLOCK FALSE
