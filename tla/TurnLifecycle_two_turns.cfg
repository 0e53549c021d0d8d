SPECIFICATION EndingSpec
CONSTANTS
    t1 = t1
    t2 = t2
    c1 = c1
    a = a
    b = b
    Turns = {t1, t2}
    Commands = {}
    Sessions = {a}
    SessionOf <- TwoTurns
    Permits = 1
    Disconnects = FALSE
    Repeats = {t2}
    DiskFaults = TRUE
    Shutdowns = FALSE
    Nobody = Nobody
INVARIANTS
    TurnsEndOnce
PROPERTIES
    TurnsEnd
CHECK_DEADLOCK FALSE
