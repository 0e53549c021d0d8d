SPECIFICATION Spec
CONSTANTS
    t1 = t1
    t2 = t2
    c1 = c1
    a = a
    b = b
    Turns = {t1}
    Commands = {c1}
    Sessions = {a}
    SessionOf <- TurnAndCommand
    Permits = 1
    Disconnects = TRUE
    Repeats = {}
    DiskFaults = FALSE
    Shutdowns = FALSE
    Nobody = Nobody
INVARIANTS
    TypeOK
    LocksExact
    ActiveIsInside
    RunEndsAgree
    EventsAgree
PROPERTIES
    TerminalIsFinal
CHECK_DEADLOCK FALSE
