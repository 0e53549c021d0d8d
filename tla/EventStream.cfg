SPECIFICATION FairSpec
CONSTANTS
    Connections = {c1}
    Turns = {t1}
    StoreCalls <- GlobalAndThread
    Retained = 1
    QueueLimit = 2
    MaxEvents = 3
    Nobody = Nobody
CHECK_DEADLOCK FALSE
INVARIANTS
    EventsArrive
PROPERTIES
    TurnsNeverWait
    ClosesEnd
    RunsReturn
