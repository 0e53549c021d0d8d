SPECIFICATION FairSpec
CONSTANTS
    Connections = {c1}
    Turns = {}
    StoreCalls <- GlobalAndThread
    Retained = 1
    QueueLimit = 1
    MaxEvents = 2
    Nobody = Nobody
CHECK_DEADLOCK FALSE
PROPERTIES
    OverflowCloses
