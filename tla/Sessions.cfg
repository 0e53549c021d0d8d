SPECIFICATION SessionSpec
CONSTANTS
    Contents = {"entry"}
    Faults = {}
    Turns = {"turn", "turn2"}
    Configures = {"configure", "configure2", "configure3"}
    Renames = {"rename"}
    Inputs = {"input"}
    Navigates = {"navigate"}
    Compacts = {"compact"}
    Deletes = {"delete"}
    Breaks = TRUE
    Summaries = TRUE
    Groups = {{"turn", "turn2", "configure"}, {"turn", "turn2", "navigate"}, {"turn", "turn2", "input"}, {"turn", "rename", "delete"}, {"turn", "navigate", "compact"}, {"configure", "configure2", "configure3", "navigate"}}
    Handles = {"s1", "s2"}
    MaxEntries = 2
INVARIANTS
    LogIsSound
    SessionsSafe
PROPERTIES
    BatchesReachDisk
    OperationsEnd
CHECK_DEADLOCK FALSE
