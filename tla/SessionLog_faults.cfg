SPECIFICATION LogSpec
CONSTANTS
    s1 = s1
    s2 = s2
    Handles = {s1, s2}
    Contents = {"entry"}
    Faults = {"tear", "fsync"}
    MaxEntries = 3
SYMMETRY AnySession
INVARIANTS
    TypeOK
    BranchesResolve
    PromisesKept
PROPERTIES
    ImplementsDurableLog
CHECK_DEADLOCK FALSE
