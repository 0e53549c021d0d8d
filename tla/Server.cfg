SPECIFICATION ServerSpec
CONSTANTS
    Creates = {"create", "create2"}
    Worktrees = {"create", "create2"}
    Adds = {"add"}
    Deletes = {"delete", "delete2"}
    Removes = {"remove"}
    Uninstalls = {"uninstall"}
    Starts = {"start"}
    Opens = {"open"}
    Groups = {{"create", "create2", "remove", "start"}, {"create", "create2", "delete", "remove"}, {"create", "delete", "remove", "start"}, {"create", "delete", "delete2", "start", "open"}, {"create", "create2", "add", "remove", "open"}, {"create", "create2", "delete", "uninstall"}, {"create", "delete", "uninstall", "start"}, {"create", "remove", "uninstall", "start"}}
    Remotes = {"k1", "k2"}
    Locals = {"l1"}
    Paired = {"phone"}
    MaxClients = 2
    MaxPerDevice = 1
    MaxPending = 2
    SaveFails = TRUE
    TerminalOpens = {"o", "o2"}
    Closes = {"c", "c2"}
    TerminalThreads = {"a", "b"}
    MaxOutput = 1
    MaxStarts = 4
    ShellJobs <- MCShellJobs
    MaxCancels = 2
    None = None
INVARIANTS
    ThreadsSafe
    ShellsSafe
    AccessSafe
PROPERTIES
    FingerprintStays
    EndsAreTold
CHECK_DEADLOCK FALSE
