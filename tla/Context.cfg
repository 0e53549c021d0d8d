SPECIFICATION ContextSpec
CONSTANTS
    Window = 6
    ReserveTokens = 1
    KeepRecentTokens = 2
    UnitTokens = 2
    RequestTokens = 2
    Skews <- MCSkews
    Sizes <- MCSizes
    MaxEntries = 6
    MaxAttempts = 2
    MaxParts = 2
    MaxNames = 2
    MaxRetries = 2
    MaxSource = 4
    MaxChunk = 3
    MaxContent = 6
    MaxPieces = 4
    Threads = {"a", "b", "c"}
    Turns = {"m", "n"}
    Requests = {"r", "r2"}
    Lanes = {"order", "turns", "fields"}
    MaxBytes = 5
    MaxLines = 2
    Files <- MCFiles
    Limits = {None, 1, 3}
    Serves = {"serve", "serve2"}
    Resets = {"reset"}
    None = None
INVARIANTS
    DataDirSafe
    CompactionSafe
    ProviderSafe
    ThreadRowsSafe
    ShownIsThere
CHECK_DEADLOCK FALSE
