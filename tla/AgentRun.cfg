SPECIFICATION MCSpec
CONSTANTS
    History <- EarlierTurn
    Replies <- AllReplies
    Steers = 2
    FollowUps = 1
    OneAtATime = TRUE
    MaxReplies = 2
    MaxRetries = 1
    Compacts = TRUE
    Aborts = TRUE
    Breaks = TRUE
INVARIANTS
    RequestsFollow
    InputsKept
    RunIsOrderly

    
