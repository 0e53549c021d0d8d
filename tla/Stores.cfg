SPECIFICATION StoresSpec
CONSTANTS
    Services = {"main", "turn"}
    Main = "main"
    Gets = {"get", "get2"}
    Logins = {"login"}
    Logouts = {"logout"}
    Providers = {"p"}
    Updates = {"update", "update2"}
    Adds = {"add"}
    Removes = {"remove"}
    Refreshes = {"refresh"}
    Groups = {{"update", "update2", "remove"}, {"add", "remove", "refresh"}, {"update", "refresh"}}
    Uploads = {"u", "u2"}
    Drops = {"drop"}
    Turns = {"t", "t2"}
    Threads = {"th"}
    Contents = {"x", "empty"}
    Empty = {"empty"}
    Wants = {{"u"}, {"u2"}, {"u", "u2"}}
    EditCalls = {"edit", "edit2", "write"}
    EditJobs <- MCEditJobs
    None = None
INVARIANTS
    AccountSafe
    SettingsSafe
    FilesSafe
PROPERTIES
    CallsEnd
CHECK_DEADLOCK FALSE
