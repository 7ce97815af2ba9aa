SPECIFICATION FairSpec
CONSTANTS
    Panes = {p1}
    ReqIds = {r1, r2}
    Handlers = {h1}
    None = None
    MaxLogins = 2
    Window = 4
    MaxPosts = 1
    MaxRestarts = 1
    PanesClose = TRUE
    SendFails = FALSE
    Stall = TRUE
    SlowPanes = TRUE
    CompactionReminderEnabled = FALSE
INVARIANTS
    NoLeakedRequest
PROPERTIES
    LoginEnds
    RequestsEnd
