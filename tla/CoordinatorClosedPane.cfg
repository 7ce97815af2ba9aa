SPECIFICATION Spec
CONSTANTS
    Panes = {p1}
    ReqIds = {r1, r2}
    Handlers = {h1}
    None = None
    MaxLogins = 2
    Window = 4
    MaxPosts = 1
    MaxRestarts = 0
    PanesClose = TRUE
    SendFails = FALSE
    Stall = FALSE
    SlowPanes = FALSE
    CompactionReminderEnabled = FALSE
INVARIANTS
    EveryRequestHeld
