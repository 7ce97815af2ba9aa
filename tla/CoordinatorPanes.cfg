SPECIFICATION Spec
CONSTANTS
    Panes = {p1, p2}
    ReqIds = {r1, r2}
    Handlers = {h1}
    None = None
    MaxLogins = 1
    Window = 3
    MaxPosts = 1
    MaxRestarts = 0
    PanesClose = FALSE
    SendFails = FALSE
    Stall = TRUE
    SlowPanes = TRUE
    CompactionReminderEnabled = FALSE
SYMMETRY Symmetry
INVARIANTS
    EveryRequestHeld
    CodeStaysInPane
