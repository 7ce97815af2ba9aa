SPECIFICATION Spec
CONSTANTS
    Panes = {p1}
    ReqIds = {r1, r2, r3}
    Handlers = {h1}
    None = None
    MaxLogins = 3
    Window = 4
    MaxPosts = 1
    MaxRestarts = 1
    PanesClose = FALSE
    SendFails = TRUE
    Stall = FALSE
    SlowPanes = FALSE
    CompactionReminderEnabled = TRUE
SYMMETRY ReqSymmetry
INVARIANTS
    TypeOK
    CodeAnswersRequest
    ResumeAfterLogin
    RequestUrlIsCurrent
PROPERTY
    BrokerSpec
