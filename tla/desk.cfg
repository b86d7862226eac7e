SPECIFICATION DeskSpec
CONSTANTS
    TurnTaskIds = {1, 2}
    ClearDelay = 2
    LongInterval = 2
    ShortInterval = 1
    WakeGap = 2
    MaxTurn = 3
    MaxSession = 2
    Owners = {"p", "q"}
    Me = "p"
    MaxId = 3
    MaxIntents = 2
    Dates = {0, 1}
    RowIds = {"1"}
    MaxRows = 3
    LogMax = 1
    MaxBadges = 1
INVARIANT ClosedMeansDone
INVARIANT MailAnnounced
INVARIANT Lingers
INVARIANT PromptedRight
INVARIANT PanelTrue
CHECK_DEADLOCK FALSE
