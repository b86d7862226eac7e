CONSTANTS
    Agents = {a1, a2}
    MaxResumes = 0
    Options <- BackgroundOptions
    BgLimits = {1, 2}
    FgLimits = {0}
    NoOwner = NoOwner
    Workflow = Workflow
SPECIFICATION WaitSpec
CHECK_DEADLOCK FALSE
PROPERTY WaitKept
