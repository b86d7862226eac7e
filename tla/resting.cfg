CONSTANTS
    Agents = {a1, a2}
    MaxResumes = 1
    Options <- RestOptions
    BgLimits = {1}
    FgLimits = {1}
    NoOwner = NoOwner
    Workflow = Workflow
SPECIFICATION FairSpec
CHECK_DEADLOCK FALSE
PROPERTY AllComesToRest
