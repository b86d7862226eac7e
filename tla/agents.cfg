CONSTANTS
    Agents = {a1, a2, a3}
    MaxResumes = 0
    Options <- AllOptions
    BgLimits = {1, 2}
    FgLimits = {0, 1}
    NoOwner = NoOwner
    Workflow = Workflow
SPECIFICATION Spec
CONSTRAINT OneKind
CHECK_DEADLOCK FALSE
SYMMETRY Perms
INVARIANT SlotsAccounted
INVARIANT CallerOwedWakeUp
INVARIANT ChildNeedsParent
INVARIANT CallerReturnsDone
PROPERTY PoolsUsed
