CONSTANTS
    Sessions = {p1, p2, p3}
    None = None
    MaxTasks = 3
    Mutations <- ClearCalls
    MaxTries = 4
    MaxCalls = 1
    MaxCrashes = 1
    TornCreate = TRUE
    SessionScope = TRUE
SPECIFICATION StoreSpec
CHECK_DEADLOCK FALSE
SYMMETRY Perms
INVARIANT ExclusionKept
INVARIANT DeadLockTakenOver
