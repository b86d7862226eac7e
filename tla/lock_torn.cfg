CONSTANTS
    Sessions = {p1, p2}
    None = None
    MaxTasks = 3
    Mutations <- CreateCalls
    MaxTries = 4
    MaxCalls = 2
    MaxCrashes = 0
    TornCreate = TRUE
    SessionScope = FALSE
SPECIFICATION StoreSpec
CHECK_DEADLOCK FALSE
INVARIANT MutualExclusion
