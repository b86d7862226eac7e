CONSTANTS
    Sessions = {p1, p2}
    None = None
    MaxTasks = 2
    Mutations <- TeamCalls
    MaxTries = 4
    MaxCalls = 3
    MaxCrashes = 0
    TornCreate = FALSE
    SessionScope = FALSE
SPECIFICATION StoreSpec
CHECK_DEADLOCK FALSE
PROPERTY ListSpec
