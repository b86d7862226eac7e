CONSTANTS
    s1 = s1
    s2 = s2
    Sessions = {s1, s2}
    MaxTasks = 3
    Deps <- JoinAndFork
    MaxAgents = 7
    MaxRequests = 3
    Batches <- Calls
    None = None
SPECIFICATION BoardSpec
CHECK_DEADLOCK FALSE
INVARIANT InProgressAccounted
INVARIANT CascadeOwed
PROPERTY OnlyOwnTask
