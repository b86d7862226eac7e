SPECIFICATION SubagentsSpec
CONSTANTS
    Ids = {"a", "b"}
    MaxTurns = 2
    SessionIds = {"s1", "s2"}
    Jobs = {"j"}
    Targets = {2, 5}
    Period = 2
    TimerLimit = 3
    MaxClock = 6
    MaxStarts = 1
    Builtins = {"read", "bash"}
    Orchestration = {"Agent"}
    ToolsOf <- MCTools
    AgentConfigs <- MCConfigs
    TurnLimits = {0, 1}
    GraceTurns = 1
    MaxMessages = 3
    AgentTypes <- MCTypes
    GivenNames <- MCGiven
    MaxStones = 1
    MaxIds = 3
    MaxEnds = 2
    FleetAgents = {2, 3, 4}
    FleetRuns = {1}
    MAX_AGENT_ROWS = 2
    MaxCtx = 2
    Kids = {1, 2, 3}
    MaxSubagentDepth = 3
    KidTypes = {"x", "y"}
    Allowed = {"x"}
    MaxSpend = 1
INVARIANT TimersMatchJobs
INVARIANT ScopeRespected
INVARIANT OwnAnswer
INVARIANT NamesApart
INVARIANT SelectionDrawn
INVARIANT RunsFolded
PROPERTY ToldOrRead
CHECK_DEADLOCK FALSE
