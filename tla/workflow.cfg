SPECIFICATION WorkflowSpec
CONSTANTS
    Payloads <- MCPayloads
    Concurrency = 1
    AgentCap = 2
    NestedCap = 1
    MaxCalls = 2
    MaxRuns = 2
    MaxControls = 3
    Titles <- MCTitles
    MaxAgents = 2
    MaxLog = 4
INVARIANT ReplayFaithful
INVARIANT CompletedAnswered
INVARIANT EveryAgentShown
PROPERTY PauseHolds
PROPERTY CallsAnswered
