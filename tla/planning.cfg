SPECIFICATION PlanningSpec
CONSTANTS
    Parts = {"list", "intents", "brainstorm", "evaluator"}
    MaxTasks = 3
    Mutations <- AllCalls
    Procs = {"p", "q"}
    MaxPhases = 3
    MaxPlans = 3
    Asked = {"trivial", "multi-phase", "multi-track"}
    ApproachIds = {"a", "b"}
    SectionIds = {"s", "t"}
    MaxCount = 1
    EvalCalls = {"c1", "c2"}
    WorkflowIds = {1, 2}
    DIMENSIONS <- MCDims
    Artifacts <- MCArtifacts
    SpecializedTools = {"aft_zoom"}
    BaselineTools = {"bash"}
    Whole = 4
    CoeffFiles = {"default", "missing", "broken", "old", "unbalanced", "zero"}
    Content <- MCContent
    DEFAULT_COEFFICIENTS = "default"
    LogPct <- MCLog
    MetricIds = {"argument_correctness", "step_efficiency", "tool_adoption", "goal_accuracy", "plan_adherence",
                 "task_completion", "tool_correctness", "plan_quality", "tool_use"}
INVARIANT PlanAccounted
INVARIANT MeanOfObserved
PROPERTY IdsFresh
PROPERTY EdgesFollowTasks
 
CHECK_DEADLOCK FALSE
