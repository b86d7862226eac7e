----------------------------- MODULE MCPlanning -----------------------------
(***************************************************************************)
(* What is planned and how it is scored, for TLC: the task list as one     *)
(* object, the planning of intents, brainstorming and the evaluator.  They *)
(* share no state of these models, so a behaviour is about one of them:    *)
(* part says which, and the others rest.                                   *)
(***************************************************************************)
EXTENDS TaskList, Intents, Brainstorm, Evaluator

CONSTANT Parts  \* those that a run is about
VARIABLE part

\* Edges are added one at a time or to every id at once.
EdgeTargets == {{i} : i \in Ids} \cup {Ids}

AllCalls ==
    [call : {"create"}, type : {"plan"}]
      \cup [call : {"status"}, id : Ids, status : Statuses]
      \cup [call : {"addBlocks", "addBlockedBy"}, id : Ids, targets : EdgeTargets]
      \cup [call : {"delete"}, id : Ids]
      \cup [call : {"clearAll", "clearCompleted"}]

-----------------------------------------------------------------------------
(* Coefficients and artifacts of the evaluator *)

MCDims == <<"dag", "implement">>
ByDim(a, b) == [d \in Range(MCDims) |-> IF d = "dag" THEN a ELSE b]
DagSignals == {"plan_adherence", "plan_quality", "acyclic"}
ImplementSignals == {"argument_correctness", "task_completion", "tool_use", "step_efficiency"}
Each(S, v) == [s \in S |-> v]

\* w gives one signal more weight: only w = 2 sums to the whole.
Coefficients(w, current, budget) ==
    [kind |-> "config", current |-> current, dimension_weights |-> ByDim(1, 3),
     weights |-> ByDim([Each(DagSignals, 1) EXCEPT !["plan_adherence"] = w],
                       [Each(ImplementSignals, 1) EXCEPT !["argument_correctness"] = w - 1]),
     norm |-> ByDim([Each(DagSignals, "ratio_0_1") EXCEPT !["acyclic"] = "boolean"], Each(ImplementSignals, "ratio_0_1")),
     direction |-> ByDim(Each(DagSignals, "higher_better"),
                         [Each(ImplementSignals, "higher_better") EXCEPT !["argument_correctness"] = "lower_better"]),
     pass |-> 80, pass_with_gaps |-> 60, budgetPerTask |-> budget,
     llm |-> IF current THEN {} ELSE {"task_completion"}]
MCContent ==
    [f \in {"default", "missing", "broken", "old", "unbalanced", "zero"} |->
        CASE f = "default" -> Coefficients(2, TRUE, 2)
          [] f = "old" -> Coefficients(2, FALSE, 2)
          [] f = "unbalanced" -> Coefficients(3, TRUE, 2)
          [] f = "zero" -> Coefficients(2, TRUE, 0)
          [] OTHER -> [kind |-> f]]
MCLog == [r \in 0..100 |-> IF r = 0 THEN 0 ELSE IF r <= 50 THEN 17 ELSE 29]

CallOf(n) == [type |-> "toolCall", name |-> n]
ResultOf(e) == [type |-> "toolResult", is_error |-> e]
DagTask(id, covers, reported, expected) == [id |-> id, covers |-> covers, reported |-> reported, expected_tools |-> expected]
Report(ready, passing) == [workflowReady |-> ready, certified |-> TRUE, passing |-> passing]
Artifact(unreadable, session, dag, audits, verdict) ==
    [unreadable |-> unreadable, session |-> session, dag |-> dag, audits |-> audits, verdict |-> verdict]
MCArtifacts ==
    {Artifact({"session", "dag", "reports", "audits"}, <<>>, <<>>, <<>>, 50),
     Artifact({"verdict"},
        <<CallOf("bash"), ResultOf(TRUE), CallOf("task_dispatch"), CallOf("aft_zoom"), ResultOf(FALSE)>>,
        <<DagTask("T1", {"SC1", "SC2"}, {"SC1"}, {"aft_zoom"})>>, <<Report(TRUE, {"SC2"}), Report(FALSE, {})>>, 0),
     Artifact({}, <<>>, <<DagTask("task_dispatch", {}, {}, {"bash"})>>, <<>>, 50),
     Artifact({}, <<CallOf("task_dispatch"), CallOf("bash"), CallOf("bash"), CallOf("vendor"), CallOf("task_dispatch")>>,
        <<DagTask("task_dispatch", {"SC1"}, {"SC1"}, {"bash", "read"})>>, <<Report(TRUE, {"*"})>>, 100)}

-----------------------------------------------------------------------------

PlanningInit ==
    /\ part \in Parts
    /\ Init /\ IntentsInit /\ BrainstormInit /\ EvalInit

PlanningNext ==
    \/ part = "list" /\ Next /\ UNCHANGED <<part, intentvars, brainvars, evalvars>>
    \/ part = "intents" /\ IntentsNext /\ UNCHANGED <<part, board, brainvars, evalvars>>
    \/ part = "brainstorm" /\ BrainstormNext /\ UNCHANGED <<part, board, intentvars, evalvars>>
    \/ part = "evaluator" /\ EvalNext /\ UNCHANGED <<part, board, intentvars, brainvars>>

PlanningSpec == PlanningInit /\ [][PlanningNext]_<<part, board, intentvars, brainvars, evalvars>>
=============================================================================
