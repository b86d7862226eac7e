----------------------------- MODULE Evaluator ------------------------------
(***************************************************************************)
(* The evaluator of a session in reward mode: its coefficients are loaded  *)
(* from a file, the orchestrator's tool calls say which workflow is        *)
(* active, and eval_score scores the workflow's artifacts, one dimension   *)
(* after the other with the session running in between, and caches the     *)
(* result.  A signal is the value of the metric registered under its name. *)
(* Fractions are counted in hundredths, weights in parts of Whole.         *)
(***************************************************************************)
EXTENDS Integers, Sequences, FiniteSets, FiniteSetsExt, Functions

CONSTANTS
    EvalCalls,      \* eval_score calls that may be under way together
    WorkflowIds,    \* ids of workflows, positive numbers
    DIMENSIONS,     \* the dimensions, in the order they are scored
    Artifacts,      \* what a pass may find on disk when it comes to a dimension
    SpecializedTools,   \* tools of the specialized families
    BaselineTools,      \* the other tools the adoption metric recognizes, besides ORCHESTRATOR_TOOLS
    Whole,          \* parts a sum of weights must have
    CoeffFiles,     \* what coefficients.json may be when it is read
    Content,        \* of each: whether it is missing or broken, else the configuration
    DEFAULT_COEFFICIENTS,   \* the file that holds the defaults
    LogPct,         \* value in hundredths -> log(1 + r) / log(11), in hundredths
    MetricIds       \* the metrics registerBuiltinMetrics knows

\* What is on disk may be cut short or missing, but it is finite.
ASSUME ArtifactsAssumption ==
    \A a \in Artifacts :
        /\ IsFiniteSet(DOMAIN a.session) /\ IsFiniteSet(DOMAIN a.dag) /\ IsFiniteSet(DOMAIN a.audits)
        /\ \A i \in DOMAIN a.dag : IsFiniteSet(a.dag[i].covers) /\ IsFiniteSet(a.dag[i].expected_tools)
        /\ a.verdict \in Int

ASSUME ScaleAssumption ==
    /\ WorkflowIds \subseteq Nat \ {0} /\ Whole \in Nat \ {0}
    /\ LogPct \in [0..100 -> 0..100]
    /\ IsFiniteSet(DOMAIN DIMENSIONS) /\ Len(DIMENSIONS) \in Nat /\ DOMAIN DIMENSIONS = 1..Len(DIMENSIONS)

VARIABLES
    ev,         \* EvalState, and whether the extension is loaded
    registry,   \* REGISTRY: the metrics registered in the process
    evcalls     \* call -> its progress and answer

evalvars == <<ev, registry, evcalls>>

NoWorkflow == 0
Missing == -1
NaN == -2
Dims == Range(DIMENSIONS)

\* The scores of the dimensions are listed as they come; none stands for zero in each.
NoScore == [id |-> NoWorkflow, total |-> 0, dims |-> <<>>]
IdleCall == [at |-> "idle", dims |-> <<>>, named |-> {}, rich |-> FALSE, answer |-> NoScore]
Unloaded == [loaded |-> FALSE, started |-> FALSE, mode |-> "off", coefficients |-> DEFAULT_COEFFICIENTS,
             warning |-> FALSE, path |-> FALSE, id |-> NoWorkflow, active |-> NoScore]

EvalInit ==
    /\ ev = Unloaded
    /\ registry = {}
    /\ evcalls = [c \in EvalCalls |-> IdleCall]

-----------------------------------------------------------------------------
(* Coefficients *)

Norms == {"identity", "ratio_0_1", "count", "log_count", "boolean", "invert_count", "invert_log_count", "signed_pct"}

\* CoefficientsConfigSchema, as far as the scores depend on it.
CoefficientsConfig(cfg) ==
    /\ cfg.dimension_weights \in [Dims -> 0..Whole]
    /\ \A d \in Dims :
        /\ IsFiniteSet(DOMAIN cfg.weights[d]) /\ cfg.weights[d] \in [DOMAIN cfg.weights[d] -> 0..Whole]
        /\ cfg.norm[d] \in [DOMAIN cfg.weights[d] -> Norms]
        /\ cfg.direction[d] \in [DOMAIN cfg.weights[d] -> {"higher_better", "lower_better"}]

sumOver(f, S) == MapThenSumSet(LAMBDA x : f[x], S)
byDimension(cfg) == [i \in DOMAIN DIMENSIONS |-> cfg.dimension_weights[DIMENSIONS[i]]]

validateInvariants(cfg) ==
    /\ sumOver(byDimension(cfg), DOMAIN DIMENSIONS) = Whole
    /\ \A d \in Dims : DOMAIN cfg.weights[d] # {} /\ sumOver(cfg.weights[d], DOMAIN cfg.weights[d]) = Whole
    /\ cfg.pass_with_gaps < cfg.pass

\* A file that is a configuration has passed the schema; the defaults also keep the
\* invariants.
ASSUME CoefficientsAssumption ==
    /\ \A f \in CoeffFiles : Content[f].kind = "config" => CoefficientsConfig(Content[f])
    /\ DEFAULT_COEFFICIENTS \in CoeffFiles /\ Content[DEFAULT_COEFFICIENTS].kind = "config"
    /\ validateInvariants(Content[DEFAULT_COEFFICIENTS])

\* The schema does not look into what a signal is given: the budget of step_efficiency,
\* which it divides by, may be zero.  That it is a number and not negative is assumed.
ASSUME BudgetAssumption ==
    \A f \in CoeffFiles : Content[f].kind = "config" => Content[f].budgetPerTask \in Nat

\* loadCoefficientsAt: a missing file means the defaults, a bad one is an error.
Loadable(f) ==
    \/ Content[f].kind = "missing"
    \/ Content[f].kind = "config" /\ validateInvariants(Content[f])
loadCoefficients(f) ==
    IF Content[f].kind = "missing" THEN [config |-> DEFAULT_COEFFICIENTS, warning |-> FALSE]
    ELSE [config |-> f, warning |-> ~Content[f].current]

\* At session_start an error means the defaults and a warning.
reloadCoefficients(f) ==
    IF Loadable(f) THEN loadCoefficients(f) ELSE [config |-> DEFAULT_COEFFICIENTS, warning |-> TRUE]

-----------------------------------------------------------------------------
(* The scoring engine *)

clampPct(r) == IF r < 0 THEN 0 ELSE IF r > 100 THEN 100 ELSE r
applyNorm(raw, norm, direction) ==
    LET n == CASE norm = "ratio_0_1" -> clampPct(raw)
               [] norm \in {"identity", "count"} -> raw
               [] norm = "log_count" -> LogPct[raw]
               [] norm = "boolean" -> IF raw >= 50 THEN 100 ELSE 0
               [] norm = "invert_count" -> 100 - clampPct(raw)
               [] norm = "invert_log_count" -> 100 - LogPct[raw]
               [] norm = "signed_pct" -> (raw + 100) \div 2
    IN CASE raw = NaN /\ norm # "boolean" -> NaN
         [] raw = NaN /\ norm = "boolean"  -> IF direction = "lower_better" THEN 100 ELSE 0
         [] OTHER -> IF direction = "lower_better" THEN 100 - n ELSE n

round(sum, weight) == (2 * sum + weight) \div (2 * weight)

\* Mutant: a signal without data counts as zero.
observedAll(vals) == DOMAIN vals
observed(vals) == {s \in DOMAIN vals : vals[s] # Missing}

\* scoreDimension: the weighted mean of the signals that have data, not a number when
\* one of them is not.
scoreDimension(cfg, d, vals) ==
    LET seen == observed(vals)
        value(s) == IF vals[s] = Missing THEN 0 ELSE applyNorm(vals[s], cfg.norm[d][s], cfg.direction[d][s])
        weight == sumOver(cfg.weights[d], seen)
        sum == sumOver([s \in DOMAIN vals |-> value(s) * cfg.weights[d][s]], seen)
    IN [score |-> IF weight = 0 THEN 0 ELSE IF \E s \in seen : value(s) = NaN THEN NaN ELSE round(sum, weight),
        evidence |-> {<<value(s), cfg.weights[d][s]>> : s \in {x \in seen : vals[x] # Missing}}]

globalScore(dims, cfg) ==
    LET w == byDimension(cfg)
        weight == sumOver(w, DOMAIN w)
    IN IF weight = 0 THEN 0
       ELSE IF \E i \in DOMAIN w : dims[i].score = NaN THEN NaN
       ELSE round(sumOver([i \in DOMAIN w |-> dims[i].score * w[i]], DOMAIN w), weight)

-----------------------------------------------------------------------------
(* The metrics: what each makes of the artifacts, or Missing.  a.unreadable *)
(* names the artifacts that are absent or cannot be parsed.               *)

ORCHESTRATOR_TOOLS == {"goal_contract_create", "dag_synthesize", "task_dispatch", "orchestrator_audit"}

pct(n, m) == IF m = 0 THEN Missing ELSE (100 * n) \div m
share(part, whole) == pct(Cardinality(part), Cardinality(whole))
mean(values) == pct(sumOver(values, DOMAIN values), 100 * Cardinality(DOMAIN values))

\* The blocks of the session are tool calls, by name, and results, error or not.
calls(a) == {i \in DOMAIN a.session : a.session[i].type = "toolCall"}
results(a) == {i \in DOMAIN a.session : a.session[i].type = "toolResult"}

argument_correctness(a) ==
    IF "session" \in a.unreadable THEN Missing
    ELSE share({i \in results(a) : a.session[i].is_error}, results(a))

\* The windows between orchestrator calls, each at the call that opens it and named
\* after it; before the first there is one at 0.
opening(a) == {i \in calls(a) : a.session[i].name \in ORCHESTRATOR_TOOLS}
bucketToolsByTask(a) ==
    [o \in {0} \cup opening(a) |->
        [taskId |-> IF o = 0 THEN "(unknown)" ELSE a.session[o].name,
         toolCalls |-> {i \in calls(a) \ opening(a) : o < i /\ ~\E p \in opening(a) : o < p /\ p < i}]]

\* An unreadable session counts as a saturated budget, not as missing.  With a budget
\* of zero a window is saturated too, or, when it is empty, 0/0.
step_efficiency(a, budget) ==
    IF "session" \in a.unreadable THEN 100
    ELSE LET w == bucketToolsByTask(a)
             counted == {o \in DOMAIN w : o # 0 \/ w[o].toolCalls # {}}
         IN IF budget = 0 /\ \E o \in counted : w[o].toolCalls = {} THEN NaN
            ELSE mean([o \in counted |->
                        IF budget = 0 THEN 100 ELSE clampPct(pct(Cardinality(w[o].toolCalls), budget))])

tool_adoption(a) ==
    IF "session" \in a.unreadable THEN Missing
    ELSE LET known == {i \in calls(a) : a.session[i].name \in SpecializedTools \cup BaselineTools \cup ORCHESTRATOR_TOOLS}
         IN share({i \in known : a.session[i].name \in SpecializedTools}, known)

\* judge: the model's score, or Missing when the call fails.
judge(a) == IF "verdict" \in a.unreadable THEN Missing ELSE clampPct(a.verdict)

\* With the option from = llm the judge is asked, whatever could be read.
goal_accuracy(a, llm) ==
    IF llm THEN judge(a)
    ELSE IF "audits" \in a.unreadable THEN Missing
    ELSE share({i \in DOMAIN a.audits : a.audits[i].workflowReady /\ a.audits[i].certified}, DOMAIN a.audits)

\* The mean, over the tasks that cover criteria, of the share that is confirmed.
covered(a, confirmed) ==
    mean([i \in {k \in DOMAIN a.dag : a.dag[k].covers # {}} |->
            share(a.dag[i].covers \cap confirmed[i], a.dag[i].covers)])

plan_adherence(a) ==
    IF {"dag", "reports"} \cap a.unreadable # {} THEN Missing
    ELSE covered(a, [i \in DOMAIN a.dag |-> a.dag[i].reported])

task_completion(a, llm) ==
    IF llm THEN judge(a)
    ELSE IF "dag" \in a.unreadable \/ "audits" \in a.unreadable THEN Missing
    ELSE LET passing == UNION {a.audits[i].passing : i \in DOMAIN a.audits}
         IN covered(a, [i \in DOMAIN a.dag |-> IF "*" \in passing THEN a.dag[i].covers ELSE passing])

\* Precision and recall are both shares of the common tools: F1 is twice those over both sizes.
computePerTask(actual, expected) == pct(2 * Cardinality(actual \cap expected), Cardinality(actual) + Cardinality(expected))

\* A window is matched with the task whose id is the name of the tool that opened it.
tool_correctness(a) ==
    IF "dag" \in a.unreadable \/ "session" \in a.unreadable THEN Missing
    ELSE LET expects(id) == {i \in DOMAIN a.dag : a.dag[i].id = id /\ a.dag[i].expected_tools # {}}
             w == bucketToolsByTask(a)
             scored == {o \in DOMAIN w : expects(w[o].taskId) # {}}
         IN mean([o \in scored |-> computePerTask({a.session[i].name : i \in w[o].toolCalls},
                                                  a.dag[CHOOSE i \in expects(w[o].taskId) : TRUE].expected_tools)])

plan_quality(a) == IF "dag" \in a.unreadable \/ a.dag = <<>> THEN Missing ELSE judge(a)
tool_use(a) == IF "session" \in a.unreadable \/ calls(a) = {} THEN Missing ELSE judge(a)

metricValue(name, cfg, a) ==
         CASE name = "argument_correctness" -> argument_correctness(a)
           [] name = "step_efficiency" -> step_efficiency(a, cfg.budgetPerTask)
           [] name = "tool_adoption" -> tool_adoption(a)
           [] name = "goal_accuracy" -> goal_accuracy(a, name \in cfg.llm)
           [] name = "plan_adherence" -> plan_adherence(a)
           [] name = "task_completion" -> task_completion(a, name \in cfg.llm)
           [] name = "tool_correctness" -> tool_correctness(a)
           [] name = "plan_quality" -> plan_quality(a)
           [] name = "tool_use" -> tool_use(a)

ASSUME MetricsAssumption ==
    MetricIds \subseteq {"argument_correctness", "step_efficiency", "tool_adoption", "goal_accuracy", "plan_adherence",
                    "task_completion", "tool_correctness", "plan_quality", "tool_use"}

\* A name without a metric has no data.
computeSignalValue(name, cfg, a) == IF name \in registry THEN metricValue(name, cfg, a) ELSE Missing

-----------------------------------------------------------------------------
(* The extension *)

\* pi loads the extension for a session: createEvalState has no fallback, so a bad
\* file keeps it from loading.
createEvalState(f) ==
    /\ Loadable(f)
    /\ LET r == loadCoefficients(f)
       IN ev' = [Unloaded EXCEPT !.loaded = TRUE, !.coefficients = r.config, !.warning = r.warning]
    /\ evcalls' = [c \in EvalCalls |-> IdleCall]
    /\ UNCHANGED registry

\* session_start, once: reads the setting and the file as they are now.
evalSessionStart(f, on) ==
    /\ ev.loaded /\ ~ev.started /\ \A c \in EvalCalls : evcalls[c] = IdleCall
    /\ LET r == reloadCoefficients(f)
       IN ev' = [ev EXCEPT !.started = TRUE, !.mode = IF on THEN "on" ELSE "off",
                           !.coefficients = r.config, !.warning = r.warning]
    /\ UNCHANGED <<registry, evcalls>>

\* Whoever embeds the package may register its metrics; the extension does not.
registerBuiltinMetrics ==
    /\ registry # MetricIds
    /\ registry' = MetricIds
    /\ UNCHANGED <<ev, evcalls>>

\* An orchestrator tool is called with a workflow's id.
toolCallListener(w) ==
    /\ ev.mode = "on"
    /\ ev' = [ev EXCEPT !.path = TRUE, !.id = w]
    /\ evcalls' = [c \in EvalCalls |->
                    IF evcalls[c].at = "scoring" THEN [evcalls[c] EXCEPT !.named = @ \cup {w}] ELSE evcalls[c]]
    /\ UNCHANGED registry

-----------------------------------------------------------------------------
(* eval_score *)

Answered(c, wf) == [evcalls[c] EXCEPT !.at = "answered", !.answer = wf, !.dims = <<>>]

\* Reward mode off, a cached workflow, or none: answered at once.
evalScoreAtOnce(c) ==
    /\ ev.loaded /\ evcalls[c] = IdleCall
    /\ ev.mode = "off" \/ ev.active # NoScore \/ ~ev.path
    /\ evcalls' = [evcalls EXCEPT ![c] =
                    [Answered(c, IF ev.mode = "off" THEN NoScore ELSE ev.active) EXCEPT !.named = {ev.id}]]
    /\ UNCHANGED <<ev, registry>>

evalScoreCooks(c) ==
    /\ ev.mode = "on" /\ evcalls[c] = IdleCall
    /\ ev.active = NoScore /\ ev.path
    /\ evcalls' = [evcalls EXCEPT ![c].at = "scoring", ![c].named = {ev.id}]
    /\ UNCHANGED <<ev, registry>>

\* scoreWorkflow: the next dimension, from what the metrics find at this moment.
scoreWorkflow(c, a) ==
    LET d == DIMENSIONS[Len(evcalls[c].dims) + 1]
        cfg == Content[ev.coefficients]
        names == DOMAIN cfg.weights[d]
        vals == [s \in names |-> computeSignalValue(s, cfg, a)]
    IN /\ evcalls[c].at = "scoring" /\ Len(evcalls[c].dims) < Len(DIMENSIONS)
       /\ evcalls' = [evcalls EXCEPT ![c].dims = Append(@, scoreDimension(cfg, d, vals)),
                                     ![c].rich = @ \/ \E s \in names \cap MetricIds : metricValue(s, cfg, a) # Missing]
       /\ UNCHANGED <<ev, registry>>

\* The id is read when the scores are there; the result is cached and answered.
cacheScore(c) ==
    LET wf == [id |-> ev.id, total |-> globalScore(evcalls[c].dims, Content[ev.coefficients]), dims |-> evcalls[c].dims]
    IN /\ evcalls[c].at = "scoring" /\ Len(evcalls[c].dims) = Len(DIMENSIONS)
       /\ ev' = [ev EXCEPT !.active = wf]
       /\ evcalls' = [evcalls EXCEPT ![c] = Answered(c, wf)]
       /\ UNCHANGED registry

\* A metric throws: an empty answer, and nothing is cached.
scoringFails(c) ==
    /\ evcalls[c].at = "scoring"
    /\ evcalls' = [evcalls EXCEPT ![c] = Answered(c, NoScore)]
    /\ UNCHANGED <<ev, registry>>

answerRead(c) ==
    /\ evcalls[c].at = "answered"
    /\ evcalls' = [evcalls EXCEPT ![c] = IdleCall]
    /\ UNCHANGED <<ev, registry>>

EvalNext ==
    \/ \E f \in CoeffFiles : createEvalState(f)
    \/ \E f \in CoeffFiles, on \in BOOLEAN : evalSessionStart(f, on)
    \/ registerBuiltinMetrics
    \/ \E w \in WorkflowIds : toolCallListener(w)
    \/ \E c \in EvalCalls :
        \/ evalScoreAtOnce(c) \/ evalScoreCooks(c) \/ cacheScore(c) \/ scoringFails(c) \/ answerRead(c)
        \/ \E a \in Artifacts : scoreWorkflow(c, a)

EvalSpec == EvalInit /\ [][EvalNext]_evalvars

-----------------------------------------------------------------------------
(* Properties *)

Between(x, S) == \E lo, hi \in S : lo <= x /\ x <= hi

ZeroBudget == \E f \in CoeffFiles : Content[f].kind = "config" /\ Content[f].budgetPerTask = 0

\* scoreDimension, globalScore: whatever file is loaded, a score answered lies between
\* the least and the greatest signal that had data, a total between the least and the
\* greatest dimension, all on the scale of 0 to 100.  A signal that is not a number
\* spoils the scores it weighs in, and there is none unless a file has a budget of zero.
MeanOfObserved ==
    \A c \in EvalCalls :
        LET wf == evcalls[c].answer
            nan == {i \in DOMAIN wf.dims : wf.dims[i].score = NaN}
        IN /\ nan # {} => ZeroBudget /\ wf.total = NaN
           /\ wf # NoScore /\ nan = {} => Between(wf.total, {wf.dims[i].score : i \in DOMAIN DIMENSIONS})
           /\ \A i \in DOMAIN wf.dims :
                LET weighty == {e[1] : e \in {x \in wf.dims[i].evidence : x[2] > 0}}
                IN IF NaN \in {e[1] : e \in wf.dims[i].evidence} THEN wf.dims[i].score \in {0, NaN}
                   ELSE /\ wf.dims[i].score \in 0..100
                        /\ IF weighty = {} THEN wf.dims[i].score = 0 ELSE Between(wf.dims[i].score, weighty)

\* What scoreWorkflow's comment says: a score is between 0 and 100.  Violated by a file
\* whose step_efficiency has a budget of zero, which loads: an empty window is 0/0.
OnScale ==
    \A c \in EvalCalls : \A i \in DOMAIN evcalls[c].answer.dims : evcalls[c].answer.dims[i].score \in 0..100

\* What the comment on registerBuiltinMetrics says: the extension registers the
\* metrics when the session starts, so a pass that finds artifacts a metric can read
\* answers with evidence.
FoundIsScored ==
    \A c \in EvalCalls : evcalls[c].at = "answered" /\ evcalls[c].rich /\ evcalls[c].answer # NoScore =>
        \E i \in DOMAIN DIMENSIONS : evcalls[c].answer.dims[i].evidence # {}

\* What the description of eval_score says: the score is that of the currently active
\* workflow, so the workflow an answer names was active while the call ran.
ActiveNamed ==
    \A c \in EvalCalls : evcalls[c].answer # NoScore => evcalls[c].answer.id \in evcalls[c].named
=============================================================================
