------------------------------- MODULE Intents -------------------------------
(***************************************************************************)
(* pi-orchestrator/src/orchestrator-tool.ts and phase-validation.ts: how   *)
(* an intent task becomes plan tasks, at once (task_convert_intent) or     *)
(* phase by phase (task_plan_intent, task_add_phase, task_close_intent).   *)
(* Every call reads the task file, decides, and then writes it once for    *)
(* each task it creates or changes: the calls of two processes of one      *)
(* project interleave at these writes, and a process may die between them. *)
(***************************************************************************)
EXTENDS Integers, Sequences

CONSTANTS
  Procs,      \* processes that work on the project
  Asked,      \* bound: the shapes that plans are given
  MaxPhases,  \* bound: phases of a plan
  MaxPlans    \* bound: plan tasks created

Phases == {"investigate", "design", "implement", "test", "review"}
Shapes == {"trivial", "small", "standard", "investigate-then-fix", "multi-phase", "multi-track"}
PhaseLists == UNION {[1..n -> Phases] : n \in 1..MaxPhases}

ASSUME IntentsAssumption ==
  Asked \subseteq Shapes /\ {MaxPhases, MaxPlans} \subseteq Nat /\ "add" \notin Procs

EXPECTED_FIRST_PHASE ==
  [s \in Shapes |-> CASE s = "investigate-then-fix" -> "investigate"
                      [] s = "multi-phase" -> "design"
                      [] OTHER -> "implement"]
EXPECTED_LAST_PHASE ==
  [s \in Shapes |-> CASE s = "trivial" -> "implement" [] s = "multi-track" -> "none" [] OTHER -> "review"]
EXPECTED_PHASE_COUNT ==
  [s \in Shapes |-> CASE s = "trivial" -> [min |-> 1, max |-> 1]
                      [] s \in {"small", "standard"} -> [min |-> 2, max |-> 2]
                      [] s = "investigate-then-fix" -> [min |-> 3, max |-> 6]
                      [] s = "multi-phase" -> [min |-> 3, max |-> 8]
                      [] s = "multi-track" -> [min |-> 2, max |-> 10]]

CountOf(list, phase) == Len(SelectSeq(list, LAMBDA p : p = phase))
FirstOK(s, list) == list[1] = EXPECTED_FIRST_PHASE[s]
LastOK(s, list) == EXPECTED_LAST_PHASE[s] \in {"none", list[Len(list)]}

(* The phases so far, when one is added.                                   *)
validateCumulativePhases(s, list) ==
  /\ list # <<>> /\ Len(list) <= EXPECTED_PHASE_COUNT[s].max
  /\ s = "trivial" => CountOf(list, "review") = 0
  /\ CountOf(list, "review") <= 1
  /\ FirstOK(s, list)
  /\ Len(list) = EXPECTED_PHASE_COUNT[s].max => LastOK(s, list)
  /\ s = "multi-track" /\ Len(list) >= 2 => CountOf(list, "implement") = Len(list)

(* The whole plan, when it is converted or closed.                         *)
validateFinalShape(s, list) ==
  /\ s = "trivial" => CountOf(list, "review") = 0
  /\ s = "multi-track" => CountOf(list, "implement") >= 2
  /\ s = "investigate-then-fix" => CountOf(list, "implement") >= 1
  /\ CountOf(list, "review") <= 1
  /\ Len(list) \in EXPECTED_PHASE_COUNT[s].min .. EXPECTED_PHASE_COUNT[s].max
  /\ FirstOK(s, list) /\ LastOK(s, list)

Accepted == [s \in Asked |-> {list \in PhaseLists : validateFinalShape(s, list)}]

-----------------------------------------------------------------------------
VARIABLES
  intent,  \* the intent task: its status and metadata
  plans,   \* the plan tasks created for it: phase, and the process that
           \* converted the intent, or "add"
  call     \* what each process still has to write

intentvars == <<intent, plans, call>>

NoPlanning == [shape |-> "none", phases |-> <<>>, ids |-> {}]
NoCall == [op |-> "none", shape |-> "none", todo |-> <<>>, planning |-> NoPlanning]

IntentsInit ==
  /\ intent = [status |-> "pending", converted |-> FALSE, intent_shape |-> "none", planning |-> NoPlanning]
  /\ plans = <<>> /\ call = [p \in Procs |-> NoCall]

Here == intent.status # "deleted"
Planned == intent.planning # NoPlanning
Closed == intent.converted \/ intent.status = "completed"
StepsTo(p, c) == call' = [call EXCEPT ![p] = c] /\ UNCHANGED <<intent, plans>>

\* store.update of a task that is gone is a no-op.
Update(written) == intent' = IF Here THEN written ELSE intent

(* task_convert_intent looks at converted only: not at a plan under way.   *)
taskConvertIntent(p, s) ==
  /\ call[p] = NoCall /\ Here /\ ~intent.converted
  /\ \E list \in Accepted[s] : StepsTo(p, [NoCall EXCEPT !.op = "convert", !.shape = s, !.todo = list])

\* Mutant: the tasks are created first and the intent is marked last.
ConvertMarksLast(p) ==
  /\ call[p].op = "convert" /\ Len(plans) < MaxPlans
  /\ plans' = Append(plans, [phase |-> Head(call[p].todo), by |-> p])
  /\ IF Len(call[p].todo) = 1
     THEN /\ Update([intent EXCEPT !.status = "completed", !.converted = TRUE, !.intent_shape = call[p].shape])
          /\ call' = [call EXCEPT ![p] = NoCall]
     ELSE call' = [call EXCEPT ![p].todo = Tail(@)] /\ UNCHANGED intent

(* ... marks the intent ...                                                *)
ConvertMarks(p) ==
  /\ call[p].op = "convert"
  /\ Update([intent EXCEPT !.status = "completed", !.converted = TRUE, !.intent_shape = call[p].shape])
  /\ call' = [call EXCEPT ![p].op = "create"]
  /\ UNCHANGED plans

(* ... and creates the plan tasks one by one.                              *)
ConvertCreates(p) ==
  /\ call[p].op = "create" /\ Len(plans) < MaxPlans
  /\ plans' = Append(plans, [phase |-> Head(call[p].todo), by |-> p])
  /\ call' = [call EXCEPT ![p] = IF Len(call[p].todo) = 1 THEN NoCall ELSE [call[p] EXCEPT !.todo = Tail(@)]]
  /\ UNCHANGED intent

(* task_plan_intent looks at planning only: not whether it was converted.  *)
taskPlanIntent(p, s) ==
  /\ call[p] = NoCall /\ Here /\ ~Planned
  /\ StepsTo(p, [NoCall EXCEPT !.op = "plan", !.planning = [NoPlanning EXCEPT !.shape = s]])

(* task_add_phase: the phases as they will be are checked.                 *)
taskAddPhase(p, phase) ==
  LET next == Append(intent.planning.phases, phase) IN
  /\ call[p] = NoCall /\ Here /\ Planned /\ ~Closed /\ Len(next) <= MaxPhases
  /\ validateCumulativePhases(intent.planning.shape, next)
  /\ StepsTo(p, [NoCall EXCEPT !.op = "add", !.planning = [intent.planning EXCEPT !.phases = next]])

AddCreates(p) ==
  LET phases == call[p].planning.phases IN
  /\ call[p].op = "add" /\ Len(plans) < MaxPlans
  /\ plans' = Append(plans, [phase |-> phases[Len(phases)], by |-> "add"])
  /\ call' = [call EXCEPT ![p].op = "plan", ![p].planning.ids = @ \cup {Len(plans) + 1}]
  /\ UNCHANGED intent

(* metadata.planning is written as it was read, with the new phase.        *)
PlanningWritten(p) ==
  /\ call[p].op = "plan"
  /\ Update([intent EXCEPT !.planning = call[p].planning])
  /\ call' = [call EXCEPT ![p] = NoCall] /\ UNCHANGED plans

taskCloseIntent(p) ==
  /\ call[p] = NoCall /\ Here /\ Planned /\ ~Closed
  /\ validateFinalShape(intent.planning.shape, intent.planning.phases)
  /\ StepsTo(p, [NoCall EXCEPT !.op = "close"])

CloseWritten(p) ==
  /\ call[p].op = "close"
  /\ Update([intent EXCEPT !.status = "completed", !.converted = TRUE])
  /\ call' = [call EXCEPT ![p] = NoCall] /\ UNCHANGED plans

Dies(p) == call[p] # NoCall /\ StepsTo(p, NoCall)

\* The intent is deleted, also while a call that has read it is under way.
IntentDeleted ==
  /\ Here /\ intent' = [intent EXCEPT !.status = "deleted"]
  /\ UNCHANGED <<plans, call>>

IntentsNext ==
  \/ IntentDeleted
  \/ \E p \in Procs :
       \/ \E s \in Asked : taskPlanIntent(p, s) \/ taskConvertIntent(p, s)
       \/ \E phase \in Phases : taskAddPhase(p, phase)
       \/ taskCloseIntent(p) \/ Dies(p)
       \/ ConvertMarks(p) \/ ConvertCreates(p) \/ AddCreates(p) \/ PlanningWritten(p) \/ CloseWritten(p)

IntentsSpec == IntentsInit /\ [][IntentsNext]_intentvars

-----------------------------------------------------------------------------
(* Whatever two processes do and wherever one dies, no plan task exists    *)
(* for an intent that is there and neither planned nor converted (a retry  *)
(* would create it again), and the phases on record fit the shape on       *)
(* record, even when the plan of one process was written over another's.   *)
PlanAccounted ==
  LET made == intent.planning IN
  /\ Here => \A k \in DOMAIN plans : IF plans[k].by = "add" THEN Planned ELSE intent.converted
  /\ made.phases # <<>> =>
       /\ FirstOK(made.shape, made.phases)
       /\ Len(made.phases) <= EXPECTED_PHASE_COUNT[made.shape].max /\ CountOf(made.phases, "review") <= 1

(* An intent is converted once: no second call creates its plan again.     *)
(* Not kept: two processes read it before either marks it.                 *)
ConvertedOnce ==
  \A j, k \in DOMAIN plans : {plans[j].by, plans[k].by} \subseteq Procs => plans[j].by = plans[k].by

(* An intent keeps the shape it was planned with.  Not kept:               *)
(* task_convert_intent does not look for planning under way.               *)
ShapeKept == Planned /\ intent.intent_shape # "none" => intent.intent_shape = intent.planning.shape
=============================================================================
