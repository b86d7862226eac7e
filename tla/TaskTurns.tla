------------------------------ MODULE TaskTurns -----------------------------
(***************************************************************************)
(* What the turns of the conversation do to pi-tasks' list: completed      *)
(* tasks linger and are cleared (AutoClearManager), the model is reminded  *)
(* of tasks it forgets (reminder-cadence), and a model that went idle      *)
(* while work is left is woken up by a timer.  All three count turns, and  *)
(* all three share the list with the tools, the /tasks menu, the agents    *)
(* that run tasks and the session switch.                                  *)
(*                                                                         *)
(* The tasks here have no blockers, and the auto-clear mode is chosen once:*)
(* the setting is not changed while tasks linger.                          *)
(***************************************************************************)
EXTENDS Integers, FiniteSets

CONSTANTS
    TurnTaskIds,    \* ids 1..n, handed out in order within a session
    ClearDelay,     \* AUTO_CLEAR_DELAY
    LongInterval,   \* REMINDER_INTERVAL
    ShortInterval,  \* ACTIVE_REMINDER_INTERVAL
    WakeGap,        \* IDLE_WAKE_UP_DEBOUNCE_TURNS
    MaxTurn,        \* bound on the turns of a session
    MaxSession      \* bound on the sessions of the extension instance

ASSUME TurnsAssumption ==
    TurnTaskIds \cup {ClearDelay, LongInterval, ShortInterval, WakeGap, MaxTurn, MaxSession} \subseteq Nat

VARIABLES
    tasklist,   \* id -> [st, typed, agent]
    lastId,     \* the highest id handed out
    clearing,   \* AutoClearManager: mode, completedAtTurn, allCompletedAtTurn, runEnded
    cadence,    \* CadenceState
    wakeUp,     \* the session wakeUpTimer was set in, 0 for none
    talk,       \* what the host does: session number, in a turn or not
    truth       \* history: when tasks were really completed and what was sent or lost

turnvars == <<tasklist, lastId, clearing, cadence, wakeUp, talk, truth>>

NoTurn == -1
NoTurnTask == [st |-> "none", typed |-> FALSE, agent |-> "none"]

Listed == {i \in TurnTaskIds : tasklist[i].st # "none"}
In(st) == {i \in TurnTaskIds : tasklist[i].st = st}
AllCompleted == Listed # {} /\ Listed = In("completed")

createCadenceState ==
    [turn |-> 0, toolTurn |-> 0, injected |-> FALSE, due |-> FALSE, wakeTurn |-> NoTurn]

FreshClearing(mode) ==
    [mode |-> mode, at |-> [i \in TurnTaskIds |-> NoTurn], all |-> NoTurn, runEnded |-> FALSE]

FreshTruth ==
    [doneAt |-> [i \in TurnTaskIds |-> NoTurn], thisRun |-> {}, early |-> FALSE,
     lost |-> FALSE, stray |-> FALSE, reminded |-> 0]

TurnsInit ==
    /\ tasklist = [i \in TurnTaskIds |-> NoTurnTask] /\ lastId = 0
    /\ \E mode \in {"never", "on_list_complete", "on_task_complete"} :
          clearing = FreshClearing(mode)
    /\ cadence = createCadenceState /\ wakeUp = 0
    /\ talk = [session |-> 1, inTurn |-> FALSE]
    /\ truth = FreshTruth

-----------------------------------------------------------------------------
(* AutoClearManager *)

\* Mutant: the completion of a task keeps a countdown that is already there.
trackCompletionOnce(i, l) ==
    IF clearing.mode = "on_task_complete"
    THEN IF clearing.at[i] = NoTurn THEN [clearing EXCEPT !.at[i] = cadence.turn] ELSE clearing
    ELSE IF clearing.mode = "on_list_complete"
         THEN IF \A j \in TurnTaskIds : l[j].st \in {"none", "completed"}
              THEN IF clearing.all = NoTurn
                   THEN [clearing EXCEPT !.all = cadence.turn] ELSE clearing
              ELSE [clearing EXCEPT !.all = NoTurn]
         ELSE clearing

\* The countdown the completion of a task leaves: its own in one mode, the
\* list's in the other, where an earlier countdown stays.
trackCompletion(i, l) ==
    CASE clearing.mode = "on_task_complete" -> [clearing EXCEPT !.at[i] = cadence.turn]
      [] clearing.mode = "on_list_complete" ->
           IF \A j \in TurnTaskIds : l[j].st \in {"none", "completed"}
           THEN IF clearing.all = NoTurn
                THEN [clearing EXCEPT !.all = cadence.turn] ELSE clearing
           ELSE [clearing EXCEPT !.all = NoTurn]
      [] OTHER -> clearing

\* The tasks onTurnStart clears at turn t, and what it keeps of the countdowns.
Expired(t) ==
    CASE clearing.mode = "on_task_complete" ->
           {i \in In("completed") : clearing.at[i] # NoTurn /\ t - clearing.at[i] >= ClearDelay}
      [] clearing.mode = "on_list_complete" ->
           IF clearing.all # NoTurn /\ t - clearing.all >= ClearDelay THEN In("completed") ELSE {}
      [] OTHER -> {}

Kept(t) ==
    [clearing EXCEPT
        !.at = [i \in TurnTaskIds |->
                  IF /\ clearing.mode = "on_task_complete"
                     /\ (i \notin In("completed") \/ i \in Expired(t))
                  THEN NoTurn ELSE @[i]],
        !.all = IF clearing.mode = "on_list_complete" /\ @ # NoTurn /\ t - @ >= ClearDelay
                THEN NoTurn ELSE @]

Cleared(l, gone) == [i \in TurnTaskIds |-> IF i \in gone THEN NoTurnTask ELSE l[i]]

-----------------------------------------------------------------------------
(* reminder-cadence *)

intervalFor == IF In("in_progress") # {} THEN ShortInterval ELSE LongInterval

toolResultCadence(taskTool) ==
    IF taskTool
    THEN [cadence EXCEPT !.toolTurn = cadence.turn, !.injected = FALSE, !.due = FALSE]
    ELSE IF /\ ~cadence.injected
            /\ cadence.turn - cadence.toolTurn >= intervalFor
            /\ Listed # {}
         THEN [cadence EXCEPT !.due = TRUE]
         ELSE cadence

drainReminderForContext ==
    [cadence EXCEPT !.due = FALSE, !.injected = TRUE, !.toolTurn = cadence.turn]

hasUnfinishedWork ==
    \/ \E i \in In("in_progress") : tasklist[i].agent # "live"
    \/ \E i \in In("pending") : tasklist[i].typed

shouldFireIdleWakeUp ==
    cadence.wakeTurn = NoTurn \/ cadence.turn - cadence.wakeTurn >= WakeGap

-----------------------------------------------------------------------------
(* The host's events *)

TurnStarts ==
    LET t == cadence.turn + 1
    IN /\ ~talk.inTurn /\ cadence.turn < MaxTurn
       /\ talk' = [talk EXCEPT !.inTurn = TRUE]
       /\ cadence' = [cadence EXCEPT !.turn = t]
       /\ tasklist' = Cleared(tasklist, Expired(t))
       /\ clearing' = Kept(t)
       /\ truth' = [truth EXCEPT !.early = @ \/ \E i \in Expired(t) :
                                                 t - truth.doneAt[i] < ClearDelay]
       /\ UNCHANGED <<lastId, wakeUp>>

\* A forgotten task makes a reminder due; a turn without tool calls is idle, and
\* the wake-up is noted before the look at the timer that may still be set.
TurnEnds(hadToolCalls) ==
    LET due  == \/ cadence.due
                \/ /\ ~cadence.injected
                   /\ cadence.turn - cadence.toolTurn >= ShortInterval
                   /\ In("in_progress") # {}
        wake == ~hadToolCalls /\ hasUnfinishedWork /\ shouldFireIdleWakeUp
    IN /\ talk.inTurn
       /\ talk' = [talk EXCEPT !.inTurn = FALSE]
       /\ cadence' = [cadence EXCEPT !.due = due, !.wakeTurn = IF wake THEN cadence.turn ELSE @]
       /\ wakeUp' = IF wake /\ wakeUp = 0 THEN talk.session ELSE wakeUp
       /\ UNCHANGED <<tasklist, lastId, clearing, truth>>

wakeUpTimer ==
    /\ wakeUp # 0
    /\ wakeUp' = 0
    /\ truth' = [truth EXCEPT !.stray = @ \/ (hasUnfinishedWork /\ wakeUp # talk.session)]
    /\ UNCHANGED <<tasklist, lastId, clearing, cadence, talk>>

ToolResult(taskTool) ==
    /\ talk.inTurn
    /\ cadence' = toolResultCadence(taskTool)
    /\ truth' = IF taskTool THEN [truth EXCEPT !.reminded = 0] ELSE truth
    /\ UNCHANGED <<tasklist, lastId, clearing, wakeUp, talk>>

Context ==
    /\ talk.inTurn /\ cadence.due
    /\ cadence' = drainReminderForContext
    /\ truth' = [truth EXCEPT !.reminded = @ + 1]
    /\ UNCHANGED <<tasklist, lastId, clearing, wakeUp, talk>>

AgentSettled ==
    /\ ~talk.inTurn
    /\ clearing' = [clearing EXCEPT !.runEnded = TRUE]
    /\ truth' = [truth EXCEPT !.thisRun = {}]
    /\ UNCHANGED <<tasklist, lastId, cadence, wakeUp, talk>>

\* The list a resumed session finds on disk: one task, in any state.
OldLists ==
    {[i \in TurnTaskIds |-> IF i = 1 THEN [st |-> s, typed |-> TRUE, agent |-> a] ELSE NoTurnTask] :
        s \in {"pending", "in_progress", "completed"}, a \in {"none", "live"}}

\* Mutant: the timer of the session before stays set.
SessionSwitchTimerKept(reason) ==
    \E l \in CASE reason = "new" -> {[i \in TurnTaskIds |-> NoTurnTask]}
               [] reason = "resume" -> OldLists
               [] reason = "fork" -> {tasklist} :
        /\ talk.session < MaxSession
        /\ talk' = [session |-> talk.session + 1, inTurn |-> FALSE]
        /\ tasklist' = [i \in TurnTaskIds |->
                          IF l[i].agent = "none" THEN l[i]
                          ELSE [l[i] EXCEPT !.agent = IF l[i].st = "in_progress"
                                                      THEN "live" ELSE "lost"]]
        /\ lastId' = CASE reason = "new" -> 0 [] reason = "resume" -> 1 [] OTHER -> lastId
        /\ cadence' = createCadenceState
        /\ clearing' = [FreshClearing(clearing.mode) EXCEPT !.runEnded = reason # "new"]
        /\ wakeUp' = wakeUp
        /\ truth' = [FreshTruth EXCEPT !.early = truth.early, !.lost = truth.lost,
                                       !.stray = truth.stray]

\* new, resume and fork in the running instance.  The agents of tasks in progress
\* are linked again; a new session starts with an empty list.
SessionSwitch(reason) ==
    \E l \in CASE reason = "new" -> {[i \in TurnTaskIds |-> NoTurnTask]}
               [] reason = "resume" -> OldLists
               [] reason = "fork" -> {tasklist} :
        /\ talk.session < MaxSession
        /\ talk' = [session |-> talk.session + 1, inTurn |-> FALSE]
        /\ tasklist' = [i \in TurnTaskIds |->
                          IF l[i].agent = "none" THEN l[i]
                          ELSE [l[i] EXCEPT !.agent = IF l[i].st = "in_progress"
                                                      THEN "live" ELSE "lost"]]
        /\ lastId' = CASE reason = "new" -> 0 [] reason = "resume" -> 1 [] OTHER -> lastId
        /\ cadence' = createCadenceState
        /\ clearing' = [FreshClearing(clearing.mode) EXCEPT !.runEnded = reason # "new"]
        /\ wakeUp' = 0
        /\ truth' = [FreshTruth EXCEPT !.early = truth.early, !.lost = truth.lost,
                                       !.stray = truth.stray]

-----------------------------------------------------------------------------
(* The tools, the menu and the agents change the list *)

NewTask(typed) == [st |-> "pending", typed |-> typed, agent |-> "none"]

\* TaskCreate: startNewBatch retires a finished list of an ended run first.
TaskCreate(typed) ==
    LET sweep == clearing.runEnded /\ clearing.mode # "never" /\ AllCompleted
        gone  == IF sweep THEN Listed ELSE {}
        id    == lastId + 1
    IN /\ talk.inTurn /\ id \in TurnTaskIds
       /\ tasklist' = [Cleared(tasklist, gone) EXCEPT ![id] = NewTask(typed)]
       /\ lastId' = id
       /\ clearing' = [clearing EXCEPT !.all = NoTurn, !.runEnded = FALSE,
                                       !.at = IF sweep THEN [i \in TurnTaskIds |-> NoTurn] ELSE @]
       /\ truth' = [truth EXCEPT !.lost = @ \/ gone \cap truth.thisRun # {}]
       /\ UNCHANGED <<cadence, wakeUp, talk>>

\* "Create task" of the /tasks menu: no new batch, no reset of the countdown.
menuCreate ==
    /\ lastId + 1 \in TurnTaskIds
    /\ tasklist' = [tasklist EXCEPT ![lastId + 1] = NewTask(FALSE)]
    /\ lastId' = lastId + 1
    /\ UNCHANGED <<clearing, cadence, wakeUp, talk, truth>>

\* A task is completed by TaskUpdate, the menu, TaskStop or its agent.
Completes(i, agent) ==
    LET l == [tasklist EXCEPT ![i].st = "completed", ![i].agent = agent]
    IN /\ tasklist' = l
       /\ clearing' = trackCompletion(i, l)
       /\ truth' = IF tasklist[i].st = "completed" THEN truth
                   ELSE [truth EXCEPT !.doneAt[i] = cadence.turn, !.thisRun = @ \cup {i}]
       /\ UNCHANGED <<lastId, cadence, wakeUp, talk>>

\* The task is not completed (any more), and the list's countdown is reset or not.
Reopens(i, t, reset) ==
    /\ tasklist' = [tasklist EXCEPT ![i] = t]
    /\ clearing' = IF reset THEN [clearing EXCEPT !.all = NoTurn] ELSE clearing
    /\ truth' = [truth EXCEPT !.thisRun = @ \ {i}, !.doneAt[i] = NoTurn]
    /\ UNCHANGED <<lastId, cadence, wakeUp, talk>>

TaskUpdate(i, st) ==
    /\ talk.inTurn /\ i \in Listed
    /\ CASE st = "completed" -> Completes(i, tasklist[i].agent)
         [] st = "deleted"   -> Reopens(i, NoTurnTask, FALSE)
         [] OTHER            -> Reopens(i, [tasklist[i] EXCEPT !.st = st], TRUE)

TaskExecute(i) ==
    /\ talk.inTurn /\ i \in In("pending") /\ tasklist[i].typed
    /\ Reopens(i, [tasklist[i] EXCEPT !.st = "in_progress", !.agent = "live"], FALSE)

TaskStop(i) ==
    /\ talk.inTurn /\ i \in In("in_progress") /\ tasklist[i].agent # "none"
    /\ Completes(i, tasklist[i].agent)

menuAction(i, action) ==
    \/ action = "start" /\ i \in In("pending")
         /\ Reopens(i, [tasklist[i] EXCEPT !.st = "in_progress"], FALSE)
    \/ action = "complete" /\ i \in In("in_progress") /\ Completes(i, tasklist[i].agent)
    \/ action = "delete" /\ i \in Listed /\ Reopens(i, NoTurnTask, FALSE)

menuClear(all) ==
    /\ IF all THEN Listed # {} ELSE In("completed") # {}
    /\ tasklist' = Cleared(tasklist, IF all THEN Listed ELSE In("completed"))
    /\ UNCHANGED <<lastId, clearing, cadence, wakeUp, talk, truth>>

\* subagents:completed and subagents:failed (stopped or with an error).
agentEvent(i, outcome) ==
    /\ i \in Listed /\ tasklist[i].agent = "live"
    /\ IF outcome = "error"
       THEN Reopens(i, [tasklist[i] EXCEPT !.st = "pending", !.agent = "lost"], TRUE)
       ELSE Completes(i, "lost")

\* The list's life under its tools, the menu and the agents.
ListLife ==
    \/ TurnStarts \/ TurnEnds(TRUE) \/ AgentSettled \/ menuCreate
    \/ \E b \in BOOLEAN : TaskCreate(b) \/ menuClear(b)
    \/ \E i \in TurnTaskIds :
          \/ \E st \in {"pending", "in_progress", "completed", "deleted"} : TaskUpdate(i, st)
          \/ \E action \in {"start", "complete", "delete"} : menuAction(i, action)
          \/ \E outcome \in {"completed", "stopped", "error"} : agentEvent(i, outcome)
          \/ TaskExecute(i) \/ TaskStop(i)

\* Reminders and wake-ups over sessions, with fewer ways to change the list.
Prompting ==
    \/ TurnStarts \/ wakeUpTimer \/ Context
    \/ \E b \in BOOLEAN : TurnEnds(b) \/ ToolResult(b)
    \/ TaskCreate(TRUE)
    \/ \E reason \in {"new", "resume", "fork"} : SessionSwitch(reason)
    \/ \E i \in TurnTaskIds :
          \/ \E st \in {"in_progress", "completed"} : TaskUpdate(i, st)
          \/ \E outcome \in {"completed", "error"} : agentEvent(i, outcome)
          \/ TaskExecute(i)

TurnsNext == ListLife \/ Prompting

TurnsSpec == TurnsInit /\ [][TurnsNext]_turnvars

-----------------------------------------------------------------------------
\* In on_task_complete mode a completed task stays for the user to see: whatever
\* reverts and completions came before, the turn clears it no sooner than
\* ClearDelay turns after it was last completed ("each completed task gets its own
\* REMINDER_INTERVAL countdown").
Lingers == clearing.mode = "on_task_complete" => ~truth.early

\* A wake-up that reaches the model was scheduled in the session that is on: the
\* timer never carries one session's idleness into another session's list.
WakeOwnSession == ~truth.stray

\* Of what happened between two uses of a task tool the model is reminded once.
RemindedOnce == truth.reminded <= 1

\* The model is prompted for the list it is working on, and not over and over
\* (scheduleIdleWakeUpIfApplicable, evaluateToolResult, session_start).
PromptedRight == WakeOwnSession /\ RemindedOnce

\* What the comments of auto-clear.ts say: a task created within the run that
\* completed the list is added to it, the list is not swept.  Violated: the flag
\* is set by any earlier run that ended since the last TaskCreate.
SameRunKept == ~truth.lost

\* The countdown of the list restarts when a task is created.  Violated: the menu
\* creates tasks without resetBatchCountdown.
ListLingers == ~truth.early
=============================================================================
