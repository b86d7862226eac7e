----------------------------- MODULE TaskBoard ------------------------------
(***************************************************************************)
(* Tasks executed by subagents: the pi-tasks extension (src/pi-tasks/src/  *)
(* index.ts) between its task lists, one per session, and the agents of    *)
(* pi-subagents it spawns and hears of over the event bus.                 *)
(*                                                                         *)
(* A handler runs to its await without interruption.  What TaskExecute and *)
(* the cascade of a completion await is the reply to a spawn request, so a *)
(* handler in flight is the request it waits for, the task it is for, and  *)
(* the tasks still to come.  pi-subagents answers a request it hears in    *)
(* the microtasks that follow, before any agent, timer or user gets a      *)
(* turn; only the tools of the same model turn, which run in parallel, can *)
(* come between.  A request nobody hears (pi-subagents has shut down) ends *)
(* with the timer of rpcCall, and until then everything else goes on.      *)
(*                                                                         *)
(* Every task has an agentType, autoCascade is on, and session_start is    *)
(* the one of a resumed session, which keeps its tasks.  The handlers also *)
(* move the countdowns of auto-clear, which are not kept here: a turn may  *)
(* clear the completed tasks whenever there are any.                       *)
(***************************************************************************)
EXTENDS Naturals, FiniteSetsExt

CONSTANTS
    Sessions,        \* the sessions the user switches between
    MaxTasks,        \* tasks of a session's list
    Deps,            \* blockedBy of each of them, in each session
    MaxAgents,       \* bound: spawn requests
    MaxRequests,     \* bound: TaskExecute, TaskUpdate, clears and session switches
    Batches,         \* the task_ids TaskExecute is called with
    None

Tasks == 1..MaxTasks
Agents == 1..MaxAgents

ASSUME TaskBoardAssumption ==
    /\ MaxTasks \in Nat /\ MaxAgents \in Nat /\ MaxRequests \in Nat
    /\ Deps \in [Sessions -> [Tasks -> SUBSET Tasks]]
    /\ Batches \subseteq SUBSET Tasks
    /\ None \notin Nat \cup Sessions

VARIABLES
    current,       \* the session the store points at
    tasks,         \* every session's list
    agentTaskMap,  \* the task each agent reports for
    agents,        \* the agents of pi-subagents, by spawn request
    waiting,       \* the handler that awaits the reply to each request
    cascading,     \* cascadeConfig is set
    requests,      \* how many of the bounded requests were made
    touched,       \* history: the tasks TaskUpdate has changed
    finished,      \* history: the tasks an agent's report completed
    crossed,       \* history: a session was switched while a handler waited
    mixed          \* history: tasks asked for together with others they do not block

excuses == <<crossed, mixed>>
boardVars ==
    <<current, tasks, agentTaskMap, agents, waiting, cascading, requests, touched, finished, excuses>>

Statuses == {"none", "pending", "in_progress", "completed"}

\* "asked": a reply is on its way; "unheard": none will come; "ended": the run is
\* over and its event is due; "missed": it reported while another session was
\* current; "dropped": it was stopped in the queue, which no event tells of;
\* "failed": it was never spawned.
Phases == {"none", "asked", "unheard", "queued", "running", "ended", "reported", "missed", "dropped", "failed"}
Live == {"queued", "running", "ended"}
Outcomes == {"none", "completed", "error", "stopped"}

\* A task a handler is to start: the session the handler's copy of it comes from,
\* and the metadata.agentId of that copy.
Items == [task : Tasks, from : Sessions, was : Agents \cup {None}]

\* A handler that awaits a reply: which loop it is in, what it asked for, what is
\* still to come.
Handlers == [by : {"execute", "cascade"}, item : Items, rest : SUBSET Items]

ASSUME NoneIsNoHandler == None \notin Handlers

BoardInit ==
    /\ current \in Sessions
    /\ tasks = [s \in Sessions |-> [t \in Tasks |-> [status |-> "pending", agentId |-> None]]]
    /\ agentTaskMap = [a \in Agents |-> None]
    /\ agents = [a \in Agents |-> [phase |-> "none", outcome |-> "none", session |-> None, task |-> None]]
    /\ waiting = [a \in Agents |-> None]
    /\ cascading = FALSE
    /\ requests = 0
    /\ touched = {}
    /\ finished = [s \in Sessions |-> {}]
    /\ crossed = FALSE
    /\ mixed = {}

Here == tasks[current]

\* store.update of a status: a task that is not in the list is left alone.
WithStatus(list, t, status) ==
    IF list[t].status = "none" THEN list ELSE [list EXCEPT ![t].status = status]

Done(list, t) == list[t].status = "completed"
Unblocked(list, t) == \A b \in Deps[current][t] : list[b].status = "none" \/ Done(list, b)

-----------------------------------------------------------------------------
\* The item a handler makes of a task: the cascade goes by the copies it took when
\* it listed the tasks, TaskExecute reads each task when its turn comes.
Item(list, t) == [task |-> t, from |-> current, was |-> list[t].agentId]
Renewed(by, list, item) == IF by = "cascade" THEN item ELSE Item(list, item.task)

\* The items of a handler that it starts when their turn comes: TaskExecute looks
\* at the task again, the cascade does not.
Startable(by, list, todo) ==
    {i \in todo : by = "cascade" \/ (list[i.task].status = "pending" /\ Unblocked(list, i.task))}

\* The cascade goes through its tasks in the order of the list; the order of
\* TaskExecute's ids is the caller's.
First(by, list, todo) ==
    {i \in Startable(by, list, todo) : by = "cascade" => \A j \in todo : i.task <= j.task}

\* Tasks that came before the one to start were skipped, the others remain.
Remaining(by, list, todo, i) ==
    {R \in SUBSET (todo \ {i}) : Startable(by, list, todo) \ {i} \subseteq R}

\* A handler goes on with the items of `todo', on the list and the waiting
\* handlers it finds: the next task is marked and an agent asked for it, or it is
\* through with them (TaskExecute then sets cascadeConfig).
Continue(by, list, todo, ags, waits) ==
    IF Startable(by, list, todo) = {}
    THEN /\ tasks' = [tasks EXCEPT ![current] = list]
         /\ agents' = ags /\ waiting' = waits
         /\ cascading' = (cascading \/ by = "execute")
    ELSE \E i \in First(by, list, todo), a \in Agents, phase \in {"asked", "unheard"} :
         \E rest \in Remaining(by, list, todo, i) :
         LET item == Renewed(by, list, i)
         IN /\ ags[a].phase = "none" /\ \A b \in 1..(a - 1) : ags[b].phase # "none"
            /\ tasks' = [tasks EXCEPT ![current] = WithStatus(list, i.task, "in_progress")]
            /\ agents' = [ags EXCEPT ![a] = [phase |-> phase, outcome |-> "none",
                                             session |-> item.from, task |-> item.task]]
            /\ waiting' = [waits EXCEPT ![a] = [by |-> by, item |-> item, rest |-> rest]]
            /\ UNCHANGED cascading

\* No microtask is due: agents, timers and the user get their turn.
Quiet == \A a \in Agents : agents[a].phase # "asked"

Requested == requests < MaxRequests /\ requests' = requests + 1

\* What the history variable mixed remembers of a call: the tasks that some task
\* waits for, but not all others of the call do.
Mixed(B) ==
    {t \in B : (\E u \in Tasks : t \in Deps[current][u]) /\ \E u \in B \ {t} : t \notin Deps[current][u]}

TaskExecute(B) ==
    /\ Requested
    /\ Continue("execute", Here, {Item(Here, t) : t \in B}, agents, waiting)
    /\ mixed' = mixed \cup {<<current, t>> : t \in Mixed(B)}
    /\ UNCHANGED <<current, agentTaskMap, touched, finished, crossed>>

Answered(a) == [waiting EXCEPT ![a] = None]
Phase(a, phase) == [agents EXCEPT ![a].phase = phase]

\* store.update of metadata.agentId.
Linked(list, t, a) == IF list[t].status = "none" THEN list ELSE [list EXCEPT ![t].agentId = a]

\* The agent's id arrives: it is recorded in the map and in the task, and the
\* handler goes on.  The agent runs, or waits for a slot.
SpawnReply(a, phase) ==
    LET w == waiting[a]
    IN /\ agents[a].phase = "asked"
       /\ agentTaskMap' = [agentTaskMap EXCEPT ![a] = w.item.task]
       /\ Continue(w.by, Linked(Here, w.item.task, a), w.rest, Phase(a, phase), Answered(a))
       /\ UNCHANGED <<current, requests, touched, finished, excuses>>

\* What the handler does when the spawn fails: the task is pending again, with
\* the metadata of the copy written over its own.
Reverted(w) ==
    LET list == WithStatus(Here, w.item.task, "pending")
    IN IF w.item.was = None THEN list ELSE Linked(list, w.item.task, w.item.was)

\* The reply is an error, or the 30 seconds of an unheard request are over.
Fails(a) == agents[a].phase = "asked" \/ (agents[a].phase = "unheard" /\ Quiet)

\* Mutant: the handler gives up on the tasks still to come.
SpawnFailsGivingUp(a) ==
    LET w == waiting[a]
    IN /\ Fails(a)
       /\ Continue(w.by, Reverted(w), {}, Phase(a, "failed"), Answered(a))
       /\ UNCHANGED <<current, agentTaskMap, requests, touched, finished, excuses>>

SpawnFails(a) ==
    LET w == waiting[a]
    IN /\ Fails(a)
       /\ Continue(w.by, Reverted(w), w.rest, Phase(a, "failed"), Answered(a))
       /\ UNCHANGED <<current, agentTaskMap, requests, touched, finished, excuses>>

-----------------------------------------------------------------------------
(* pi-subagents: what the agents do.                                       *)

AgentStarts(a) ==
    /\ Quiet /\ agents[a].phase = "queued"
    /\ agents' = [agents EXCEPT ![a].phase = "running"]
    /\ UNCHANGED <<current, tasks, agentTaskMap, waiting, cascading, requests, touched, finished, excuses>>

AgentEnds(a, outcome) ==
    /\ Quiet /\ agents[a].phase = "running"
    /\ agents' = [agents EXCEPT ![a].phase = "ended", ![a].outcome = outcome]
    /\ UNCHANGED <<current, tasks, agentTaskMap, waiting, cascading, requests, touched, finished, excuses>>

\* abort: a running agent ends as stopped; one that is queued is dropped.
Stopped(a) ==
    CASE agents[a].phase = "running" -> [agents EXCEPT ![a].phase = "ended", ![a].outcome = "stopped"]
      [] agents[a].phase = "queued" -> Phase(a, "dropped")
      [] OTHER -> agents

\* The user stops an agent in the interface of pi-subagents.
AgentStopped(a) ==
    /\ Quiet /\ agents[a].phase \in {"queued", "running"}
    /\ agents' = Stopped(a)
    /\ UNCHANGED <<current, tasks, agentTaskMap, waiting, cascading, requests, touched, finished, excuses>>

-----------------------------------------------------------------------------
(* The listeners: the task the map has for the agent, if it is in the      *)
(* list, is updated, and the map's entry goes.                             *)

Known(a) == agentTaskMap[a] # None /\ Here[agentTaskMap[a]].status # "none"
Unmapped(a) == agentTaskMap' = [agentTaskMap EXCEPT ![a] = None]
Reported(a) == Phase(a, IF agents[a].session = current THEN "reported" ELSE "missed")

\* The tasks a completed task sets free.
Freed(list, t) ==
    {u \in Tasks : list[u].status = "pending" /\ t \in Deps[current][u] /\ Unblocked(list, u)}

\* subagents:completed.
Completed(a) ==
    LET t == agentTaskMap[a]
        list == WithStatus(Here, t, "completed")
        next == IF cascading THEN {Item(list, u) : u \in Freed(list, t)} ELSE {}
    IN /\ Quiet /\ agents[a].phase = "ended" /\ agents[a].outcome = "completed"
       /\ Unmapped(a)
       /\ IF Known(a)
          THEN /\ Continue("cascade", list, next, Reported(a), waiting)
               /\ finished' = [finished EXCEPT ![current] = @ \cup {t}]
          ELSE agents' = Reported(a) /\ UNCHANGED <<tasks, waiting, cascading, finished>>
       /\ UNCHANGED <<current, requests, touched, excuses>>

\* subagents:failed: a stopped agent's task counts as completed, any other
\* failure makes it pending; nothing cascades.
Failed(a) ==
    LET status == IF agents[a].outcome = "stopped" THEN "completed" ELSE "pending"
    IN /\ Quiet /\ agents[a].phase = "ended" /\ agents[a].outcome \in {"error", "stopped"}
       /\ Unmapped(a)
       /\ agents' = Reported(a)
       /\ IF Known(a)
          THEN /\ tasks' = [tasks EXCEPT ![current] = WithStatus(@, agentTaskMap[a], status)]
               /\ finished' = [finished EXCEPT ![current] = @ \ {agentTaskMap[a]}]
          ELSE UNCHANGED <<tasks, finished>>
       /\ UNCHANGED <<current, waiting, cascading, requests, touched, excuses>>

-----------------------------------------------------------------------------
(* The other tools and events.                                             *)

\* TaskStop: the task is completed first, then the agent is stopped, if the
\* request is heard.
TaskStop(t) ==
    /\ Here[t].status = "in_progress" /\ Here[t].agentId # None
    /\ tasks' = [tasks EXCEPT ![current] = WithStatus(@, t, "completed")]
    /\ agents' \in {Stopped(Here[t].agentId), agents}
    /\ finished' = [finished EXCEPT ![current] = @ \ {t}]
    /\ UNCHANGED <<current, agentTaskMap, waiting, cascading, requests, touched, excuses>>

\* TaskUpdate with a status.
TaskUpdate(t, status) ==
    /\ Here[t].status \notin {"none", status}
    /\ Requested
    /\ touched' = touched \cup {<<current, t>>}
    /\ tasks' = [tasks EXCEPT ![current][t] =
                    IF status = "deleted" THEN [status |-> "none", agentId |-> None]
                    ELSE [@ EXCEPT !.status = status]]
    /\ UNCHANGED <<current, agentTaskMap, agents, waiting, cascading, finished, excuses>>

\* A turn starts and auto-clear, or the user in /tasks, clears the completed tasks.
ClearCompleted ==
    /\ Quiet /\ \E t \in Tasks : Done(Here, t)
    /\ Requested
    /\ tasks' = [tasks EXCEPT ![current] =
                    [t \in Tasks |-> IF Done(Here, t) THEN [status |-> "none", agentId |-> None] ELSE @[t]]]
    /\ UNCHANGED <<current, agentTaskMap, agents, waiting, cascading, touched, finished, excuses>>

Tagged(s, a) == {t \in Tasks : tasks[s][t].status = "in_progress" /\ tasks[s][t].agentId = a}

\* Mutant: the agents are not reattached.
ReattachedNothing(s) == [a \in Agents |-> None]

\* Mutant: the map of the other session is not cleared.
ReattachedOver(s) == [a \in Agents |-> IF Tagged(s, a) = {} THEN agentTaskMap[a] ELSE Max(Tagged(s, a))]

\* session_start after a switch: the map is cleared and rebuilt from the new
\* session's in_progress tasks (reattachAgents).
Reattached(s) == [a \in Agents |-> IF Tagged(s, a) = {} THEN None ELSE Max(Tagged(s, a))]

\* The user may switch while a handler waits for a reply that will not come.
SwitchSession(s) ==
    /\ Quiet /\ s # current
    /\ Requested
    /\ current' = s
    /\ agentTaskMap' = Reattached(s)
    /\ crossed' = (crossed \/ \E a \in Agents : waiting[a] # None)
    /\ UNCHANGED <<tasks, agents, waiting, cascading, touched, finished, mixed>>

Agent(a) ==
    \/ AgentStarts(a)
    \/ \E outcome \in {"completed", "error"} : AgentEnds(a, outcome)
    \/ Completed(a)
    \/ Failed(a)

Reply(a) ==
    \/ \E phase \in {"queued", "running"} : SpawnReply(a, phase)
    \/ SpawnFails(a)

BoardNext ==
    \/ \E B \in Batches : TaskExecute(B)
    \/ \E a \in Agents : Reply(a) \/ Agent(a) \/ AgentStopped(a)
    \/ \E t \in Tasks : TaskStop(t)
    \/ \E t \in Tasks, status \in {"pending", "in_progress", "completed", "deleted"} : TaskUpdate(t, status)
    \/ ClearCompleted
    \/ \E s \in Sessions : SwitchSession(s)

BoardSpec == BoardInit /\ [][BoardNext]_boardVars

-----------------------------------------------------------------------------
(***************************************************************************)
(* Properties.                                                             *)
(***************************************************************************)
\* The end of agent a completes or resets no task but the one it was spawned for.
ReportsOwn(a) ==
    agents[a].phase = "ended" /\ agents'[a].phase \in {"reported", "missed"} =>
        \A s \in Sessions, t \in Tasks :
            tasks'[s][t].status \in {"completed", "pending"} /\ tasks'[s][t].status # tasks[s][t].status
            => s = agents[a].session /\ t = agents[a].task

\* The end of an agent changes its own task only (the comment in session_start; the
\* listeners), until a session is switched while a handler waits for a reply.
OnlyOwnTask == [][\A a \in Agents : ~crossed => ReportsOwn(a)]_boardVars

\* The comment in session_start: after a switch an agent's completion does not
\* "close a task it never ran".
SwitchKeepsOwners == [][\A a \in Agents : ReportsOwn(a)]_boardVars

\* A task that is in_progress, and that nobody has set by hand, is being asked for
\* or is one whose agent will report to it, unless the agent reported while another
\* session was current or was stopped in the queue, or a session was switched while
\* a handler waited.
InProgressAccounted ==
    ~crossed =>
    \A t \in Tasks : Here[t].status = "in_progress" /\ <<current, t>> \notin touched =>
        \E a \in Agents :
            \/ waiting[a] # None /\ agents[a].session = current /\ agents[a].task = t
            \/ agents[a].phase \in Live /\ agentTaskMap[a] = t
            \/ agents[a].phase \in {"missed", "dropped"} /\ agents[a].session = current /\ agents[a].task = t

\* A task all of whose blockers were completed by their agents, and which has not
\* been tried yet.
Ready(s, t) ==
    /\ tasks[s][t].status = "pending"
    /\ Deps[s][t] # {} /\ Deps[s][t] \subseteq finished[s]
    /\ \A u \in Deps[s][t] : Done(tasks[s], u)
    /\ \A a \in Agents : <<agents[a].session, agents[a].task>> # <<s, t>>

\* A task that agents' completions have set free is never forgotten: a cascade in
\* flight still has it on its list (rpcCall ends within 30 seconds, so it gets
\* there), unless a task of the session was set by hand or asked for together with
\* others that do not wait for it, or a session was switched while a handler waited.
CascadeOwed ==
    ~crossed =>
    \A s \in Sessions, t \in Tasks :
        Ready(s, t) /\ (\A u \in Tasks : <<s, u>> \notin touched \cup mixed) =>
            \E a \in Agents : /\ waiting[a] # None /\ agents[a].session = s
                              /\ \E i \in waiting[a].rest : i.task = t
=============================================================================
