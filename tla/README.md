# TLA+ models of sages

This directory verifies the parts of [sages](../README.md) in which several
things happen at once: agents that share concurrency pools, sessions that share
a task file or a mailbox, tasks that are executed by agents, workflows that are
paused and replayed, routines that fire across sessions and crashes. The modules
are TLA+; TLC checks them on small instances, TLAPS proves the central invariants
for every value of the constants. `PROJECT.json` lists components, runs, mutants,
the definitions' source lines, findings, hazards and theorems.

Contents: [the system](#the-system) · [the modules](#the-modules) ·
[the runs](#the-runs) · [the proofs](#the-proofs) ·
[what the checks found](#what-the-checks-found) ·
[what is not modelled](#what-is-not-modelled) · [what is left](#what-is-left)

## The system

sages is a set of extensions for the `pi` coding agent. All code of one session
runs in one JavaScript process: a handler runs to its next `await` without
interruption, so the interleavings are those of awaited calls, timers, bus events
and the user. Several sessions are several processes; they meet in files.

| Component | State it keeps | Operations | Talks to | What is hard |
|---|---|---|---|---|
| AgentManager (`pi-subagents/src/agent-manager.ts`) | records, queue, two pool counters and limits, startups, promises | spawn, spawnAndWait, resume, abort, settle, evict, limits, shutdown, waitForAll | agent runner, git worktrees, the Agent tool, schedules, workflows | slots held across awaits, stops in every window, callers blocked on queue entries, parents waiting for children |
| Names (`agent-manager.ts`, `mention.ts`) | handles and aliases of records, tombstones of evicted ones | assign, resolve, reopen | Agent tool, the prompt's mentions | uniqueness over eviction and reopening |
| Completion notices (`pi-subagents/src/index.ts`, `group-join.ts`) | held nudges, the current batch, groups and their timers | onComplete, finalizeBatch, group timeout, get_subagent_result | AgentManager, session | a result read while its notice is held, a group that never fills |
| Agent runner (`agent-runner.ts`, `structured-output.ts`) | the session's tools, turn count, messages | run, resume, steer, abort, tool calls | model session, its extensions | tools registered late, answers of an earlier run |
| Nested agents (`nested-tools.ts`) | parent links, spend of each record | spawn, resume, wait, steer within a branch | AgentManager | usage folded into ancestors that come and go |
| Schedules (`schedule.ts`, `schedule-store.ts`) | jobs, timers, a locked file | add, fire, toggle, remove | AgentManager, sessions | timers and jobs that drift apart |
| Fleet list (`ui/fleet-list.ts`) | selection, overlay, timer | keys, refresh, drawing | AgentManager, workflows | rows that drop out under the selection |
| Workflows (`workflow/*`, `ui/workflow-dialog.ts`) | journal, progress log, semaphore, worker | calls, replay, pause, skip, retry, kill | AgentManager, the dialog | permits and pauses in every order, replay of a journal with gaps |
| TaskStore (`pi-tasks/src/task-store.ts`) | tasks, next id, the task file, the lock file | create, update, delete, clear, load, save, lock | the file system, other sessions | stale locks, torn lock creation, deletion outside the lock |
| Task execution (`pi-tasks/src/index.ts`) | agent-to-task map, cascade configuration, current store | TaskExecute, completion listeners, TaskStop, TaskUpdate, session_start | AgentManager over the event bus | spawn requests nobody answers, sessions switched under a handler, lost reports |
| Auto-clear, reminder cadence, idle wake-up (`auto-clear.ts`, `reminder-cadence.ts`, `index.ts`) | turn counters, a debounced timer | turn_start, turn_end, tool_result, session_start | TaskStore, session events | countdowns that are not reset, timers of another session |
| ProcessTracker (`process-tracker.ts`) | processes, output, waiters | track, wait, stop | child processes | - (nothing calls `track`) |
| Orchestrator (`pi-orchestrator/src`) | plans of intents, brainstorming sessions | convert, plan, add a phase, close | TaskStore, one write per task | two processes, a death between two writes |
| Routines (`pi-routines/src`) | routines, queue and its mirror on disk, timers, guard, hooks, server, tokens | schedule, fire, drain, poll, pause, delete | web hooks, GitHub, the session's lifecycle | missed, doubled and starved fires |
| Sidebar (`pi-sidebar/extensions`) | mailbox file, wake machine, overlay, rows, event log | claim, break down, complete, wake, refresh, toggle | other processes, pi-tasks | forgotten or pressed wake-ups, stale overlays |
| Evaluator (`pi-evaluator/src`) | coefficients, active workflow, cached score | load, score | files of artifacts | scores of what was not observed |
| Codebase memory (`pi-codebase-memory`) | none | bridge to a server | the server | - |

What makes the modelled parts correct:

* **AgentManager**: the counters equal the live runs; no pool is overfilled by a
  start that respects the queue; no slot idles while work of its pool waits; a
  blocked caller is always owed a wake-up, is woken, and gets a finished record; a
  child does not outlive its parent's run; every record comes to rest; waitForAll
  ends and misses no running agent.
* **TaskStore**: a lock is taken from a live session only after a death or with a torn
  lock file, and until then at most one session is inside it; until then the shared
  file goes through the steps of an atomic list, so no mutation is lost; what a dead
  session leaves never locks the others out; the counter passes over every id it gave
  and edges survive exactly as long as both of their tasks.
* **Task execution**: until a session is switched under a waiting handler, an agent's
  end changes only the task it was spawned for; an in_progress task has someone who
  will end it; no task that completions have set free is forgotten by the cascade.
* **Around the manager**: an ended agent is reported or read, never both and never
  neither; the armed timers are those of the enabled jobs of the session in use; no
  agent runs a tool outside its definition, and no answer is that of an earlier run;
  names of different conversations stay apart; spend reaches every ancestor once.
* **Workflows**: a replay is a faithful prefix; a completed run answered all its
  calls; nothing starts during a pause; no permit is lost; every agent is shown once.
* **Routines**: an accepted fire is lost only where the code loses it, opens at most
  one turn, chains into no other and does not starve; a trigger is never without its
  timers and no event it was shown is forgotten; the server in use listens, and
  replaced tokens are refused.
* **Around the tasks**: completed tasks linger, prompts reach the session they are
  about, mail is announced and not pressed, closed intents have no open step, the
  open overlay agrees with the panel's state.
* **Planning and scoring**: no plan task without its intent's record, phases are
  earned in order, a score is a mean of what was observed.

## The modules

```
AgentManager ─┬─ WaitForAll ─┬─ MCWaitForAll       TaskOps ─┬─ TaskList ───────────────┐
              │              └─ AgentManagerProofs          │      └── TaskStoreProofs   │
              └─ MCAgentManager                             ├─ TaskStore ┘             │
TaskBoard ─┬─ TaskBoardProofs                               │  └─ MCTaskStore          │
           └─ MCTaskBoard                                   │                          │
                                                     Intents, Brainstorm, Evaluator ───┴─ MCPlanning

Notices, Schedule, AgentRun,                                TaskTurns, Mailbox, SidebarPanel ── MCDesk
AgentNames, FleetList, NestedAgents ── MCSubagents          WorkflowRun, WorkflowView ── MCWorkflow
RoutineFires, RoutineTimers, RoutineServer ── MCRoutines
```

TaskStore instantiates TaskList. The other modules of proofs:

| Proofs | about |
|---|---|
| FoldLemmas | induction and recursion over numbers, finite sets and sequences, used below |
| SubagentProofs | Notices, Schedule, AgentRun, AgentNames, FleetList, NestedAgents |
| RoutineProofs | RoutineFires, RoutineServer, RoutineTimers |
| DeskProofs | Mailbox, TaskTurns, SidebarPanel, Intents, Brainstorm, Evaluator |
| WorkflowProofs | WorkflowRun, WorkflowView |

MCSubagents, MCRoutines, MCWorkflow, MCDesk and MCPlanning put components side by
side that share no state of their models. The variable `part`, chosen initially,
says which of them a behaviour is about; the others rest. The state space is the sum
of theirs, not the product, and each property quantifies over all of it. In MCRoutines
and MCPlanning the constant `Parts` says which components a run is about; the server is two
parts there, its sockets and, with a single start, its requests and tokens.

### AgentManager

`rec`, `agents`, `runningBackground`, `runningForeground`, `maxConcurrent`,
`maxConcurrentForeground` are the fields of the class. A *run* is one execution of
an agent: `<<a, 0>>` is started by `spawn`, `<<a, k>>` by its k-th resume; its
`phase` says which await it is in (`copying`: `createWorktree`; `running`: the
model; `cleanup`: `cleanupWorktree`; `discarding`: the copy of a stopped agent).
The array `queue` is the set of runs in phase `queued`, its order is each run's
`ahead`. `caller` is the `spawnAndWait` call that awaits an agent.

The manager's methods call one another before the next await. So each is an
operator from a state record to a state record (`Started`, `Aborted`, `Dropped`,
`Drained`, `Settled`, ...), and an action composes them in the order of the code.
`Drained` is a set of states: `drainQueue` is modelled by its result, the entries a
drain can start in queue order and not by its loop.

"aborted" (turn limit) and "steered" are folded into "completed": nothing in the
manager tells them apart. Steering, names, usage and the callbacks' texts are left
out.

### WaitForAll

One `waitForAll` call beside the agents. `pending` are the promises the loop
collected; the continuation of a settled promise is a microtask, so while the
waiter must wake (`MustWake`) nothing else steps. This is how starvation of the
event loop becomes visible.

### TaskOps, TaskList, TaskStore

`TaskOps` has the list's mutations as operators on a board (`nextId` and the tasks
with status, type, `blocks`, `blockedBy`). `TaskList` is the abstract specification:
one mutation per step. `TaskStore` is several processes on one file: every file
system call (create the lock, write the token, poll, unlink, read, save, release,
delete) is a step, and a session can die between two. `ListSpec` is `TaskList`'s
specification under the mapping `board <- the file's content`.

`TornCreate` makes the window between the creation of the lock file and its token
visible; `SessionScope` makes a clear that empties the list delete the file;
`MaxCrashes` bounds the sessions that die. `Wait` assumes that a live session
writes its token in less than the 50 ms of a busy wait. Process ids are not reused.
`robbed` and `deleted` are history: a live session's lock was taken over, the file was
unlinked while it was there. `ExclusionKept` says when the first can happen, and that the
lock excludes until then; `ListWhileKept` is the refinement until either.

### TaskBoard

pi-tasks between its lists, one per session, and the agents it spawns over the bus.
`agents` are spawn requests and what became of them; `waiting` has the handler that
awaits the reply to each: which loop it is in (TaskExecute or a cascade), the task
it asked for, and the items still to come. A cascade's items are copies taken when
the tasks were listed; TaskExecute reads each task when its turn comes. pi-subagents
answers a request it hears within the microtasks that follow (pi-tasks asks for no
worktree, so nothing slow is awaited): while a reply is due only other tool calls of
the same model turn may step (`Quiet`). A request nobody hears, because pi-subagents
has shut down, keeps its handler waiting until the timer of `rpcCall`. The write
of an old copy's metadata over the task (`Reverted`) is part of the model.
Agents are abstracted from AgentManager to queued, running, ended; a queued agent
that is stopped sends no event, as in `abort`.

Every task has an `agentType`, `autoCascade` is on, and a switch is the resumption
of a session, at any time, also while a handler waits. Auto-clear is over-approximated:
the completed tasks may be cleared at any time. Three variables are history and what the
properties except: `touched` (tasks set by hand), `mixed` (tasks asked for in one call
with others that do not wait for them) and `crossed` (a session was switched while a
handler waited). The code does not keep the properties in the last two.

### The parts around the manager

**Notices** follows one run of an agent from its start to the report: the batch of
100 ms, the group with its 30 s timer and stragglers, the notice held for 200 ms,
reads by id and by handle, waits, resumes and mentions in between. `note[a].told`
and `.consumed` are what the main agent got; timers are sets of what may fire.

**Schedule** has one file of jobs per session, the scheduler bound to one session,
an abstract clock, and `armed`, the timers. The lock file is TaskStore's protocol:
a mutation of the file is one step. Cron expressions are abstracted to a next tick;
`TimerLimit` stands for 2^31 - 1 ms, above which Node fires at once.

**AgentRun** is one agent's session: the awaits of `runAgent`, the set of tools in
scope computed from the configuration as in the code (`sessionTools`, `inScope`,
`renarrow`), extensions that register tools at any time, turns and grace turns, the
structured output and its retry, and the messages from which answer and error are
read. The configurations of the run are those where two rules meet.

**AgentNames** has records, tombstones and conversations; names are sequences of
words, so `explore-2` is a word more than `explore`; `since` renews at a resume, like
`startedAt`, by which ambiguous names are answered. **FleetList** recomputes its
rows at every use, as the code does; the selection is an index, and a resume moves its
agent to the end of `launched`, the order of the rows. **NestedAgents** is a
tree of agents; `kspend` is what each really spent, split into the run it was
spawned for and later ones.

### Workflows

**WorkflowRun** models the host as one thread: events run one at a time, promises
they resolve are continued first (`wf.ready`). The script is arbitrary: it calls
agents or workflows at any time, awaits or drops them, ends whenever it likes. The
second run of the instance replays the first one's journal, from which any suffix
or entry may be missing. **WorkflowView** is the append-only progress log, its
collapse into rows, the merge of declared and reported phases, and the dialog's keys
over a tree that changes under it.

### Routines

**RoutineFires** has scheduler, executor, guard, lifecycle hooks and the write chain
of the store in one module, since each reads what the others leave across an await.
`rt` is `RoutineRuntimeState`; a handler is a composition of functions on it up to
the next await. `disk` is the file, `saves` the writes in flight; a crash may come
between any two steps. The collapse window, the day and the gap between sessions are
abstract. `lost` has the fires the code loses, each put there by the step that loses
it: a crash loses the fire in the drain's hand, whose removal is written before its turn
opens, and those not written yet; a shutdown the one in hand; a request that is answered
while the session closes those of the mirror, and its own. **RoutineTimers** is one
routine's trigger: timeouts with the version of the trigger object they hold, polls
with their cursor; an event that is answered during a pause is recorded as skipped
while the cursor moves on (`scheduler.ts:493`). `overlap` marks an update that overtook a
poll in flight, after which the code runs two chains. **RoutineServer** is the server's
start, stop and restart over the awaits of the socket, requests, and the token store
with its cache. A start takes any port; `active` is looked at before its awaits only, so
starts that overlap may bind two sockets, of which one is then unknown (`clashed`).

### Around the tasks

**TaskTurns** counts turns for auto-clear, reminders and the idle wake-up over tools,
menu, agents and session switches; `truth` remembers what really happened (when a task
was completed, which session a timer came from) for the properties. **Mailbox** is the
file that anybody may drop intents into or garble, the tools of two sessions, and the
wake machine of one. A note names every unclaimed intent but is counted for the first
that is owed one, its occasion; `told` counts the occasions, for the properties, and
starts again only with the session and with mail hidden by a garbled file. How often an
intent is named is not counted (see below). **SidebarPanel** is the overlay as the host
has it beside the state it follows from, the rows merged from two files, the selection's
note, badges and log.

### Planning and scoring

**Intents** takes one step per call of the task store, by two processes that may die
in between; the intent may be deleted at any time, and a call that read it before then
updates nothing and still creates its tasks, as the code does; `EXPECTED_*` and the two
validators are the code's tables and rules.
**Brainstorm** is the session's machine with the changes to the context that an
event makes before it is refused. **Evaluator** has the coefficients' files and
checks, the nine metrics over small artifacts, the pass that scores one dimension
after the other while the session goes on, and the cache. Fractions are hundredths, and
NaN, which a budget of zero produces, is a value of its own that the means propagate.

## The runs

Deadlock checking is off where the system may stop (every request is used up or the
user asks for nothing).

| Run | Instance | Shows |
|---|---|---|
| `agents` | 3 agents, symmetric; one of three kinds of sessions at a time (state constraint `OneKind`): worktree copies; limits changed, directories that vanish, aborted signals, bypassing spawns; nesting and workflows | `SlotsAccounted`, `CallerOwedWakeUp`, `CallerReturnsDone`, `ChildNeedsParent`; `PoolsUsed`: no step leaves a slot idle while work of its pool waits, or overfills a pool |
| `resting` | 2 agents, 1 resume each, limits 1, fair | `AllComesToRest`: an active record has a run that will end it, every record comes to rest, every blocked caller returns (liveness) |
| `wait_all` | 2 background agents, limits 1 and 2, fair | `WaitKept`: waitForAll awaits what runs, and ends (liveness) |
| `sessions` | 2 sessions, 3 mutations each, atomic lock creation | refinement of `TaskList` (`ListSpec`) |
| `takeover` | 3 sessions, symmetric, one may die anywhere, torn creation, deleted files | `DeadLockTakenOver`, `ExclusionKept` |
| `board` | 2 sessions with 3 tasks (a join and a fork), 7 spawn requests, 3 requests of the user, switches at any time | `OnlyOwnTask`, `InProgressAccounted`, `CascadeOwed` |
| `subagents` | 2 agents for the notices; 1 job of each kind in 2 sessions; 4 agent configurations with late tools; 3 ids and 1 tombstone; 4 fleet rows of which 2 fit; a tree of 3 agents | `ToldOrRead`, `TimersMatchJobs`, `ScopeRespected`, `OwnAnswer`, `NamesApart`, `SelectionDrawn`, `RunsFolded` |
| `workflow` | 2 calls per run, 2 runs, 1 permit, 3 keys; a log of 4 entries, 2 agents; fair | `ReplayFaithful`, `CompletedAnswered`, `PauseHolds`, `CallsAnswered` (liveness), `EveryAgentShown` |
| `routines` | 2 routines, 2 fires, 2 sessions, 2 days, queue of 1; one routine with 2 versions and 3 events on pages of 2; 2 starts of the server on 2 ports, and beside it 1 request and 2 tokens with 1 start; fair | `FireAccounted`, `FiresExact`, `NoStarvation` (liveness), `TriggersExact`, `ServerSound` |
| `desk` | 2 tasks over 3 turns and 2 sessions; 3 items of mail, 2 owners; 1 id in both task files | `Lingers`, `PromptedRight`, `ClosedMeansDone`, `MailAnnounced`, `PanelTrue` |
| `planning` | 3 ids, every mutation on every id; 2 processes, 3 phases, 3 plan tasks; 2 approaches and sections; 2 calls of eval_score, 6 files of coefficients, 4 artifacts | `IdsFresh`, `EdgesFollowTasks`, `PlanAccounted`, `PhasesEarned`, `MeanOfObserved` |
| `lock_torn` | a violation, see below | `MutualExclusion` |

Why the bounds are enough. Three agents give a slot holder, a queue entry behind it and
one that overtakes, is stopped or frees a slot; with limits of 1 and 2 the pools are
full, over-full after a limit is lowered, and free. The three kinds of sessions are
checked apart because their options do not meet in one code path except through the
pools, which each kind has. A resume needs one earlier run; two agents suffice for one
to wait for the other's slot or result. Two sessions give every race on a lock and three
calls give a retry after a takeover; two survivors of a third race for the lock it left;
`MaxTries` is small because only its order relative to the two polls matters. Three
tasks make a dependent of two and two dependents of one; seven spawn requests are as
many as three requests of the user can cause (an eighth is never made), so the bound
cuts nothing. Two agents make a batch, a group, a partial delivery and a straggler. A
job needs two sessions to be carried into another one, and a clock that passes its time
while it is away. One permit and two calls make a queue; a replay needs one earlier run,
and two calls to come in another order. Two routines with a queue of one trim, coalesce
and wait for each other, and one of them is deleted after its only tick; two sessions
give every kind of handover. Three events on pages of two let one fall off the page. Two
requests of eval_score overlap, and the coefficients' files are one of each outcome of
loading. Three levels of agents have an ancestor that is not the parent.

Fairness. `FairSpec` and `WaitSpec` assume only that git calls and model runs end (a run
has a turn limit and reacts to its abort signal), and that microtasks run. It is weak
fairness per agent, written with `AnswerDue` in place of `ENABLED`, and in `WaitSpec` it
applies only while the event loop is not starved. Nothing obliges the user to do
anything. `WorkflowRun` assumes weak fairness of the host's continuations and of the
worker's messages, and that children, gate commands (they have a timeout) and loads of
files end; the script and the user owe nothing, so `CallsAnswered` is conditional on the
run neither ending nor being paused. `RoutineFires` assumes that writes, timers, the
watchdog and the agent's runs go on, that a closing session ends, and, as strong
fairness, that other extensions do not start a run at every settle for ever: the code
only tries again when the session is free. `TaskBoard` needs no fairness: `CascadeOwed`
says a cascade in flight still has the task on its list, and `rpcCall` ends within 30
seconds.

Every property of a passing run has a mutant in `PROJECT.json`: a plausible bug in
one definition ("Mutant:" in the modules) under which TLC refutes the property.

## The proofs

`tlapm` checks them. The theorems hold for every number of agents, sessions, tasks,
routines, calls and every limit, under the named ASSUMEs of the modules, which TLC
evaluates in the runs. Most say that constants have their type. The others: `NoOwner`,
`None`, "none" and "add" name no agent, session or process; the builtin tools of an
agent are not those of orchestration (`AgentRunAssumption`); ids of the fleet list are
positive numbers; rows, fleet ids, routines and the agents of a tree are finitely many;
what a pass of the evaluator finds is finite, a configuration it loads has passed the
schema, and the defaults also keep its invariants. One is about a file and not ensured
by the code: `BudgetAssumption`, that the budget a configuration gives `step_efficiency`
is a number not below zero. The schema takes any value there; zero is part of the model,
and what it does to a score is NaN.

**FoldLemmas**. The library's induction theorems take operators as parameters, which
the provers cannot instantiate. Here a property is the set of what has it and the step
of a fold is a function, so the facts are about sets alone: `NatSetInduction`,
`SubsetInduction`, `PositionsInduction` and `UpToInduction` (induction over numbers, the
subsets of a finite set, the positions of a sequence, 1..n), `FoldExists`,
`SeqFoldExists` and `StepsExist` (the recursion by which `FoldSet`, `FoldLeft` and a
function along 1..n are defined has a solution, with values in any set closed under the
step), `MaxOf`, `MinOf`, and `Ranks` (the members of a finite set of integers counted in
order). A sum over a set may be taken in any order (`SumInAnyOrder`, `SumExists`), and a
change at one element changes it by as much (`SumChanges`). All rest on the
well-foundedness of `<` and on cardinalities.

**AgentManagerProofs**: `TypeCorrect`, `SlotsNeverDrift` (`SlotsAccounted`),
`NoLostWakeUp` (`CallerOwedWakeUp`), `NoOrphans` (`ChildNeedsParent`), `PoolsKeptInUse`
(`PoolsUsed`), `CallersGetResults` (`CallerReturnsDone`). That the
counters match is not inductive: the settle of a resume asks `occupiesPoolSlot` again
instead of remembering the pool it took its slot from, so the answer must not have
changed. The inductive invariant `IInv` has, beside the types, `Accounted` (the
counters), `ResumesCharged` (a live or queued resume belongs to a record that occupies
a background slot), `FreshIdle` (an id that was not handed out has no run) and `Owed`
(the callers). Each operator of the manager has a lemma that it keeps `IInv`, each
action a lemma that composes them, `NextInv` puts them together. `NoOrphans` adds
`Guarded`; its lemmas say that an operator only takes agents away, keeps their owners
and starts nothing (`Keeps`), and that what is started has a live parent (`Parented`).

`PoolsKeptInUse` needs to know what a drain takes. `Lined` says that the queue is a
total order, that an entry waits for the pool it will be charged to, that an inline
resume holds no slot, and that an agent whose spawn has not run has no session and so
no resume (`Young`): without it a waiting foreground entry could be turned into a
background one. Over that order `TakenFew` and `TakenEnough` count the entries that
fewer than `Room` startable ones precede: at most `Room` of them start, and exactly
that many if one is left (`StartingCount`, by the least entry and by
WellFoundedInduction). So a drain ends with no idle slot and no overfilled pool
(`DrainedPools`), whatever was charged before. A method that does not drain is `Tight`:
it adds no entry, frees no slot and raises no limit, so it cannot make a slot idle.

`CallersGetResults` follows a spawn through its phases (`Concludes`): a queued one is
in the map and "queued", a copying one "running" or "stopped", a discarding one
"stopped", one that has run finished or re-entered, and until it has run it can not be
re-entered. So drainQueue never finds a waiting spawn stale, and a record handed out
unstarted stays stopped. The run `agents` has no resumes, the theorem does.

`NothingImmortal` proves the first half of `AllComesToRest`, `[]StatusHasRun`. That a
queued record has an entry is not inductive: with an older entry of the same agent
before it, a drain takes the entry for stale. `AllManned` asks for an entry that no
other of its agent is ahead of (`Leads`), the one drainQueue does not drop. An operator
of the manager pushes nothing and leaves the active agents their runs (`Carries`), or
is a drain (`DrainedManned`), a start (`AskedManned`) or a push (`EnqueuedManned`, with
the order of the queue from `Lined`).

`NoRunMissed` proves `RunningAwaited`, the safety half of `WaitKept`, for agents that are
resumed too. A running agent has a run that waits for its copy or runs (`AllManned`).
Only a first run copies (`Named`), so the startup is found. Otherwise the first run is
past its startup, since nothing resumes an agent before (`Concludes`), so the last run
that is no foreground resume left a promise, settled or not, and the turn does not end
the wait.

**TaskStoreProofs**, about the list: `ListTypeCorrect`, `IdsNeverReused` (`IdsFresh`),
`EdgesAreKept` (`EdgesFollowTasks`). The lemma `ApplyGood` carries them: every mutation
keeps a board well formed with no task at or above its next id, and keeps exactly the
edges between surviving tasks. About the shared file: `LockExcludes` (`ExclusionKept`)
and `SharedListAtomic` (`ListWhileKept`: every step of the file until a robbery or a
deletion is a step of the list, so without either the file implements the list,
`ListSpec`). Nothing is assumed: sessions die anywhere, locks are torn, files are
deleted, and the properties say from where on the code keeps nothing; the run
`lock_torn` and the claims below show that it then breaks. Mutual exclusion alone is not
inductive; `SInv` adds that nobody is robbed where no session died and no lock was torn
(`Sober`) and, while nobody was, that the lock names its holder (`LockOwned`), that a waiting session is where the protocol puts it (`Orderly`,
`TriesLeft`), that the holder's memory is the file (`MemoryLatest`, `NoFileNoMemory`),
and that boards and calls are well formed. `DeadSessionsDoNotBlock`
(`DeadLockTakenOver`) needs none of this: sessions die anywhere, locks are torn. Its
invariant `DInv` counts tries against deaths: a session that never met a live owner has
lost a try only to a lock a dead one left (`TriesPaid`), and each left at most one
(`DeathsBounded`). It assumes `Patient`: the budget, a hundred in the code, exceeds the
number of deaths by more than two.

**TaskBoardProofs**: `InProgressHasAgent` (`InProgressAccounted`), `ReportsOwnTask`
(`OnlyOwnTask`) and `CascadesReachAll` (`CascadeOwed`), with sessions switched at any
time; each property holds until a session is switched while a handler waits for a reply
(`crossed`), after which the code does not keep it (`SwitchKeepsOwners` below).
`BoardInv` says that the map, the tasks' agent ids and the handlers' copies agree with
what each agent was spawned for (`Tied`) and that tasks in progress are held
(`AllHeld`); its parts take the lists, map and agents as parameters, because a handler
changes them before it goes on with its list. `CascadeOwed` also excepts the sessions
with a task set by hand (`touched`) or asked for with others that do not wait for it
(`mixed`). A TaskExecute sets `cascadeConfig` only after its last reply
(`pi-tasks/src/index.ts:1462`). If it asks for two tasks and the second request goes
unanswered, the first may complete meanwhile and frees its dependents without a cascade.
The run makes such calls too; what they spoil is in `mixed`. `CascadeInv` is `Owed` (a
freed task is on the list of a handler, or tried) and, until cascading begins, `Cold`
(no agent works on a task others wait for).

**WorkflowProofs**: `ReplaysAreFaithful` (`ReplayFaithful`), `CompletedRunsAnswered`
(`CompletedAnswered`), `PausesHold` (`PauseHolds`), from `RunInv`: the types, the queue
for permits (`Queued`) and `Sound`, which relates the log of posted calls to what the
host did with each: calls are taken in order, each taken one has its row and index, a
text is the answer to its key, what was replayed is a prefix while `intact`, and
`open` has exactly the unanswered ones. The transformers of the run record (respond,
settle, launch) have lemmas saying which parts they leave alone (`SameBooks`,
`SameGate`), so each action is a composition of lemmas.

`TreeShowsEveryAgent` (`EveryAgentShown`) needs of the state only that the log has rows
and the declarations titles (`ViewTyped`): what the view shows is computed from them.
Groups are non-empty runs of one title (`GroupsSound`), a declared title takes the first
group of its name that is left, so no two take the same (`TakenSound`), and merging the
two lists keeps every group once (`MergeKeeps`, by `StepsExist` along the list). So
every agent is in exactly one group of the tree (`TreeShowsOnce`), whatever the titles.

**RoutineProofs**: `TakenBackStaysClosed` (`ServerSound`) from `PortInv` (which sockets are
bound while servers start and close, and that one is out of reach only after starts for
two ports overlapped) and `TokenInv` (tokens enter the chain of mutations
in the order they were made, so one that was replaced is older than any still to be
written); `TriggersActExactly` (`TriggersExact`) from `TInv` (timers by version, one
GitHub chain that goes on) and `EInv` (cursor, page and fired events: what is behind
the cursor was fired or skipped by a pause, what was fired is seen); that there is one
chain and one fire for each event needs that no update met a poll in progress.

`FiresAreAccounted` (`FireAccounted`) and `FiresAreExact` (`FiresExact`) follow from
`FiresInv`. A fire that was accepted is owed until it is opened, dropped for a reason
the code has or lost where the code loses it, and where it is kept depends on the phase
of the session: in the queue or in the drain while the session is ready, in the mirror
on the store while it closes, in the file afterwards. `Sound` says that each of these
lists holds distinct runs, none of them opened, that the mirror is the part of the queue
that is not deferred, and that at most one drain is under way; `DiskSound` says the same
of the file, `PhaseSound` what each phase of the session leaves at rest; `FatesSound`
says that each owed fire is in the list its phase names. An action moves fires from one
list to another: `Works`, `Drains` and `Advances` say which such moves keep the
invariant, and each handler has a lemma that it makes one of them. What a handler
computes by folding over a list (trimming, rehydrating, closing) is found by induction
along the list with FoldLemmas. The attempt showed an error of the model: `loadStore`
drops the fires of routines that were deleted, also those the mirror still had, and the
model kept them.

**SubagentProofs**: `TimersFollowJobs` (`TimersMatchJobs`), `ToolsStayInScope`
(`ScopeRespected`), `AnswersAreOwn` (`OwnAnswer`), `NamesBelongToOne` (`NamesApart`).
The invariants: `SchInv`; `ScopeInv`, in which also the tools admitted before the
extensions finished loading are in scope; `TalkInv`, in which everything said since
`startLen` is of this invocation; `NInv`.

`EndsAreToldOrRead` (`ToldOrRead`) rests on `NoticeInv`: an agent that ended and was
neither reported nor read is held by something with a timer, the batch that still
collects, a nudge or a group (`OwedHeld`, `BatchTimed`). `finalizeBatch` goes through
the batch and may report, hold or forget each member; `PositionsInduction` carries the
invariant along the batch, each member at its turn. `SelectionIsDrawn`
(`SelectionDrawn`): the rows of the roster are the shown ids in order (`Ranks`), and the
window scrolled to the selection contains it (`WindowHoldsSelection`); that an agent is
viewed exactly while its overlay is up is `FInv`.

`SpendReachesAncestors` (`RunsFolded`) holds for trees of every depth; the run has three
levels. Its invariant `KidsInv` adds that parents are older than their children
(`InOrder`): so the walk to the top ends, and the agents it charges are the ancestors
(`Upward`). A turn then changes the total of each ancestor, and the sum over each
ancestor's family, by one (`SumChanges`).

**DeskProofs**: `ClosedIntentsAreDone` (`ClosedMeansDone`), `MailIsAnnounced`
(`MailAnnounced`), `CompletedTasksLinger` (`Lingers`), `PromptsAreRight`
(`PromptedRight`), `PanelIsTrue` (`PanelTrue`). `MailIsAnnounced` rests on `WInv`: what
was observed has had a note or is pending, a debt has its wake pending, and no intent
was the occasion of more notes than the machine counts, or is gone for good. `TurnsInv`
relates the countdowns to when the tasks were completed and the reminder to the turns
since the last task tool; `OverlayInv` and `RowsInv` follow the host's options and the
rows read from two files. About planning: `PlansAreAccounted` (`PlanAccounted`), in
which each process owes what its step of `task_convert_intent` or `task_add_phase` has
read (`Due`), and `PhasesAreEarned` (`PhasesEarned`).

`ScoresAreMeans` (`MeanOfObserved`): every metric is missing or between 0 and 100
(`MetricsMeasured`, one lemma for each), normalizing keeps that scale (`NormMeasured`),
and a rounded weighted mean lies between the least and the greatest value that weighs
something, or is zero if none does (`MeanBetween`, by induction over the signals), unless
one of them is not a number. The
invariant `EvalTyped` carries these facts from the pass that collects the dimensions to
the cache and the answers; it also says that the coefficients in use kept the
invariants of the file, without which a total over no weight would be zero.

Only model-checked, and why:

* liveness (`AllComesToRest` with `CallerEnds`, `WaitEnds` in `WaitKept`,
  `CallsAnswered`, `NoStarvation`) is out of the prover's reach.

Every other property of a passing run is proved, and so are the safety halves of two of
these, `StatusHasRun` in `AllComesToRest` and `RunningAwaited` in `WaitKept`.

## What the checks found

With a run that exhibits it: `lock_torn`, in which a session that has polled twice
takes a lock whose token is not written yet from its live owner.

### Claims the code does not keep

The following definitions state what a comment, a tool's text or a document of the
repository says, and TLC refutes each: add the definition to the cfg of its module's
run (with the change of instance given, if any) to see the behaviour.

| Definition | Refuted because |
|---|---|
| `QueuedResumeRuns` (AgentManager, run `resting`) | a background resume queued while the agent's stopped run still settles is dropped as stale when that run overwrites the status (`agent-manager.ts:1017`), although the tool said "You will be notified when this agent completes." (`index.ts:2014`) |
| `TurnAwaits` (WaitForAll, `MaxResumes = 1`) | a queued resume keeps the settled promise of its previous run, so `waitForAll` awaits only settled promises and starves the event loop (`agent-manager.ts:1549`, comment at 1534) |
| `MutualExclusion` (TaskStore, run `takeover` with `TornCreate = FALSE`) | two sessions judge a dead lock stale, and the second unlinks the live lock of the first (`task-store.ts:50`; "concurrent access is safe", `pi-tasks/README.md:21`) |
| `OnlyEmptyDeleted` (TaskStore, run `sessions` with `SessionScope = TRUE`, `MaxTasks = 3`, `MaxCalls = 2`, `Mutations <- ClearCalls`) | `deleteFileIfEmpty` looks at memory, outside the lock, and deletes a file another session has written to (`task-store.ts:379`, comment at 377) |
| `IdsNotReused` (the same) | the counter goes with the file (380; "task IDs stay monotonic and are never reused", `pi-tasks/README.md:283`) |
| `SwitchKeepsOwners` (TaskBoard) | a cascade whose request is unanswered survives a switch and maps its agent to the new session's task of the same id (`pi-tasks/src/index.ts:397`, comment at 740) |
| `AtLeastOnce` (RoutineFires) | the removal of a fire is written before its turn opens, so a crash between the two forgets it (`pi-routines/src/scheduler.ts:820`; "at-least-once across crashes", 153) |
| `QuitLosesNothing` (RoutineFires) | a request answered while the session closes mirrors the emptied queue, and the fires that wait go from the disk (157; "Queued fires are NOT dropped", 121) |
| `SocketsReachable` (RoutineServer) | overlapping starts for two ports both bind, and the first socket is forgotten (`server.ts:195`; "so cleanup is easy", 38) |
| `RestartLeavesOneChain` (RoutineTimers) | a poll in flight is no timer and arms its successor beside the chain of the update (`github-poller.ts:305`; "any existing timers for this id are cleared first", `scheduler.ts:241`) |
| `EdgesMirrored` (Mailbox) | a step that waits for its own intent is not among what the intent blocks (`mailbox/tools.ts:410`; "every edge is mirrored onto its blocker", `design-mailbox.md:271`) |
| `OnScale` (Evaluator) | a budget of zero passes the schema and scores NaN (`step-efficiency.ts:62`; "score: 0-100", `scoring-engine.ts:86`) |
| `SkipNotHeld` (WorkflowRun) | a call skipped while it queues for a permit is held by the pause all the same (`runtime.ts:965`, comments at 253 and 645) |
| `SpendFolded` (NestedAgents) | the spend of a resumed nested child is not folded into its ancestors (`nested-tools.ts:195`) |
| `OneAnswer` (AgentNames) | the id of an evicted agent whose conversation was reopened opens it a second time (`agent-manager.ts:1364`) |
| `AbortHeeded` (AgentRun) | an abort during setup is forwarded by a listener added too late (`agent-runner.ts:596`) |
| `NotBeforeTime` (Schedule) | a delay above 2^31 - 1 ms fires at once |
| `SurfaceNamed` (SidebarPanel) | for an id in both files the row is the board's, the note names the mailbox (`notes.ts:14`) |
| `ConvertedOnce`, `ShapeKept` (Intents) | two processes read an intent before either marks it; `task_convert_intent` ignores planning under way |
| `ApprovedWhole` (Brainstorm) | REVISE_SECTION after the approval leaves the session approved |
| `SameRunKept`, `ListLingers` (TaskTurns) | any run that ended since the last TaskCreate counts as the one that completed the list (`auto-clear.ts:73`); the menu creates tasks without restarting the list's countdown |
| `BackoffLengthens` (RoutineTimers, `Interval = 12`) | the cap of ten minutes is below a long interval (`pi-routines/src/scheduler.ts:106`) |
| `FoundIsScored`, `ActiveNamed` (Evaluator) | nothing calls `registerBuiltinMetrics` although `registry.ts:46` says the extension does, so every score is 0; the first score of a session is cached and answered for later workflows |

### Seen while modelling

* AgentManager: a stopped agent whose run is still in flight can be re-entered by a
  background resume (`agent-manager.ts:1132`, against the comment at 1123), and then a
  caller that still waits for that run is handed a record that says "running"; while the
  copy of a stopped agent is discarded its slot is free but the queue is not drained,
  so a new spawn overtakes queued ones (738, 1005); `waitForAll` returns while agents
  are queued if the slot holder was stopped and has not settled (1547).
* Task execution: an agent stopped in the queue sends no event, and one that ends
  while another session is current is not heard: their tasks stay in_progress
  (`agent-manager.ts:1413`, `pi-tasks/src/index.ts:349`); `cascadeConfig` is set after
  the last spawn reply, so a task of a batch that completes while another request
  goes unanswered frees its dependents without a cascade (1462); TaskUpdate applies
  its fields before it refuses a change of type (1152).
* TaskStore: `load` keeps the memory when the
  file is gone, so a list cleared by another session comes back (136); `addBlocks`
  and `addBlockedBy` accept ids that do not exist (290).
* Notices: a resume while a notice is held reports a running agent; an abort within a
  batch is reported twice; a queued agent that is stopped is never reported; a member
  that was read keeps its group waiting for the 30 s.
* Schedule: two processes of one session fire a removed job once more; after a crash
  `lastStatus` stays "running".
* Nested agents: resuming a running child fails it and stops its children; a stop
  misses a child that is being resumed inline. `resumeAgent` has no turn limit.
* Workflows: skip, retry and the end of a run miss a child that is still starting
  (`host.ts:361`); a skip during a gate command is ignored; `stats()` counts raw log
  entries.
* Routines: a pulse stays dead after pause, tick and resume (282); a daily
  agent_end hook may fire twice (`guard.ts:102`); stopping during a start leaves the
  server running; another process's tokens are not seen before a restart.
* Mailbox: `mailbox_complete` checks neither owner nor claim; a breakdown by the owner
  reopens a completed intent; a note names all unclaimed intents and counts for one, so an
  intent is named in the notes of the others too (`wake.ts:312`, against `design-mailbox.md:330`);
  a garbled file makes old mail new again (`wake.ts:193`, against 202); a turn that was
  stopped while streaming leaves the machine believing somebody is talking.
* Turns: the debounce can leave an idle model unwoken within six turns.
* Intents: a death after the mark leaves a converted intent without its tasks; an intent
  deleted under a call gets its plan tasks all the same (`orchestrator-tool.ts:450`);
  `validateFinalShape` accepts plans that `task_add_phase` refuses; two processes that
  add phases overwrite each other's record. The brainstorming machine has no caller
  in production, and USER_REVIEW_COMPLETE(false) while proposing enters designing.
* Evaluator: `createEvalState` has no fallback although `state.ts:105` says so;
  `tool_correctness` names its windows after the orchestrator's tool and so never has
  data; a failed judge does not fall back to the heuristic.

## What is not modelled

Terminal drawing, prompts and texts, configuration files, agent definitions, path
joining, parsers of reports and expressions, and git itself have no state a model
checker adds to. ProcessTracker is not modelled because nothing in the program
calls `track`; codebase memory is a bridge to a server. Of the modelled components
the following is left out:

* AgentManager: steering and the texts of callbacks;
* the task list: payload fields, `snapshot`/`seed`, the repair of hand-edited files;
* task execution: TaskOutput's wait, forks and new sessions, tasks without `agentType`;
* names: the clone of the model mode of mentions, disabled types;
* agent runner: prompts, skills, memory, the choice of models;
* workflows: the token budget and the realm of the script;
* routines: branches and filters of GitHub triggers, run history, the widget;
* turns: blockers, and a change of the setting while tasks linger;
* mailbox: the lock, which is TaskStore's protocol and is a single step here;
* orchestrator: `task_inspect` and `task_consume`, which only read, and brainstorming's
  questions;
* evaluator: the parsers of artifacts, the judging model's reply (an input), and
  `eval_trend`, a stub in the code.

## What is left

To be modelled: TaskOutput's wait in TaskBoard, the composition of Notices with
AgentManager, and of Intents with TaskStore.
