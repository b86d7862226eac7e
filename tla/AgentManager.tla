---------------------------- MODULE AgentManager ----------------------------
(***************************************************************************)
(* The agent manager of pi-subagents (src/pi-subagents/src/                *)
(* agent-manager.ts): two concurrency pools fed from one queue, agents     *)
(* that start, run, are stopped, resumed, evicted and shut down, callers   *)
(* blocked in spawnAndWait, and children owned by a parent agent.          *)
(*                                                                         *)
(* The program is single-threaded JavaScript: a handler runs to its first  *)
(* await without interruption, so an action is one such stretch.  What     *)
(* interleaves are the awaited parts: the repository copy of a worktree    *)
(* agent, the model's run, the worktree cleanup, and the user.             *)
(*                                                                         *)
(* An execution of an agent is a "run".  Run <<a, 0>> is the one spawn()   *)
(* starts; <<a, k>> with k > 0 is the one its k-th resume starts.  The     *)
(* array `queue' of the code is the set of runs in phase "queued", and     *)
(* its order is each run's `ahead': the entries that were in the array     *)
(* when this one was pushed.                                               *)
(***************************************************************************)
EXTENDS Integers, FiniteSets

CONSTANTS
    Agents,       \* the ids randomUUID() may hand out (each at most once)
    MaxResumes,   \* bound: resumes of one agent
    Options,      \* the spawn options callers use
    BgLimits,     \* the values /agents -> Settings gives maxConcurrent
    FgLimits,     \* ... and maxConcurrentForeground (0 = unlimited)
    NoOwner,      \* owner of a top-level agent
    Workflow      \* owner of a workflow's agent

SpawnOptions ==
    [mode : {"background", "blocking", "detached"},
     owner : {"none", "agent", "workflow"},
     bypassQueue : BOOLEAN, worktree : BOOLEAN, cwd : BOOLEAN, aborted : BOOLEAN]

ASSUME ConstantsAssumption ==
    /\ IsFiniteSet(Agents)
    /\ MaxResumes \in Nat
    /\ Options \subseteq SpawnOptions
    /\ BgLimits \subseteq Nat \ {0}
    /\ FgLimits \subseteq Nat
    /\ NoOwner \notin Agents /\ Workflow \notin Agents /\ NoOwner # Workflow

VARIABLES
    agents,                  \* ids in the map `agents'
    rec,                     \* the AgentRecords, kept after they leave the map
    runs,                    \* every run of every agent
    caller,                  \* the spawnAndWait call that awaits each agent
    runningBackground,       \* the two pool counters ...
    runningForeground,
    maxConcurrent,           \* ... and their limits
    maxConcurrentForeground,
    open                     \* FALSE once session_shutdown ran

vars == <<agents, rec, runs, caller, runningBackground, runningForeground,
          maxConcurrent, maxConcurrentForeground, open>>

RunIds == Agents \X (0..MaxResumes)
RunsOf(a) == {x \in RunIds : x[1] = a}

Pools == {"background", "foreground"}

\* "aborted" (turn limit) and "steered" are folded into "completed": nothing in
\* the manager tells these three apart.  "none" is an id not handed out yet.
Statuses == {"none", "queued", "running", "completed", "error", "stopped"}
Active == {"queued", "running"}
Terminal == {"completed", "error", "stopped"}

Phases == {"idle",        \* not requested yet
           "queued",      \* an entry of the array `queue'
           "copying",     \* startAgent awaits createWorktree
           "discarding",  \* ... stopped meanwhile, awaits cleanupWorktree
           "running",     \* the model runs
           "cleanup",     \* its run ended, awaits cleanupWorktree
           "settled",     \* settled: slot given back, onComplete fired
           "dropped"}     \* left the queue, or its startup, without running

\* The phases in which startAgent/startResume hold the slot they took.
Holding == {"copying", "running", "cleanup"}

AgentRecord ==
    [status : Statuses, isBackground : BOOLEAN, owner : Agents \cup {NoOwner, Workflow},
     session : BOOLEAN, opt : SpawnOptions]

Run ==
    [phase : Phases, pool : Pools \cup {"none"}, kind : {"spawn", "resume", "inline"},
     wasQueued : BOOLEAN, clash : BOOLEAN, ahead : SUBSET RunIds]

CallerStates == {"none", "start", "run", "returned", "threw"}

-----------------------------------------------------------------------------
(***************************************************************************)
(* The manager's methods call one another before the next await, so each   *)
(* one is an operator from a state of the manager to a state, and an       *)
(* action composes them in the order of the code.                          *)
(***************************************************************************)
State ==
    [agents : SUBSET Agents, rec : [Agents -> AgentRecord], runs : [RunIds -> Run],
     caller : [Agents -> CallerStates], bg : Int, fg : Int,
     bgLimit : Nat \ {0}, fgLimit : Nat, open : BOOLEAN]

Here ==
    [agents |-> agents, rec |-> rec, runs |-> runs, caller |-> caller,
     bg |-> runningBackground, fg |-> runningForeground,
     bgLimit |-> maxConcurrent, fgLimit |-> maxConcurrentForeground, open |-> open]

Becomes(s) ==
    /\ agents' = s.agents
    /\ rec' = s.rec
    /\ runs' = s.runs
    /\ caller' = s.caller
    /\ runningBackground' = s.bg
    /\ runningForeground' = s.fg
    /\ maxConcurrent' = s.bgLimit
    /\ maxConcurrentForeground' = s.fgLimit
    /\ open' = s.open

Queue(s) == {x \in RunIds : s.runs[x].phase = "queued"}

IsTopLevelAgent(r) == r.owner = NoOwner
OccupiesPoolSlot(r) == r.isBackground /\ IsTopLevelAgent(r)
OccupiesForegroundSlot(r) == r.opt.mode = "blocking" /\ IsTopLevelAgent(r)

PoolFor(s, r) ==
    CASE OccupiesPoolSlot(r) -> "background"
      [] ~OccupiesPoolSlot(r) /\ s.fgLimit > 0 /\ OccupiesForegroundSlot(r) -> "foreground"
      [] OTHER -> "none"

\* How many more entries of a pool may start; an unlimited pool has room for
\* every entry there could be.
Room(s, pool) ==
    CASE pool = "background" -> s.bgLimit - s.bg
      [] pool = "foreground" /\ s.fgLimit > 0 -> s.fgLimit - s.fg
      [] OTHER -> Cardinality(RunIds) + 1

PoolHasRoom(s, pool) == Room(s, pool) > 0

\* The pool a starting run is charged to: startAgent asks poolFor, startResume
\* only ever charges the background pool.
Charge(s, x) ==
    IF s.runs[x].kind = "spawn" THEN PoolFor(s, s.rec[x[1]])
    ELSE IF s.runs[x].kind = "resume" /\ OccupiesPoolSlot(s.rec[x[1]]) THEN "background"
    ELSE "none"

\* The session is streaming: session.prompt() on it rejects.
Streaming(s, a) == \E x \in RunsOf(a) : s.runs[x].phase = "running"

\* Mutant: the caller of a queued spawn is released at drain time, before the
\* copy is made and a promise exists.
StartedReleasingEarly(s, X) ==
    LET copies(x) == s.runs[x].kind = "spawn" /\ s.rec[x[1]].opt.worktree
        charged(pool) == {x \in X : Charge(s, x) = pool}
    IN [s EXCEPT
          !.rec = [a \in Agents |-> IF \E x \in X : x[1] = a
                                    THEN [s.rec[a] EXCEPT !.status = "running"] ELSE s.rec[a]],
          !.runs = [x \in RunIds |->
                      IF x \in X
                      THEN [s.runs[x] EXCEPT !.phase = IF copies(x) THEN "copying" ELSE "running",
                                             !.pool = Charge(s, x), !.ahead = {}]
                      ELSE s.runs[x]],
          !.caller = [a \in Agents |-> IF <<a, 0>> \in X /\ s.caller[a] = "start"
                                       THEN IF copies(<<a, 0>>) THEN "returned" ELSE "run"
                                       ELSE s.caller[a]],
          !.bg = s.bg + Cardinality(charged("background")),
          !.fg = s.fg + Cardinality(charged("foreground"))]

\* startAgent up to its first await, startResume, or the inline branch of
\* resume, for every run of X: the record is "running", the slot is taken.  A
\* worktree spawn waits for its copy; anything else is running, and the caller
\* waiting for the start now awaits the run's promise.
Started(s, X) ==
    LET copies(x) == s.runs[x].kind = "spawn" /\ s.rec[x[1]].opt.worktree
        charged(pool) == {x \in X : Charge(s, x) = pool}
    IN [s EXCEPT
          !.rec = [a \in Agents |-> IF \E x \in X : x[1] = a
                                    THEN [s.rec[a] EXCEPT !.status = "running"]
                                    ELSE s.rec[a]],
          !.runs = [x \in RunIds |->
                      IF x \in X
                      THEN [s.runs[x] EXCEPT !.phase = IF copies(x) THEN "copying" ELSE "running",
                                             !.pool = Charge(s, x),
                                             !.clash = Streaming(s, x[1]),
                                             !.ahead = {}]
                      ELSE s.runs[x]],
          !.caller = [a \in Agents |-> IF <<a, 0>> \in X /\ ~copies(<<a, 0>>)
                                          /\ s.caller[a] = "start"
                                       THEN "run" ELSE s.caller[a]],
          !.bg = s.bg + Cardinality(charged("background")),
          !.fg = s.fg + Cardinality(charged("foreground"))]

\* Mutant: an entry leaves the queue and nobody releases its waiter.
DroppedUnreleased(s, X, result) ==
    [s EXCEPT !.runs = [x \in RunIds |-> IF x \in X THEN [s.runs[x] EXCEPT !.phase = "dropped", !.ahead = {}]
                                         ELSE s.runs[x]]]

\* Entries leave the queue without starting.  dequeue() releases each one, so
\* a caller blocked on it goes on: it returns the record, or throws when the
\* start failed.
Dropped(s, X, result) ==
    [s EXCEPT
       !.runs = [x \in RunIds |-> IF x \in X THEN [s.runs[x] EXCEPT !.phase = "dropped", !.ahead = {}]
                                  ELSE s.runs[x]],
       !.caller = [a \in Agents |-> IF <<a, 0>> \in X /\ s.caller[a] = "start"
                                    THEN result ELSE s.caller[a]]]

WithStatus(s, S, status) ==
    [s EXCEPT !.rec = [a \in Agents |-> IF a \in S THEN [s.rec[a] EXCEPT !.status = status]
                                        ELSE s.rec[a]]]

-----------------------------------------------------------------------------
(***************************************************************************)
(* drainQueue: repeatedly take the earliest entry whose own pool has room, *)
(* drop it if its record is no longer "queued", start it otherwise.  A     *)
(* queued spawn re-validates its cwd at the start; the ones in `gone' fail *)
(* it, take no slot and end "error".                                       *)
(***************************************************************************)
\* Entries drainQueue would start on reaching them.  Of two entries of one
\* agent the later is stale: the first made the record "running".
Startable(s) ==
    {x \in Queue(s) : /\ x[1] \in s.agents
                      /\ s.rec[x[1]].status = "queued"
                      /\ \A y \in s.runs[x].ahead \cap Queue(s) : y[1] # x[1]}

\* Entries the loop reaches before their pool is full.
Reached(s, gone) ==
    {x \in Queue(s) :
        Cardinality({y \in s.runs[x].ahead \cap (Startable(s) \ gone) :
                         s.runs[y].pool = s.runs[x].pool}) < Room(s, s.runs[x].pool)}

\* Queued spawns whose caller-supplied directory may have disappeared.
MayBeGone(s) == {x \in Startable(s) : s.runs[x].kind = "spawn" /\ s.rec[x[1]].opt.cwd}

Drained(s, gone) ==
    LET taken == Reached(s, gone)
        stale == Dropped(s, taken \ Startable(s), "returned")
        failed == WithStatus(Dropped(stale, taken \cap gone, "threw"),
                             {x[1] : x \in taken \cap gone}, "error")
    IN Started(failed, (taken \cap Startable(s)) \ gone)

DrainQueue(s) == \E gone \in SUBSET MayBeGone(s) : Becomes(Drained(s, gone))

-----------------------------------------------------------------------------
(***************************************************************************)
(* abort, abortOwnedChildren and the slot release of a settled run.        *)
(***************************************************************************)
Released(s, pool) ==
    [s EXCEPT !.bg = IF pool = "background" THEN s.bg - 1 ELSE s.bg,
              !.fg = IF pool = "foreground" THEN s.fg - 1 ELSE s.fg]

\* abort() on each agent of S: a queued one leaves the queue (no onComplete),
\* a running one is only marked; its run settles later and frees the slot.
Aborted(s, S) ==
    LET hit == {a \in S \cap s.agents : s.rec[a].status \in Active}
        out == {x \in Queue(s) : x[1] \in hit /\ s.rec[x[1]].status = "queued"}
    IN WithStatus(Dropped(s, out, "returned"), hit, "stopped")

\* Mutant: only the children that nobody awaits are stopped with their parent.
DetachedChildren(s, a) == {c \in s.agents : s.rec[c].owner = a /\ ~s.rec[c].isBackground}

OwnedChildren(s, a) == {c \in s.agents : s.rec[c].owner = a}

InPhase(s, x, phase) == [s EXCEPT !.runs = [s.runs EXCEPT ![x].phase = phase]]

\* Mutant: the pool is computed again at the settle, under the limit of then.
RefundRecomputed(s, x) == PoolFor(s, s.rec[x[1]])

\* What a run gives back: settleRun is handed the pool the start was charged
\* to; the settle of a resume asks occupiesPoolSlot again.
Refund(s, x) ==
    IF s.runs[x].kind = "resume"
    THEN IF OccupiesPoolSlot(s.rec[x[1]]) THEN "background" ELSE "none"
    ELSE s.runs[x].pool

\* The tail of all settle paths: stop the children, give the slot back, let the
\* caller that awaits this run's promise go on.
Settled(s, x) ==
    LET orphaned == Aborted(s, OwnedChildren(s, x[1]))
        freed == InPhase(Released(orphaned, Refund(orphaned, x)), x, "settled")
    IN [freed EXCEPT !.caller = [a \in Agents |->
            IF x = <<a, 0>> /\ freed.caller[a] = "run" THEN "returned" ELSE freed.caller[a]]]

\* Mutant: no drain after a settle.
SettleRunNoDrain(s, x) == Becomes(Settled(s, x))

\* ... and drain the queue, except after a run that was neither background nor
\* charged, and after a foreground resume.
SettleRun(s, x) ==
    IF s.runs[x].kind # "inline" /\ (s.rec[x[1]].isBackground \/ s.runs[x].pool # "none")
    THEN DrainQueue(Settled(s, x))
    ELSE Becomes(Settled(s, x))
-----------------------------------------------------------------------------
(***************************************************************************)
(* Actions.                                                                *)
(***************************************************************************)
NoOptions == [mode |-> "detached", owner |-> "none", bypassQueue |-> FALSE,
              worktree |-> FALSE, cwd |-> FALSE, aborted |-> FALSE]

Init ==
    /\ agents = {}
    /\ rec = [a \in Agents |-> [status |-> "none", isBackground |-> FALSE, owner |-> NoOwner,
                                session |-> FALSE, opt |-> NoOptions]]
    /\ runs = [x \in RunIds |-> [phase |-> "idle", pool |-> "none", kind |-> "spawn",
                                 wasQueued |-> FALSE, clash |-> FALSE, ahead |-> {}]]
    /\ caller = [a \in Agents |-> "none"]
    /\ runningBackground = 0
    /\ runningForeground = 0
    /\ maxConcurrent \in BgLimits
    /\ maxConcurrentForeground \in FgLimits
    /\ open = TRUE

\* Who may own a spawn: a parent is an agent in the middle of its own run.
Owners(o) ==
    CASE o.owner = "none" -> {NoOwner}
      [] o.owner = "workflow" -> {Workflow}
      [] OTHER -> {p \in agents : rec[p].status = "running" /\ Streaming(Here, p)}

\* The record spawn() inserts, before the pool decision.
Inserted(s, a, o, owner) ==
    [s EXCEPT
       !.agents = s.agents \cup {a},
       !.rec = [s.rec EXCEPT ![a] =
                  [status |-> IF o.mode = "background" THEN "queued" ELSE "running",
                   isBackground |-> o.mode = "background", owner |-> owner,
                   session |-> FALSE, opt |-> o]]]

\* Push an entry.
Enqueued(s, x, kind, pool) ==
    WithStatus([s EXCEPT !.runs = [s.runs EXCEPT ![x] =
                   [phase |-> "queued", pool |-> pool, kind |-> kind, wasQueued |-> TRUE,
                    clash |-> FALSE, ahead |-> Queue(s)]]],
               {x[1]}, "queued")

\* A run that will start at once.
Requested(s, x, kind) == [s EXCEPT !.runs = [s.runs EXCEPT ![x].kind = kind]]

\* spawn() after the insert.  An already-aborted signal stops a spawn that would
\* queue, and stops one that starts right after its start.
Spawned(s, a, o) ==
    LET x == <<a, 0>>
        pool == PoolFor(s, s.rec[a])
        queues == pool # "none" /\ ~o.bypassQueue /\ ~PoolHasRoom(s, pool)
        started == Started(Requested(s, x, "spawn"), {x})
    IN CASE queues /\ o.aborted -> WithStatus(Dropped(s, {x}, "returned"), {a}, "stopped")
         [] queues /\ ~o.aborted -> Enqueued(s, x, "spawn", pool)
         [] OTHER -> IF o.aborted /\ ~o.worktree THEN Aborted(started, {a}) ELSE started

\* spawnAndWait() on what spawn() left: wait for the start, wait for the run, or
\* return a record that was stopped at once.
Awaited(s, a) ==
    LET phase == s.runs[<<a, 0>>].phase
    IN [s EXCEPT !.caller = [s.caller EXCEPT ![a] =
           CASE phase \in {"queued", "copying"} -> "start"
             [] phase = "running" -> "run"
             [] OTHER -> "returned"]]

Spawn(a, o, owner) ==
    LET spawned == Spawned(Inserted(Here, a, o, owner), a, o)
    IN /\ open
       /\ rec[a].status = "none"
       /\ Becomes(IF o.mode = "blocking" THEN Awaited(spawned, a) ELSE spawned)

\* createWorktree resolved.  A stop that landed meanwhile discards the copy: the
\* slot is given back at once, but the queue is only drained after the discard.
\* Otherwise the run starts.  A caller's signal that was aborted before or during
\* the copy (`esc') is seen only now, unless the spawn was queued: then the
\* listener armed at the queueing has stopped it already.
CopyDone(a, esc) ==
    LET x == <<a, 0>>
        launched == [InPhase(Here, x, "running") EXCEPT
                       !.caller = [caller EXCEPT ![a] = IF @ = "start" THEN "run" ELSE @]]
    IN /\ runs[x].phase = "copying"
       /\ esc => rec[a].opt.mode = "blocking" /\ ~runs[x].wasQueued
       /\ IF rec[a].status = "running"
          THEN /\ rec[a].opt.aborted => esc
               /\ Becomes(IF esc THEN Aborted(launched, {a}) ELSE launched)
          ELSE /\ ~esc
               /\ Becomes(Released(InPhase(Here, x, "discarding"), runs[x].pool))

\* Mutant: the slot of a failed startup is freed, the queue is not drained.
CopyFailedNoDrain(a) ==
    LET x == <<a, 0>>
        freed == Released(Dropped(Here, {x}, "threw"), runs[x].pool)
    IN /\ runs[x].phase = "copying"
       /\ Becomes(IF runs[x].wasQueued THEN WithStatus(freed, {a}, "error")
                  ELSE [freed EXCEPT !.agents = agents \ {a}])

\* createWorktree failed: a queued start ends "error", an immediate one takes
\* its record out of the map; the caller sees the throw either way.
CopyFailed(a) ==
    LET x == <<a, 0>>
        freed == Released(Dropped(Here, {x}, "threw"), runs[x].pool)
    IN /\ runs[x].phase = "copying"
       /\ DrainQueue(IF runs[x].wasQueued THEN WithStatus(freed, {a}, "error")
                     ELSE [freed EXCEPT !.agents = agents \ {a}])

\* The discarded copy is gone.
DiscardDone(a) ==
    /\ runs[<<a, 0>>].phase = "discarding"
    /\ DrainQueue(Dropped(Here, {<<a, 0>>}, "returned"))

\* onSessionCreated.
SessionCreated(a) ==
    /\ runs[<<a, 0>>].phase = "running"
    /\ ~rec[a].session
    /\ Becomes([Here EXCEPT !.rec = [rec EXCEPT ![a].session = TRUE]])

\* A parent's turn cannot end while one of its tool calls awaits a child.
Blocked(a) ==
    \E c \in Agents :
        /\ rec[c].owner = a
        /\ \/ caller[c] \in {"start", "run"}
           \/ \E x \in RunsOf(c) : runs[x].kind = "inline" /\ runs[x].phase = "running"

\* session.prompt() resolves or rejects.  A prompt to a session that was already
\* streaming is rejected.
Outcomes(x) == IF runs[x].clash THEN {"error"} ELSE {"completed", "error"}

\* The record as the end of run x leaves it: a foreground resume overwrites a
\* stop, the other paths keep it.
Ended(s, x, outcome) ==
    LET a == x[1]
        keeps == s.rec[a].status = "stopped" /\ s.runs[x].kind # "inline"
        got == s.rec[a].session \/ (s.runs[x].kind = "spawn" /\ outcome = "completed")
    IN [WithStatus(s, IF keeps THEN {} ELSE {a}, outcome) EXCEPT !.rec[a].session = got]

\* The run's promise callbacks: settle, unless a worktree has to be cleaned up
\* first.
RunEnds(x, outcome) ==
    LET ended == Ended(Here, x, outcome)
    IN /\ runs[x].phase = "running"
       /\ ~Blocked(x[1])
       /\ outcome \in Outcomes(x)
       /\ IF runs[x].kind = "spawn" /\ rec[x[1]].opt.worktree
          THEN Becomes(InPhase(ended, x, "cleanup"))
          ELSE SettleRun(ended, x)

CleanupDone(a) ==
    /\ runs[<<a, 0>>].phase = "cleanup"
    /\ SettleRun(Here, <<a, 0>>)

\* Resumes are numbered in the order they are asked for.
NextRun(a, k) ==
    /\ runs[<<a, k>>].phase = "idle"
    /\ \A j \in 1..(k - 1) : runs[<<a, j>>].phase # "idle"

\* resume() with isBackground, which only a top-level agent's callers use:
\* refused while the record is running or queued.
ResumeBackground(a, k) ==
    LET x == <<a, k>>
        detached == [Here EXCEPT !.rec = [rec EXCEPT ![a].isBackground = TRUE, ![a].status = "queued"]]
    IN /\ open /\ a \in agents /\ rec[a].session
       /\ IsTopLevelAgent(rec[a])
       /\ rec[a].status \notin Active
       /\ NextRun(a, k)
       /\ Becomes(IF OccupiesPoolSlot(detached.rec[a]) /\ ~PoolHasRoom(detached, "background")
                  THEN Enqueued(detached, x, "resume", "background")
                  ELSE Started(Requested(detached, x, "resume"), {x}))

\* resume() inline, by the main session or by the parent that owns the agent:
\* any record with a session, whatever its status.
ResumeInline(a, k) ==
    /\ open /\ a \in agents /\ rec[a].session
    /\ \/ IsTopLevelAgent(rec[a])
       \/ rec[a].owner \in agents /\ rec[rec[a].owner].status = "running"
             /\ Streaming(Here, rec[a].owner)
    /\ NextRun(a, k)
    /\ Becomes(Started(Requested(Here, <<a, k>>, "inline"), {<<a, k>>}))

\* The user, a tool, a parent's signal or another extension stops an agent.
Abort(a) ==
    /\ a \in agents /\ rec[a].status \in Active
    /\ Becomes(Aborted(Here, {a}))

\* cleanup() (ten minutes after the end) and clearCompleted() (session start
\* and switch) remove terminal records; which ones depends on their age and on
\* whether the result was read, so any of them may go.
Evict(S) ==
    /\ S # {} /\ S \subseteq {a \in agents : rec[a].status \notin Active}
    /\ Becomes([Here EXCEPT !.agents = agents \ S,
                            !.rec = [a \in Agents |-> IF a \in S THEN [rec[a] EXCEPT !.session = FALSE]
                                                      ELSE rec[a]]])

SetMaxConcurrent(n) ==
    /\ n # maxConcurrent
    /\ DrainQueue([Here EXCEPT !.bgLimit = n])

SetMaxConcurrentForeground(n) ==
    /\ n # maxConcurrentForeground
    /\ DrainQueue([Here EXCEPT !.fgLimit = n])

\* session_shutdown: abortAll (every queue entry's record, then every running
\* record, is stopped), then dispose (dequeue everything, clear the map).
Shutdown ==
    LET hit == {a \in agents : rec[a].status = "running"
                                 \/ \E x \in Queue(Here) : x[1] = a}
        stopped == WithStatus(Dropped(Here, Queue(Here), "returned"), hit, "stopped")
    IN /\ open
       /\ Becomes([stopped EXCEPT !.agents = {}, !.open = FALSE])

\* What the session asks of the manager.
Request ==
    \/ \E a \in Agents, o \in Options : \E owner \in Owners(o) : Spawn(a, o, owner)
    \/ \E a \in Agents, k \in 1..MaxResumes : ResumeBackground(a, k)
    \/ \E a \in Agents, k \in 1..MaxResumes : ResumeInline(a, k)
    \/ \E a \in Agents : Abort(a)
    \/ \E S \in SUBSET Agents : Evict(S)
    \/ \E n \in BgLimits : SetMaxConcurrent(n)
    \/ \E n \in FgLimits : SetMaxConcurrentForeground(n)
    \/ Shutdown

\* What git and the models answer.
Answer(a) ==
    \/ \E esc \in BOOLEAN : CopyDone(a, esc)
    \/ CopyFailed(a)
    \/ DiscardDone(a)
    \/ CleanupDone(a)
    \/ \E x \in RunsOf(a), outcome \in {"completed", "error"} : RunEnds(x, outcome)

Next ==
    \/ Request
    \/ \E a \in Agents : SessionCreated(a)
    \/ \E a \in Agents : Answer(a)

Spec == Init /\ [][Next]_vars

\* Git calls and model runs end (a run has a turn limit and reacts to its abort
\* signal); nothing obliges the session to ask for anything.  AnswerDue(a) is
\* ENABLED Answer(a), so this is weak fairness of Answer(a), in the form TLC
\* evaluates without computing ENABLED.
AnswerDue(a) ==
    \E x \in RunsOf(a) : \/ runs[x].phase \in {"copying", "discarding", "cleanup"}
                         \/ runs[x].phase = "running" /\ ~Blocked(a)

Fairness == \A a \in Agents : []<>~AnswerDue(a) \/ []<><<Answer(a)>>_vars

FairSpec == Spec /\ Fairness

-----------------------------------------------------------------------------
(***************************************************************************)
(* Properties.                                                             *)
(***************************************************************************)
\* Every variable has its type; the pool counters never go below zero.
TypeOK == Here \in State /\ runningBackground \in Nat /\ runningForeground \in Nat

\* Every slot is accounted for: each counter is the number of live runs that
\* were charged to its pool, whatever was stopped, resumed, evicted or
\* reconfigured since (startAgent, settleRun: "the decrement lives HERE and
\* nowhere else").  A leak queues every later spawn for ever, an underflow lifts
\* the limit.
Charged(s, pool) == {x \in RunIds : s.runs[x].phase \in Holding /\ s.runs[x].pool = pool}

SlotsAccounted ==
    /\ runningBackground = Cardinality(Charged(Here, "background"))
    /\ runningForeground = Cardinality(Charged(Here, "foreground"))

\* A start that does not bypass the queue never takes a pool over its limit,
\* also when one drain starts several entries or the limit was just lowered
\* (poolHasRoom, drainQueue).
Bypassing == \E a \in Agents : rec[a].status = "none" /\ rec'[a].opt.bypassQueue

LimitRespected ==
    ~Bypassing =>
        /\ runningBackground' > runningBackground => runningBackground' <= maxConcurrent'
        /\ runningForeground' > runningForeground =>
               runningForeground' <= maxConcurrentForeground'

\* No slot idles while work of its pool waits (drainQueue is called wherever a
\* slot or a limit changes).  The one exception is the discard of a stopped
\* agent's worktree, which frees the slot before it awaits git.
NoIdleSlot ==
    \/ \E a \in Agents : runs[<<a, 0>>].phase = "discarding"
    \/ \A x \in Queue(Here) : ~PoolHasRoom(Here, runs[x].pool)

\* No step overfills a pool or leaves it idle, whatever is stopped, resumed or
\* reconfigured (poolHasRoom, drainQueue).
PoolsUsed == [][LimitRespected /\ NoIdleSlot']_vars

\* A record that says "running" or "queued" has a run that will make it say
\* something else; otherwise it would be immortal (cleanup and clearCompleted
\* skip it) and could never be resumed.
StatusHasRun ==
    \A a \in agents :
        /\ rec[a].status = "running" => \E x \in RunsOf(a) : runs[x].phase \in {"copying", "running"}
        /\ rec[a].status = "queued" => \E x \in RunsOf(a) : x \in Queue(Here)

\* A nested child runs only while its parent does: nobody else can see, stop or
\* read it (abortOwnedChildren).
ChildNeedsParent ==
    \A c \in agents :
        rec[c].status \in Active /\ rec[c].owner \in Agents =>
            \E x \in RunsOf(rec[c].owner) : runs[x].phase \in {"running", "cleanup"}

\* A blocked spawnAndWait is always owed a wake-up: while it waits for the start,
\* its entry is queued or its startup is pending, and while it waits for the run,
\* the run is live.  "A missed release is an unbounded hang" (dequeue).
CallerOwedWakeUp ==
    \A a \in Agents :
        /\ caller[a] = "start" => runs[<<a, 0>>].phase \in {"queued", "copying", "discarding"}
        /\ caller[a] = "run" => runs[<<a, 0>>].phase \in {"running", "cleanup"}

\* spawnAndWait hands its caller the record of an agent that is done: it ran to its
\* settle, and says so unless a resume re-entered it, or it was stopped before it
\* ran, and then nothing starts it any more (the gate is released after the startup
\* settled, not at drain time).
ReEntered(s, a) == \E x \in RunsOf(a) \ {<<a, 0>>} : s.runs[x].phase # "idle"

CallerReturnsDone ==
    \A a \in Agents : caller[a] = "returned" =>
        \/ runs[<<a, 0>>].phase = "settled" /\ (rec[a].status \in Terminal \/ ReEntered(Here, a))
        \/ runs[<<a, 0>>].phase = "dropped" /\ rec[a].status = "stopped"

\* Every spawnAndWait call ends, also when agents queue behind parents that wait
\* for their own children (occupiesForegroundSlot: queueing a child behind its
\* parent "is a guaranteed deadlock").
CallerEnds ==
    \A a \in Agents : caller[a] \in {"start", "run"} ~> caller[a] \in {"returned", "threw"}

\* hasRunning() does not stay true by itself: every record in the map that is
\* queued or running comes to rest, whatever was stopped or resumed meanwhile.
Busy(a) == a \in agents /\ rec[a].status \in Active

RecordsComeToRest == \A a \in Agents : Busy(a) ~> ~Busy(a)

\* Nothing is left hanging: what is active has a run, and every record and every
\* caller comes to its end (settleRun, dequeue, abort, startResume).
AllComesToRest == []StatusHasRun /\ RecordsComeToRest /\ CallerEnds

-----------------------------------------------------------------------------
(***************************************************************************)
(* Claims of the code's comments and tests that its behaviour does not     *)
(* keep.                                                                   *)
(***************************************************************************)
\* The Agent tool tells the model of a queued resume "You will be notified when
\* this agent completes": the entry is started, or the agent was stopped.
QueuedResumeRuns ==
    [][\A x \in RunIds : runs[x].kind = "resume" /\ runs[x].phase = "queued"
                            /\ runs'[x].phase = "dropped" => rec'[x[1]].status = "stopped"]_vars

=============================================================================
