---------------------------- MODULE RoutineFires ----------------------------
(***************************************************************************)
(* pi-routines: the life of a routine's fire, from the trigger that        *)
(* enqueues it to the record of the turn it opened.  Scheduler             *)
(* (scheduler.ts: queue, drain, watchdog, rehydration, catch-up), executor *)
(* (executor.ts: gates, the turn), guard (guard.ts), lifecycle handlers    *)
(* (hooks.ts) and the write chain of the store (store.ts) together, since  *)
(* each of them reads what the others leave across an await.               *)
(*                                                                         *)
(* rt is RoutineRuntimeState, the extension instance's memory; it is a     *)
(* record so that a handler, which the event loop runs without a break up  *)
(* to its next await, is a composition of functions on it.  A step of the  *)
(* model is one such stretch.                                              *)
(*                                                                         *)
(* Time is abstract: the 500 ms collapse window is a set of routines that  *)
(* leave it at any moment, and the gap between two sessions is "short",    *)
(* "day" (queued fires are older than MAX_QUEUED_FIRE_AGE_MS) or "week"    *)
(* (deferred hooks are older than MAX_DEFERRED_AGE_MS too).                *)
(***************************************************************************)
EXTENDS Integers, Sequences, FiniteSets, SequencesExt, FiniteSetsExt

CONSTANTS
  Routines,       \* ids of the routines in the store at the start
  HasTimer,       \* the ones with a pulse or cron trigger
  HasApi,         \* the ones with an api or github trigger: their fires stack
  HookEvent,      \* lifecycle event of the routine's hook trigger, or "none"
  HookOnce,       \* its once field: "always", "daily" or "per_session"
  MaxTicks,       \* Routine.maxTicks, 0 for none
  MaxRunsPerDay,  \* Routine.maxRunsPerDay, 0 for none
  MaxQueueDepth,  \* MAX_QUEUE_DEPTH
  MaxDeferred,    \* MAX_DEFERRED_HOOKS
  ByHand,         \* bound: the ones the user runs, pauses, resumes or deletes by hand
  MaxRuns,        \* bound: fires ever enqueued
  MaxDay,         \* bound: days
  MaxSessions,    \* bound: sessions ever started
  MaxEdits        \* bound: routines paused, resumed or deleted

ASSUME FiresAssumption ==
  /\ IsFiniteSet(Routines)
  /\ HasTimer \subseteq Routines /\ HasApi \subseteq Routines /\ ByHand \subseteq Routines
  /\ HookEvent \in [Routines -> {"none", "session_start", "agent_end", "session_shutdown"}]
  /\ HookOnce \in [Routines -> {"always", "daily", "per_session"}]
  /\ MaxTicks \in [Routines -> Nat] /\ MaxRunsPerDay \in [Routines -> Nat]
  /\ MaxQueueDepth \in Nat \ {0} /\ MaxDeferred \in Nat \ {0}
  /\ {MaxRuns, MaxDay, MaxSessions, MaxEdits} \subseteq Nat
  \* createRoutine refuses a second routine with an agent_end hook
  /\ Cardinality({r \in Routines : HookEvent[r] = "agent_end"}) <= 1

VARIABLES
  rt,       \* the runtime of the live extension instance
  disk,     \* state.json
  phase,    \* where the session is in its lifecycle
  start,    \* how the session began: by a reload, after which gap, with a user interface
  agent,    \* pi's run: "idle", "busy", or "ending" (agent_end seen, run flag still set)
  ours,     \* the run in progress carries a routine's message
  day,      \* the local date
  sessions, \* sessions started so far
  edits,    \* routines paused, resumed or deleted so far
  lost      \* history: fires that a step left with no trace the code goes back to

vars == <<rt, disk, phase, start, agent, ours, day, sessions, edits, lost>>

Runs == 1..MaxRuns
Kinds == {"timer", "api", "hook", "manual"}
(* One RoutineQueueEntry; deferred is its deferredHookId (the run of the   *)
(* capture), 0 for none.                                                   *)
Entry == [r : Routines, run : Runs, kind : Kinds, deferred : 0..MaxSessions]
NoEntry == [r |-> "none"]
NoRun == [run |-> 0]
Store == [live : SUBSET Routines, paused : SUBSET Routines, pending : Seq(Entry),
          deferred : Seq([id : 1..MaxSessions, r : Routines]),
          ticks : [Routines -> Nat], used : [Routines -> Nat],
          usedDay : [Routines -> 0..MaxDay], onceDay : [Routines -> 0..MaxDay]]

emptyTick == [r \in Routines |-> 0]
firstStore == [live |-> Routines, paused |-> {}, pending |-> <<>>, deferred |-> <<>>,
               ticks |-> emptyTick, used |-> emptyTick, usedDay |-> emptyTick,
               onceDay |-> emptyTick]

(* A fresh instance: registerRoutinesExtension builds the runtime; the     *)
(* per-session marks live on globalThis and survive it.                    *)
FreshRuntime(hookFires, fate, opens, next) ==
  [queue |-> <<>>, watchdog |-> FALSE, turn |-> FALSE, pendingRun |-> NoRun,
   hookFires |-> hookFires, store |-> [firstStore EXCEPT !.live = {}],
   drain |-> "no", held |-> NoEntry, dirty |-> FALSE, awaiting |-> {},
   arrived |-> {},
   fate |-> fate, opens |-> opens, next |-> next]

Init ==
  /\ rt = FreshRuntime({}, [n \in Runs |-> "none"], [n \in Runs |-> 0], 1)
  /\ disk = firstStore
  /\ phase = "off" /\ start = [reload |-> FALSE, gap |-> "short", ui |-> TRUE] /\ agent = "idle" /\ ours = FALSE
  /\ day = 1 /\ sessions = 0 /\ edits = 0 /\ lost = {}

-----------------------------------------------------------------------------
RunsOf(seq) == {seq[i].run : i \in DOMAIN seq}
(* The fire the drain has taken off the queue.                             *)
InHand(s) == IF s.held = NoEntry THEN {} ELSE {s.held.run}

(* Queue and store, as functions on the runtime.                           *)

(* What is left of a list when only the positions D are kept, in their     *)
(* order: Array.filter.                                                    *)
Kept(q, D) ==
  [k \in 1..Cardinality(D) |-> q[CHOOSE i \in D : Cardinality({j \in D : j <= i}) = k]]

(* saveStore: one more write on the chain. A write serialises the store    *)
(* when its turn comes and renames its file into place, so the writes      *)
(* waiting on the chain are one write of the store as it will be then.     *)
saveStore(s) == [s EXCEPT !.dirty = TRUE]
awaitSave(s, who) == [s EXCEPT !.dirty = TRUE, !.awaiting = @ \cup {who}]

(* persistQueue: mirror the queue into store.pendingQueue, without the     *)
(* deferred hooks' entries, and save.                                      *)
persistQueue(s) ==
  saveStore([s EXCEPT !.store.pending =
               Kept(s.queue, {i \in DOMAIN s.queue : s.queue[i].deferred = 0})])

queueHasRoutine(s, r) == \E i \in DOMAIN s.queue : s.queue[i].r = r

(* recordRun with the run's status; a skipped fire is a run of status      *)
(* "skipped".                                                              *)
recordRun(s, run, status) == saveStore([s EXCEPT !.fate[run] = status])

dropQueuedFireAt(s, i) ==
  LET dropped == s.queue[i]
      s1 == persistQueue([s EXCEPT !.queue = RemoveAt(s.queue, i)])
  IN recordRun(s1, dropped.run, IF dropped.r \in s.store.live THEN "skipped" ELSE "gone")

(* enqueueRoutineFire without its drain: make room, insert (a deferred     *)
(* hook goes before the first normal entry), mirror, arm the watchdog.     *)
enqueueRoutineFire(s, e, priority) ==
  LET normal(q) == {i \in DOMAIN q : q[i].deferred = 0}
      victim == IF priority /\ normal(s.queue) # {} THEN Max(normal(s.queue)) ELSE 1
      s1 == IF Len(s.queue) >= MaxQueueDepth THEN dropQueuedFireAt(s, victim) ELSE s
      at == IF priority /\ normal(s1.queue) # {} THEN Min(normal(s1.queue))
            ELSE Len(s1.queue) + 1
  IN persistQueue([s1 EXCEPT !.queue = InsertAt(s1.queue, at, e),
                             !.fate[e.run] = IF e.deferred = 0 THEN "issued" ELSE "replay",
                             !.watchdog = TRUE])

(* A new fire takes the next run id.                                       *)
newFire(s, r, kind, deferred, priority) ==
  IF s.next > MaxRuns THEN s
  ELSE enqueueRoutineFire([s EXCEPT !.next = @ + 1],
         [r |-> r, run |-> s.next, kind |-> kind, deferred |-> deferred], priority)

removeDeferredHook(s, e) ==
  LET hooks == s.store.deferred
  IN [s EXCEPT !.store.deferred =
        Kept(hooks, {i \in DOMAIN hooks : hooks[i] # [id |-> e.deferred, r |-> e.r]})]

\* Mutant: the mirror is emptied with the queue.
stopForgetting(s) ==
  [s EXCEPT !.queue = <<>>, !.watchdog = FALSE, !.store.pending = <<>>]

(* stopScheduler: timers, watchdog and the queue in memory; the mirror in  *)
(* store.pendingQueue stays.                                               *)
stopScheduler(s) == [s EXCEPT !.queue = <<>>, !.watchdog = FALSE]

-----------------------------------------------------------------------------
(* Guard.                                                                  *)
releaseRoutineTurn(s) == [s EXCEPT !.turn = FALSE]

shouldFireHook(s, r) ==
  \/ HookOnce[r] = "always"
  \/ HookOnce[r] = "per_session" /\ r \notin s.hookFires
  \/ HookOnce[r] = "daily" /\ s.store.onceDay[r] # day

commitHookFire(s, r) ==
  CASE HookOnce[r] = "per_session" -> [s EXCEPT !.hookFires = @ \cup {r}]
    [] HookOnce[r] = "daily" -> [s EXCEPT !.store.onceDay[r] = day]
    [] OTHER -> s

-----------------------------------------------------------------------------
(* Drain and fire.                                                         *)

\* Mutant: the flag of a drain in progress is not reset when the loop ends.
drainStuck(s, idle) ==
  IF s.queue = <<>> \/ s.turn \/ ~idle
  THEN [s EXCEPT !.drain = "save", !.held = NoEntry, !.watchdog = s.queue # <<>>]
  ELSE [awaitSave(persistQueue([s EXCEPT !.queue = Tail(@)]), "drain")
          EXCEPT !.drain = "persist", !.held = Head(s.queue)]

\* Mutant: the removal of the entry is not mirrored before its turn opens.
drainUnmirrored(s, idle) ==
  IF s.queue = <<>> \/ s.turn \/ ~idle
  THEN [s EXCEPT !.drain = "no", !.held = NoEntry, !.watchdog = s.queue # <<>>]
  ELSE [awaitSave([s EXCEPT !.queue = Tail(@)], "drain")
          EXCEPT !.drain = "persist", !.held = Head(s.queue)]

(* drainQueue from the head of its loop to its next await: take the head   *)
(* off and persist the removal, or leave, reconciling the watchdog.        *)
drainLoop(s, idle) ==
  IF s.queue = <<>> \/ s.turn \/ ~idle
  THEN [s EXCEPT !.drain = "no", !.held = NoEntry, !.watchdog = s.queue # <<>>]
  ELSE [awaitSave(persistQueue([s EXCEPT !.queue = Tail(@)]), "drain")
          EXCEPT !.drain = "persist", !.held = Head(s.queue)]

(* drainQueue as called: a drain in progress makes it return at once.      *)
drainQueue(s, idle) == IF s.drain # "no" THEN s ELSE drainLoop(s, idle)

(* fireRoutine's gates: maxTicks deletes the routine, the daily cap skips  *)
(* the fire (and spends a daily hook's mark). Manual and deferred fires    *)
(* are exempt from the cap.                                                *)
budgetExempt(e) == e.kind = "manual" \/ e.deferred # 0
usedToday(st, r) == IF st.usedDay[r] = day THEN st.used[r] ELSE 0
Exhausted(s, e) == MaxTicks[e.r] > 0 /\ s.store.ticks[e.r] >= MaxTicks[e.r]
Capped(s, e) == /\ MaxRunsPerDay[e.r] > 0 /\ ~budgetExempt(e)
                /\ usedToday(s.store, e.r) >= MaxRunsPerDay[e.r]

forgetRoutine(s, r) ==
  LET st == s.store
  IN [s EXCEPT !.store = [st EXCEPT !.live = st.live \ {r}, !.paused = st.paused \ {r},
                                    !.ticks[r] = 0, !.used[r] = 0, !.usedDay[r] = 0,
                                    !.onceDay[r] = 0]]

deleteExhausted(s, e) ==
  [awaitSave(forgetRoutine(removeDeferredHook(s, e), e.r), "drain")
     EXCEPT !.drain = "save", !.held = NoEntry, !.fate[e.run] = "gone"]

skipCapped(s, e) ==
  LET s1 == IF e.kind = "hook" /\ HookOnce[e.r] = "daily" THEN commitHookFire(s, e.r) ELSE s
  IN recordRun(s1, e.run, "skipped")

(* The turn opens: guard, pendingRun, message, tick state.                 *)
openTurn(s, e) ==
  LET st == s.store
      n == usedToday(st, e.r)
      s1 == [s EXCEPT !.turn = TRUE, !.pendingRun = [run |-> e.run, r |-> e.r],
                      !.opens[e.run] = s.opens[e.run] + 1, !.fate[e.run] = "opened",
                      !.store = [st EXCEPT !.ticks[e.r] = st.ticks[e.r] + 1,
                                           !.used[e.r] = IF budgetExempt(e) THEN n ELSE n + 1,
                                           !.usedDay[e.r] = day]]
      s2 == IF e.kind = "hook" /\ e.deferred = 0 THEN commitHookFire(s1, e.r) ELSE s1
  IN [awaitSave(removeDeferredHook(s2, e), "drain")
        EXCEPT !.drain = "save", !.held = NoEntry]

(* The guard was taken meanwhile, or the message was refused: release the  *)
(* guard and record the error.                                             *)
failTurn(s, e) ==
  [recordRun(releaseRoutineTurn(s), e.run, "error") EXCEPT !.pendingRun = NoRun]

(* drainQueue past `await persistQueue`: what becomes of the entry held.   *)
(* refused: sendUserMessage throws, the session being replaced.            *)
Opens(s, refused) == LET e == s.held IN
  /\ e.r \in s.store.live
  /\ e.r \in s.store.paused => e.kind = "manual"
  /\ ~Exhausted(s, e) /\ ~Capped(s, e) /\ ~s.turn /\ ~refused

afterPersist(s, idle, refused) == LET e == s.held IN
  CASE e.r \notin s.store.live ->
         IF e.deferred = 0 THEN drainLoop([s EXCEPT !.fate[e.run] = "gone"], idle)
         ELSE [awaitSave(removeDeferredHook(s, e), "drain")
                 EXCEPT !.drain = "save", !.held = NoEntry, !.fate[e.run] = "gone"]
    [] e.r \in s.store.live /\ e.r \in s.store.paused /\ e.kind # "manual" ->
         drainLoop(recordRun(removeDeferredHook(s, e), e.run, "skipped"), idle)
    [] OTHER ->
         CASE Exhausted(s, e) -> deleteExhausted(s, e)
           [] ~Exhausted(s, e) /\ Capped(s, e) -> drainLoop(skipCapped(s, e), idle)
           [] Opens(s, refused) -> openTurn(s, e)
           [] OTHER -> drainLoop(failTurn(s, e), idle)

-----------------------------------------------------------------------------
(* The write chain.                                                        *)
SaveEnd ==
  /\ rt.dirty
  /\ disk' = rt.store
  /\ rt' = [rt EXCEPT !.dirty = FALSE, !.awaiting = {}, !.arrived = @ \cup rt.awaiting]
  /\ UNCHANGED <<phase, start, agent, ours, day, sessions, edits, lost>>

(* The drain resumes once its write is on disk.                            *)
DrainResume(refused) ==
  LET s == [rt EXCEPT !.arrived = @ \ {"drain"}]
      idle == agent = "idle"
  IN
  /\ "drain" \in rt.arrived
  /\ refused => phase = "closing" /\ rt.drain = "persist"
  /\ IF rt.drain = "persist" /\ Opens(s, refused)
     THEN agent' = "busy" /\ ours' = TRUE
     ELSE UNCHANGED <<agent, ours>>
  /\ rt' = IF rt.drain = "persist" THEN afterPersist(s, idle, refused)
           ELSE drainLoop(s, idle)
  /\ UNCHANGED <<disk, phase, start, day, sessions, edits, lost>>

(* The watchdog's interval.                                                *)
WatchdogTick ==
  /\ rt.watchdog
  /\ rt' = IF rt.queue = <<>> THEN [rt EXCEPT !.watchdog = FALSE]
           ELSE drainQueue(rt, agent = "idle")
  /\ rt' # rt
  /\ UNCHANGED <<disk, phase, start, agent, ours, day, sessions, edits, lost>>

-----------------------------------------------------------------------------
(* What asks for a fire.                                                   *)

(* enqueueTriggerFire: a due pulse or cron timer. Paused, within 500 ms of *)
(* another trigger of the routine (near), running or queued: dropped.      *)
TimerFire(r, near) ==
  /\ phase = "ready" /\ r \in HasTimer \cap rt.store.live /\ rt.next <= MaxRuns
  /\ rt' = IF \/ near \/ r \in rt.store.paused \/ queueHasRoutine(rt, r)
              \/ rt.pendingRun # NoRun /\ rt.pendingRun.r = r
           THEN saveStore(rt)
           ELSE drainQueue(newFire(rt, r, "timer", 0, FALSE), agent = "idle")
  /\ UNCHANGED <<disk, phase, start, agent, ours, day, sessions, edits, lost>>

(* enqueueFireRequest: an HTTP request or a GitHub event; the web server   *)
(* and a poll in progress outlive the session.                             *)
FireRequest(r) ==
  /\ phase \in {"ready", "closing"} /\ start.ui
  /\ r \in HasApi \cap rt.store.live /\ rt.next <= MaxRuns
  /\ rt' = IF r \in rt.store.paused THEN saveStore(rt)
           ELSE drainQueue(newFire(rt, r, "api", 0, FALSE), agent = "idle")
  /\ lost' = IF phase = "closing" /\ r \notin rt.store.paused
             THEN lost \cup RunsOf(rt.store.pending) \cup {rt.next} ELSE lost
  /\ UNCHANGED <<disk, phase, start, agent, ours, day, sessions, edits>>

(* /routine-run-now.                                                       *)
RunNow(r) ==
  /\ phase = "ready" /\ r \in rt.store.live /\ rt.next <= MaxRuns
  /\ ~rt.turn /\ ~queueHasRoutine(rt, r)
  /\ rt' = drainQueue(newFire(rt, r, "manual", 0, FALSE), agent = "idle")
  /\ UNCHANGED <<disk, phase, start, agent, ours, day, sessions, edits, lost>>

setPaused(r) ==
  /\ phase = "ready" /\ r \in rt.store.live
  /\ edits < MaxEdits /\ edits' = edits + 1
  /\ rt' = saveStore([rt EXCEPT !.store.paused =
                        IF r \in @ THEN @ \ {r} ELSE @ \cup {r}])
  /\ UNCHANGED <<disk, phase, start, agent, ours, day, sessions, lost>>

(* deleteRoutine: the routine, its deferred hooks and its queued fires, in *)
(* memory and in the mirror.                                               *)
deleteRoutine(r) ==
  LET others(q) == Kept(q, {i \in DOMAIN q : q[i].r # r})
      m == forgetRoutine(rt, r)
      queue == others(rt.queue)
      gone == {e.run : e \in {x \in ToSet(rt.queue) : x.r = r}}
  IN
  /\ phase = "ready" /\ r \in rt.store.live
  /\ edits < MaxEdits /\ edits' = edits + 1
  /\ rt' = saveStore([m EXCEPT
                        !.store = [m.store EXCEPT !.deferred = others(m.store.deferred),
                                                  !.pending = others(m.store.pending)],
                        !.queue = queue,
                        !.watchdog = m.watchdog /\ queue # <<>>,
                        !.fate = [n \in Runs |-> IF n \in gone THEN "gone" ELSE rt.fate[n]]])
  /\ UNCHANGED <<disk, phase, start, agent, ours, day, sessions, lost>>

-----------------------------------------------------------------------------
(* Hooks of the session's lifecycle.                                       *)

(* pickHookRoutines and enqueueHookFire for one routine.                   *)
enqueueHookFire(s, r) ==
  IF r \in s.store.paused THEN saveStore(s)
  ELSE IF ~shouldFireHook(s, r) THEN s
  ELSE IF Len(s.queue) >= MaxQueueDepth THEN saveStore(s)
  ELSE newFire(s, r, "hook", 0, FALSE)

HookRoutines(s, event) == {r \in s.store.live : HookEvent[r] = event}

(* promoteDeferredHooks: queue the captured shutdown hooks while there is  *)
(* room; that of a routine that is paused or gone is dropped.              *)
promote(q, acc, d) ==
  IF \/ Len(acc.queue) >= MaxQueueDepth
     \/ \E i \in DOMAIN q : q[i].deferred = d.id /\ q[i].r = d.r
  THEN acc
  ELSE IF d.r \notin acc.store.live \/ d.r \in acc.store.paused
       THEN saveStore(removeDeferredHook(acc, [deferred |-> d.id, r |-> d.r]))
  ELSE newFire(acc, d.r, "hook", d.id, TRUE)

promoteDeferredHooks(s) ==
  FoldLeft(LAMBDA acc, d : promote(s.queue, acc, d), s, s.store.deferred)

(* captureDeferredShutdownHooks: a quit keeps, per routine, the newest     *)
(* capture; the list is bounded.                                           *)
captureDeferred(s, r) ==
  IF r \in s.store.paused \/ ~shouldFireHook(s, r) THEN s
  ELSE LET hooks == s.store.deferred
           others == Kept(hooks, {i \in DOMAIN hooks : hooks[i].r # r})
           room == IF Len(others) >= MaxDeferred
                   THEN SubSeq(others, Len(others) - MaxDeferred + 2, Len(others)) ELSE others
       IN commitHookFire([s EXCEPT !.store.deferred = Append(room, [id |-> sessions, r |-> r])], r)

captureDeferredShutdownHooks(s) ==
  FoldSet(LAMBDA r, acc : captureDeferred(acc, r), s, HookRoutines(s, "session_shutdown"))

(* agent_end: the run flag is still set, so nothing drains here. The guard *)
(* says whether the run was a routine's; only a user's run may queue the   *)
(* agent_end hook.                                                         *)
agentEndRuntime(s) ==
  LET s1 == IF s.turn /\ s.pendingRun # NoRun
            THEN [recordRun(s, s.pendingRun.run, "recorded") EXCEPT !.pendingRun = NoRun] ELSE s
      s2 == drainQueue(promoteDeferredHooks(releaseRoutineTurn(s1)), FALSE)
  IN IF s.turn THEN s2
     ELSE FoldSet(LAMBDA r, acc : enqueueHookFire(acc, r), s2, HookRoutines(s2, "agent_end"))

AgentEnd ==
  /\ agent = "busy" /\ phase = "ready"
  /\ rt' = agentEndRuntime(rt)
  /\ agent' = "ending" /\ ours' = FALSE
  /\ UNCHANGED <<disk, phase, start, day, sessions, edits, lost>>

(* agent_settled: the run flag has cleared, unless another extension's     *)
(* message has started the next run already.                               *)
AgentSettled(taken) ==
  /\ agent = "ending" /\ phase = "ready"
  /\ agent' = IF taken THEN "busy" ELSE "idle"
  /\ rt' = IF rt.turn THEN rt ELSE drainQueue(rt, ~taken)
  /\ UNCHANGED <<disk, phase, start, ours, day, sessions, edits, lost>>

UserPrompt ==
  /\ agent = "idle" /\ phase = "ready"
  /\ agent' = "busy"
  /\ UNCHANGED <<rt, disk, phase, start, ours, day, sessions, edits, lost>>

-----------------------------------------------------------------------------
(* Sessions.                                                               *)

(* session_start up to `await loadStore`.                                  *)
SessionStart(gap, ui) ==
  LET reload == phase = "reloading" IN
  /\ phase \in {"off", "reloading", "replaced"} /\ sessions < MaxSessions
  /\ phase # "off" => ui = start.ui
  /\ gap # "short" => phase = "off" /\ day < MaxDay
  /\ sessions' = sessions + 1
  /\ day' = IF gap = "short" THEN day ELSE day + 1
  /\ start' = [reload |-> reload, gap |-> gap, ui |-> ui]
  /\ rt' = stopScheduler(releaseRoutineTurn(
             [rt EXCEPT !.hookFires = IF reload THEN @ ELSE {}]))
  /\ phase' = "loading"
  /\ UNCHANGED <<disk, agent, ours, edits, lost>>

(* loadStore and pruneExpiredDeferredHooks. A save still on the chain      *)
(* keeps the store object it was called with. The fires of a routine that  *)
(* is gone are dropped here, its deletion having left them in the mirror.  *)
(* A print-mode session goes no further.                                   *)
sanitizeStore(st) ==
  LET known(q) == Kept(q, {i \in DOMAIN q : q[i].r \in st.live})
      fires == known(st.pending)
  IN [st EXCEPT !.pending = IF Len(fires) <= MaxQueueDepth THEN fires
                            ELSE SubSeq(fires, 1, MaxQueueDepth),
                !.deferred = known(@)]

loadStore(s) ==
  LET loaded == sanitizeStore(disk)
      st == IF start.gap = "week" THEN [loaded EXCEPT !.deferred = <<>>] ELSE loaded
      orphans == {e.run : e \in {x \in ToSet(disk.pending) : x.r \notin disk.live}}
  IN [s EXCEPT !.store = st, !.pendingRun = NoRun,
               !.fate = [n \in Runs |-> IF n \in orphans THEN "gone" ELSE s.fate[n]]]

(* rehydrateQueuedFires.                                                   *)
rehydrate(acc, e) ==
  LET single == e.kind # "api" IN
  IF \/ e.kind = "hook" /\ HookEvent[e.r] = "session_start"
     \/ e.r \in acc.store.paused
     \/ start.gap # "short"
     \/ single /\ queueHasRoutine(acc, e.r)
  THEN recordRun(acc, e.run, "skipped")
  ELSE enqueueRoutineFire(acc, e, FALSE)

rehydrateQueuedFires(s) ==
  IF s.store.pending = <<>> THEN s
  ELSE FoldLeft(rehydrate, saveStore([s EXCEPT !.store.pending = <<>>]), s.store.pending)

(* catchUpMissedTicks: one fire for each timer routine that missed a slot. *)
catchUpMissedTicks(s, missed) ==
  FoldSet(LAMBDA r, acc : IF \/ r \in acc.store.paused \/ queueHasRoutine(acc, r)
                             \/ acc.pendingRun # NoRun /\ acc.pendingRun.r = r
                          THEN acc ELSE newFire(acc, r, "timer", 0, FALSE),
          s, missed \cap s.store.live)

(* session_start past `await loadStore`. Without a user interface the      *)
(* handler returns here; restarting the web server awaits too, but nothing *)
(* of the scheduler is live meanwhile.                                     *)
readyRuntime(s, missed) ==
  LET s1 == catchUpMissedTicks(rehydrateQueuedFires(s), missed)
      s2 == IF start.reload THEN s1 ELSE promoteDeferredHooks(s1)
      fresh == {r \in HookRoutines(s2, "session_start") :
                  ~(start.reload /\ HookOnce[r] = "per_session")}
  IN FoldSet(LAMBDA r, acc : enqueueHookFire(acc, r), s2, fresh)

SessionReady(missed) ==
  /\ phase = "loading" /\ (~start.ui => missed = {})
  /\ IF start.ui
     THEN /\ rt' = drainQueue(readyRuntime(loadStore(rt), missed), agent = "idle")
          /\ phase' = "ready"
     ELSE /\ rt' = loadStore(rt)
          /\ phase' = "headless"
  /\ start' = [start EXCEPT !.reload = FALSE, !.gap = "short"]
  /\ UNCHANGED <<disk, agent, ours, day, sessions, edits, lost>>

(* session_shutdown up to `await saveStore`: the open run is recorded as   *)
(* interrupted, a quit captures the shutdown hooks.                        *)
SessionShutdown(reason) ==
  LET s1 == stopScheduler(rt)
      s2 == IF s1.pendingRun = NoRun THEN s1
            ELSE [recordRun(s1, s1.pendingRun.run, "interrupted") EXCEPT !.pendingRun = NoRun]
      s3 == releaseRoutineTurn(s2)
      s4 == IF reason = "quit" /\ phase = "ready" THEN captureDeferredShutdownHooks(s3) ELSE s3
  IN
  /\ phase \in {"ready", "headless"}
  /\ rt' = awaitSave(s4, reason)
  /\ phase' = "closing"
  /\ lost' = lost \cup InHand(rt)
  /\ UNCHANGED <<disk, start, agent, ours, day, sessions, edits>>

(* The handler has returned. The process ends, or pi loads the extension   *)
(* again: a new instance, whose generation makes the old one's writes      *)
(* stale; the marks of per-session hooks are on globalThis.                *)
SessionClosed(reason) ==
  /\ phase = "closing" /\ reason \in rt.arrived
  /\ rt' = FreshRuntime(IF reason = "quit" THEN {} ELSE rt.hookFires,
                        rt.fate, rt.opens, rt.next)
  /\ phase' = CASE reason = "reload" -> "reloading" [] reason = "new" -> "replaced" [] OTHER -> "off"
  /\ agent' = "idle" /\ ours' = FALSE
  /\ UNCHANGED <<disk, start, day, sessions, edits, lost>>

(* The process dies with its memory; a write is whole (rename) or absent.  *)
(* A turn that was open died with pi.  What else is lost is the fire in    *)
(* the drain's hand and the ones whose write is still on the chain.        *)
Crash ==
  /\ phase # "off"
  /\ rt' = FreshRuntime({}, [n \in Runs |-> IF rt.fate[n] = "opened" THEN "died" ELSE rt.fate[n]],
                        rt.opens, rt.next)
  /\ lost' = lost \cup InHand(rt) \cup
              (IF rt.dirty THEN RunsOf(rt.store.pending) \ RunsOf(disk.pending) ELSE {})
  /\ phase' = "off" /\ agent' = "idle" /\ ours' = FALSE
  /\ UNCHANGED <<disk, start, day, sessions, edits>>

-----------------------------------------------------------------------------
Next ==
  \/ SaveEnd \/ WatchdogTick
  \/ \E refused \in BOOLEAN : DrainResume(refused)
  \/ \E r \in Routines, near \in BOOLEAN : TimerFire(r, near)
  \/ \E r \in Routines : FireRequest(r)
  \/ \E r \in ByHand : RunNow(r)
  \/ \E r \in ByHand : setPaused(r)
  \/ \E r \in ByHand : deleteRoutine(r)
  \/ AgentEnd \/ UserPrompt \/ Crash
  \/ \E taken \in BOOLEAN : AgentSettled(taken)
  \/ \E gap \in {"short", "day", "week"}, ui \in BOOLEAN : SessionStart(gap, ui)
  \/ \E missed \in SUBSET HasTimer : SessionReady(missed)
  \/ \E reason \in {"quit", "reload", "new"} : SessionShutdown(reason)
  \/ \E reason \in {"quit", "reload", "new"} : SessionClosed(reason)

(* The event loop runs what is due: a write proceeds, an awaited one       *)
(* resumes its handler, timers tick, a run of the agent ends.  Strong      *)
(* fairness of a free settle: other extensions do not start a run at every *)
(* settle for ever.                                                        *)
Fairness ==
  /\ WF_vars(SaveEnd) /\ WF_vars(DrainResume(FALSE))
  /\ WF_vars(WatchdogTick) /\ WF_vars(AgentEnd)
  /\ WF_vars(\E taken \in BOOLEAN : AgentSettled(taken))
  /\ SF_vars(AgentSettled(FALSE))
  /\ WF_vars(\E reason \in {"quit", "reload", "new"} : SessionClosed(reason))

Spec == Init /\ [][Next]_vars /\ Fairness

-----------------------------------------------------------------------------
(* No fire vanishes: one that was accepted is queued, in the drain's hand, *)
(* in the mirror or, between sessions, on disk; one whose turn is open is  *)
(* the pending run. stopScheduler empties the queue, session_start reads   *)
(* it back and a crash may come at any point between.  The fires the code  *)
(* does lose are named where it loses them: by a crash the one in the      *)
(* drain's hand and those not written yet, by a shutdown the one in the    *)
(* drain's hand, and by a request that is answered while the session       *)
(* closes the ones its persistQueue takes out of the mirror, and its own.  *)
FireAccounted ==
  \A n \in Runs \ lost :
    /\ rt.fate[n] = "issued" =>
         \/ n \in RunsOf(rt.queue) \cup RunsOf(rt.store.pending) \cup InHand(rt)
         \/ phase \in {"off", "reloading", "replaced", "loading"} /\ n \in RunsOf(disk.pending)
    /\ rt.fate[n] = "opened" => rt.pendingRun # NoRun /\ rt.pendingRun.run = n

(* What stopScheduler and the README promise of a teardown: no write of a  *)
(* session that closes takes a fire off the disk that still waits. Not     *)
(* kept: while session_shutdown awaits its save the API server goes on,    *)
(* and the persistQueue of a fire that arrives mirrors the queue that      *)
(* stopScheduler has emptied.                                              *)
QuitLosesNothing ==
  [][SaveEnd /\ phase = "closing" =>
       \A n \in RunsOf(disk.pending) \ InHand(rt) :
         rt.fate[n] = "issued" => n \in RunsOf(disk'.pending)]_vars

(* What persistQueue promises of a crash, "at-least-once": a fire that was *)
(* accepted, and is on no write that pends, has opened a turn or is on     *)
(* disk to be read back. Not kept: drainQueue writes the removal of the    *)
(* entry, and opens its turn only after that write.                        *)
AtLeastOnce ==
  [][Crash => \A n \in InHand(rt) : rt.dirty \/ n \in RunsOf(disk.pending)]_vars

(* drainQueue persists the removal of an entry before it opens the turn:   *)
(* no crash, reload or restart makes one fire open two turns.              *)
FiredOnce == \A n \in Runs : rt.opens[n] <= 1

(* Only a run of the user's queues the agent_end hook: the run of a        *)
(* routine never chains into another routine's.                            *)
NoChain ==
  AgentEnd /\ ours =>
    \A n \in RunsOf(rt'.queue) \ RunsOf(rt.queue) :
      \E i \in DOMAIN rt'.queue : rt'.queue[i].run = n /\ rt'.queue[i].deferred # 0

(* An accepted fire opens one turn, and that turn opens no other: crashes, *)
(* reloads, drainQueue and the agent_end hook together.                    *)
FiresExact == [][NoChain /\ FiredOnce']_vars

(* A queued fire does not starve, although drainQueue gives up whenever a  *)
(* turn or another drain is open: armDrainWatchdog.                        *)
NoStarvation == \A n \in Runs : n \in RunsOf(rt.queue) ~> n \notin RunsOf(rt.queue)
=============================================================================
