---------------------------- MODULE RoutineTimers ----------------------------
(***************************************************************************)
(* pi-routines: the timers of one routine's trigger within a session.      *)
(* scheduler.ts arms a chain of timeouts for a pulse or cron trigger, one  *)
(* timeout for a one-off, and github-poller.ts a chain of polls, each of   *)
(* which awaits the gh process and then the store.  tools/_mutate.ts       *)
(* creates, updates, pauses and deletes the routine in between.            *)
(*                                                                         *)
(* An update builds new trigger objects; a poll in progress still holds    *)
(* the old one, so trigger objects have version numbers.  GitHub events    *)
(* are numbered in the order they happen; a poll sees the newest PageSize. *)
(***************************************************************************)
EXTENDS Integers, FiniteSets, FiniteSetsExt

CONSTANTS
  TriggerKinds,   \* kinds a trigger may have
  PageSize,       \* events in one page of results
  MaxVersions,    \* bound: times the routine is created or updated
  MaxEvents,      \* bound: GitHub events
  MaxTimers,      \* bound: timeouts ever set
  Interval,       \* PulseTrigger.intervalMs, in minutes
  BACKOFF_THRESHOLD, BACKOFF_FACTOR, BACKOFF_MAX_MULTIPLIER,
  BACKOFF_MAX_INTERVAL,
  MaxStreak       \* bound: consecutive silent or failed ticks

ASSUME TimersAssumption ==
  /\ TriggerKinds \subseteq {"pulse", "cron", "oneoff", "github", "hook"}
  /\ PageSize \in Nat \ {0} /\ Interval \in Nat \ {0}
  /\ {MaxVersions, MaxEvents, MaxTimers, MaxStreak, BACKOFF_THRESHOLD,
      BACKOFF_FACTOR, BACKOFF_MAX_MULTIPLIER, BACKOFF_MAX_INTERVAL} \subseteq Nat

VARIABLES
  ver,      \* version of the routine in the store, 0 when it is not there
  made,     \* versions made so far
  kind,     \* kind of each version's trigger
  paused,   \* Routine.paused
  spent,    \* versions whose one-off has fired
  known,    \* runtime.timers has an entry for the routine
  handle,   \* the timeout in that entry, 0 for null
  timers,   \* pending timeouts: [id, ver, kind]
  lastId,   \* timeouts set so far
  creating, \* versions whose createRoutine awaits its save
  polls,    \* polls in progress: [id, ver, page, stage]
  cursor,   \* per version, GithubTrigger.cursor (0: undefined)
  events,   \* events that have happened
  fired,    \* per event, the fires it was given
  skipped,  \* events recorded as skipped, the routine being paused
  missed,   \* events a poll moved the cursor over unseen: before a seed, or off the page
  tick,     \* consecutiveSilentTicks and consecutiveErrorTicks
  delay,    \* delay of the last pulse armed
  overlap   \* history: an update or a deletion met a poll in progress

tvars == <<ver, made, kind, paused, spent, known, handle, timers, lastId, creating,
           polls, cursor, events, fired, skipped, missed, tick, delay, overlap>>

Versions == 1..MaxVersions
Live == ver # 0

TimersInit ==
  /\ ver = 0 /\ made = 0 /\ kind = [v \in Versions |-> "hook"]
  /\ paused = FALSE /\ spent = {} /\ known = FALSE /\ handle = 0
  /\ timers = {} /\ lastId = 0 /\ creating = {} /\ polls = {}
  /\ cursor = [v \in Versions |-> 0] /\ events = 0
  /\ fired = [e \in 1..MaxEvents |-> 0] /\ skipped = {} /\ missed = {}
  /\ tick = [silent |-> 0, errored |-> 0] /\ delay = 0 /\ overlap = FALSE

-----------------------------------------------------------------------------
computePulseInterval(t) ==
  LET streak == Max({t.silent, t.errored})
      multiplier == Min({BACKOFF_MAX_MULTIPLIER,
                         BACKOFF_FACTOR ^ (streak - BACKOFF_THRESHOLD + 1)})
  IN IF streak < BACKOFF_THRESHOLD THEN Interval
     ELSE Min({Interval * multiplier, BACKOFF_MAX_INTERVAL})

(* armTrigger for version v: the timeout it sets, or none. An armed pulse  *)
(* looks the routine up first.                                             *)
Arms(v) ==
  CASE kind[v] = "pulse" -> Live /\ ~paused
    [] kind[v] = "oneoff" -> v \notin spent
    [] kind[v] \in {"cron", "github"} -> TRUE
    [] OTHER -> FALSE

NewTimer(v) == [id |-> lastId + 1, ver |-> v, kind |-> kind[v]]

(* clearTimeout of the handle in runtime.timers.                           *)
Cleared == {t \in timers : ~known \/ t.id # handle}

unscheduleRoutine == known' = FALSE /\ handle' = 0 /\ timers' = Cleared

\* Mutant: the timers of the version before are left running.
scheduleOver(v) ==
  /\ known' = Arms(v)
  /\ handle' = IF Arms(v) THEN lastId + 1 ELSE 0
  /\ timers' = timers \cup (IF Arms(v) THEN {NewTimer(v)} ELSE {})
  /\ lastId' = IF Arms(v) THEN lastId + 1 ELSE lastId
  /\ delay' = IF Arms(v) /\ kind[v] = "pulse" THEN computePulseInterval(tick) ELSE delay

(* scheduleRoutine: clear, then arm every trigger.                         *)
scheduleRoutine(v) ==
  /\ known' = Arms(v)
  /\ handle' = IF Arms(v) THEN lastId + 1 ELSE 0
  /\ timers' = Cleared \cup (IF Arms(v) THEN {NewTimer(v)} ELSE {})
  /\ lastId' = IF Arms(v) THEN lastId + 1 ELSE lastId
  /\ delay' = IF Arms(v) /\ kind[v] = "pulse" THEN computePulseInterval(tick) ELSE delay

(* A timeout's callback arms its successor; the handle is stored only if   *)
(* runtime.timers still has the routine's entry.                           *)
Rearm(t) ==
  /\ timers' = (timers \ {t}) \cup {[t EXCEPT !.id = lastId + 1]}
  /\ handle' = IF known THEN lastId + 1 ELSE handle
  /\ lastId' = lastId + 1

-----------------------------------------------------------------------------
(* createRoutine up to `await saveStore`: the routine, or an update of it  *)
(* under the same id, whose timers are cleared.                            *)
createRoutine(k) ==
  /\ Live \/ made = 0
  /\ made < MaxVersions /\ lastId < MaxTimers
  /\ made' = made + 1 /\ ver' = made + 1
  /\ kind' = [kind EXCEPT ![made + 1] = k]
  /\ creating' = creating \cup {made + 1}
  /\ IF Live THEN unscheduleRoutine ELSE UNCHANGED <<known, handle, timers>>
  /\ overlap' = (overlap \/ polls # {})
  /\ UNCHANGED <<paused, spent, lastId, polls, cursor, events, fired, skipped, missed, tick, delay>>

(* createRoutine past the save; saves end in the order they began.         *)
ScheduleCreated(v) ==
  /\ v \in creating /\ (\A u \in creating : v <= u) /\ lastId < MaxTimers
  /\ creating' = creating \ {v}
  /\ scheduleRoutine(v)
  /\ overlap' = (overlap \/ polls # {})
  /\ UNCHANGED <<ver, made, kind, paused, spent, polls, cursor, events, fired, skipped, missed, tick>>

PauseOrResume ==
  /\ Live /\ paused' = ~paused
  /\ UNCHANGED <<ver, made, kind, spent, known, handle, timers, lastId, creating, polls,
                 cursor, events, fired, skipped, missed, tick, delay, overlap>>

(* deleteRoutine; a routine created later has another id and other timers. *)
DeleteLive ==
  /\ Live /\ unscheduleRoutine
  /\ ver' = 0 /\ overlap' = (overlap \/ polls # {})
  /\ UNCHANGED <<made, kind, paused, spent, lastId, creating, polls, cursor, events, fired,
                 skipped, missed, tick, delay>>

-----------------------------------------------------------------------------
(* A pulse is due: enqueue (RoutineFires), then arm the next with the      *)
(* delay the counters ask for now. A paused routine's chain ends here.     *)
PulseFire(t) ==
  /\ t \in timers /\ t.kind = "pulse" /\ lastId < MaxTimers
  /\ IF known /\ Live /\ ~paused
     THEN Rearm(t) /\ delay' = computePulseInterval(tick)
     ELSE timers' = timers \ {t} /\ UNCHANGED <<handle, lastId, delay>>
  /\ UNCHANGED <<ver, made, kind, paused, spent, known, creating, polls, cursor, events,
                 fired, skipped, missed, tick, overlap>>

(* A cron slot is due: the chain goes on while the routine is stored.      *)
CronFire(t) ==
  /\ t \in timers /\ t.kind = "cron" /\ lastId < MaxTimers
  /\ IF Live THEN Rearm(t) ELSE timers' = timers \ {t} /\ UNCHANGED <<handle, lastId>>
  /\ UNCHANGED <<ver, made, kind, paused, spent, known, creating, polls, cursor, events,
                 fired, skipped, missed, tick, delay, overlap>>

OneoffFire(t) ==
  /\ t \in timers /\ t.kind = "oneoff"
  /\ spent' = spent \cup {t.ver}
  /\ timers' = timers \ {t}
  /\ handle' = IF known THEN 0 ELSE handle
  /\ UNCHANGED <<ver, made, kind, paused, known, lastId, creating, polls, cursor, events,
                 fired, skipped, missed, tick, delay, overlap>>

(* The turn of a fire ends: updateSilentCounter and updateErrorCounter,    *)
(* which matter to a pulse.                                                *)
RunEnds(status) ==
  /\ Live /\ kind[ver] = "pulse"
  /\ tick' = CASE status = "silent" -> [silent |-> tick.silent + 1, errored |-> 0]
              [] status = "success" -> [silent |-> 0, errored |-> 0]
              [] status = "error" -> [tick EXCEPT !.errored = @ + 1]
  /\ tick'.silent <= MaxStreak /\ tick'.errored <= MaxStreak
  /\ UNCHANGED <<ver, made, kind, paused, spent, known, handle, timers, lastId, creating,
                 polls, cursor, events, fired, skipped, missed, delay, overlap>>

-----------------------------------------------------------------------------
(* GitHub.                                                                 *)
OnGithub == Live /\ kind[ver] = "github"

NewEvent ==
  /\ events < MaxEvents /\ OnGithub /\ events' = events + 1
  /\ UNCHANGED <<ver, made, kind, paused, spent, known, handle, timers, lastId, creating,
                 polls, cursor, fired, skipped, missed, tick, delay, overlap>>

(* The poll's timeout: a routine that is gone, of another kind or paused   *)
(* makes no request. The request shows the events of the moment.           *)
tickGithub(t) ==
  /\ t \in timers /\ t.kind = "github" /\ lastId < MaxTimers
  /\ IF OnGithub /\ ~paused
     THEN /\ polls' = polls \cup {[id |-> t.id, ver |-> ver, page |-> events, stage |-> "gh"]}
          /\ timers' = timers \ {t}
          /\ UNCHANGED <<handle, lastId>>
     ELSE /\ IF OnGithub THEN Rearm(t)
             ELSE timers' = timers \ {t} /\ UNCHANGED <<handle, lastId>>
          /\ UNCHANGED polls
  /\ UNCHANGED <<ver, made, kind, paused, spent, known, creating, cursor, events, fired,
                 skipped, missed, tick, delay, overlap>>

(* eventsAfterCursor: the events of the page after the cursor; a first     *)
(* poll seeds the cursor, one whose cursor left the page skips ahead.      *)
OnPage(newest) == {e \in 1..newest : e > newest - PageSize}
eventsAfterCursor(newest, c) ==
  IF c \in OnPage(newest) THEN {e \in OnPage(newest) : e > c} ELSE {}

(* The gh process has answered: enqueueFireRequest for each fresh event,   *)
(* which queues it for a routine that is there, records it as skipped if   *)
(* the routine is paused by now, and clears the timers of one that is      *)
(* gone; then move the cursor and save.  The cursor is that of the trigger *)
(* the poll began with, read now.                                          *)
PollAnswered(p) ==
  LET c == cursor[p.ver]
      fresh == eventsAfterCursor(p.page, c)
      enqueued == IF Live /\ ~paused THEN fresh ELSE {}
  IN
  /\ p \in polls /\ p.stage = "gh"
  /\ fired' = [e \in DOMAIN fired |-> fired[e] + IF e \in enqueued THEN 1 ELSE 0]
  /\ skipped' = IF Live /\ paused THEN skipped \cup fresh ELSE skipped
  /\ IF ~Live /\ fresh # {} THEN unscheduleRoutine ELSE UNCHANGED <<known, handle, timers>>
  /\ cursor' = [cursor EXCEPT ![p.ver] = IF p.page = 0 THEN @ ELSE p.page]
  /\ missed' = missed \cup ((c + 1..p.page) \ fresh)
  /\ polls' = (polls \ {p}) \cup {[p EXCEPT !.stage = "save"]}
  /\ UNCHANGED <<ver, made, kind, paused, spent, lastId, creating, events, tick, delay,
                 overlap>>

(* gh failed: only the delay differs.                                      *)
PollFailed(p) ==
  /\ p \in polls /\ p.stage = "gh"
  /\ polls' = (polls \ {p}) \cup {[p EXCEPT !.stage = "save"]}
  /\ UNCHANGED <<ver, made, kind, paused, spent, known, handle, timers, lastId, creating,
                 cursor, events, fired, skipped, missed, tick, delay, overlap>>

(* The poll is over: the next one, if the routine still has the trigger.   *)
PollRearm(p) ==
  /\ p \in polls /\ p.stage = "save" /\ lastId < MaxTimers
  /\ polls' = polls \ {p}
  /\ IF OnGithub
     THEN /\ timers' = timers \cup {[id |-> lastId + 1, ver |-> p.ver, kind |-> "github"]}
          /\ handle' = IF known THEN lastId + 1 ELSE handle
          /\ lastId' = lastId + 1
     ELSE UNCHANGED <<timers, handle, lastId>>
  /\ UNCHANGED <<ver, made, kind, paused, spent, known, creating, cursor, events, fired,
                 skipped, missed, tick, delay, overlap>>

TimersNext ==
  \/ \E k \in TriggerKinds : createRoutine(k)
  \/ \E v \in Versions : ScheduleCreated(v)
  \/ PauseOrResume \/ DeleteLive \/ NewEvent
  \/ \E t \in timers : PulseFire(t)
  \/ \E t \in timers : CronFire(t)
  \/ \E t \in timers : OneoffFire(t)
  \/ \E t \in timers : tickGithub(t)
  \/ \E status \in {"silent", "success", "error"} : RunEnds(status)
  \/ \E p \in polls : PollAnswered(p)
  \/ \E p \in polls : PollFailed(p)
  \/ \E p \in polls : PollRearm(p)

TimersSpec == TimersInit /\ [][TimersNext]_tvars

-----------------------------------------------------------------------------
Chains == Cardinality(timers) + Cardinality(polls)

(* A stored routine whose schedule is in place has exactly the timers its  *)
(* trigger calls for, whatever pauses, updates and deletions met its       *)
(* callbacks: one chain of a cron trigger, one timeout of a one-off until  *)
(* it fires, at most one chain of a pulse, one chain of polls.  After an   *)
(* update that overtook a poll there may be more of them, never none.      *)
TimersArmed ==
  Live /\ creating = {} =>
    CASE kind[ver] \in {"cron", "github"} -> Chains >= 1 /\ (~overlap => Chains = 1)
      [] kind[ver] = "oneoff" /\ ver \notin spent -> Chains >= 1 /\ (~overlap => Chains = 1)
      [] kind[ver] = "pulse" -> ~overlap => Chains <= 1
      [] OTHER -> ~overlap => Chains = 0

(* No event that a page still showed after the seed is lost: whatever      *)
(* edits, pauses and other polls came during the request, one the cursor   *)
(* has passed was queued, or recorded as skipped because the routine was   *)
(* paused when the answer came.  Unless an update overtook a poll, it was  *)
(* one of the two, once.                                                   *)
EachEventOnce ==
  \A e \in 1..MaxEvents :
    /\ OnGithub /\ e <= cursor[ver] /\ e \notin missed => fired[e] >= 1 \/ e \in skipped
    /\ ~overlap => fired[e] <= 1 /\ (e \in skipped => fired[e] = 0)

(* A trigger acts exactly as often as it should: one chain of timers or    *)
(* polls, one fire for each event (armTrigger, tickGithub).                *)
TriggersExact == TimersArmed /\ EachEventOnce

(* scheduleRoutine clears "any existing timers for this id" first, so that *)
(* an update leaves one chain.  Not kept: a poll in progress is no timer,  *)
(* and arms its successor next to the new one.                             *)
RestartLeavesOneChain == Live /\ creating = {} => Chains <= 1

(* Backing off never makes a routine fire more often than its interval.    *)
(* Not kept: computePulseIntervalMs caps the result below a long interval. *)
BackoffLengthens == delay # 0 => delay >= Interval
==============================================================================
