------------------------------ MODULE Schedule ------------------------------
(***************************************************************************)
(* pi-subagents/src/schedule.ts and schedule-store.ts: jobs that start a   *)
(* subagent later.  Each session has a file of jobs; the scheduler is      *)
(* bound to one session at a time and keeps a timer for each enabled job.  *)
(* The lock file is the one of TaskStore: a mutation is one step here.     *)
(***************************************************************************)
EXTENDS Integers, FiniteSets

CONSTANTS
  SessionIds,
  Jobs,       \* job ids; a job keeps its name, so names are unique when ids are
  Targets,    \* times of one-shot jobs
  Period,     \* intervalMs of interval jobs
  TimerLimit, \* the longest delay setTimeout keeps; a longer one becomes 1 ms
  MaxClock,   \* bound: time
  MaxStarts   \* bound: runs of a job in flight

ASSUME ScheduleAssumption ==
  /\ Period \in Nat \ {0} /\ TimerLimit \in Nat /\ MaxClock \in Nat /\ MaxStarts \in Nat
  /\ Targets \subseteq Nat /\ "none" \notin SessionIds

Unset == -1

VARIABLES
  jobFile,   \* the jobs of each session
  here,      \* the session the scheduler is bound to, or "none"
  offered,   \* isSchedulingEnabled()
  armed,     \* when the timer of each job is due, or Unset
  clock,
  flying,    \* agents a job started that have not settled, per session and job
  early      \* one-shot jobs that started before their time

schvars == <<jobFile, here, offered, armed, clock, flying, early>>

NoJob == [type |-> "none", at |-> 0, enabled |-> FALSE, lastStatus |-> "none"]

ScheduleInit ==
  /\ jobFile = [s \in SessionIds |-> [j \in Jobs |-> NoJob]]
  /\ here = "none" /\ offered \in BOOLEAN /\ armed = [j \in Jobs |-> Unset] /\ clock = 0
  /\ flying = [s \in SessionIds |-> [j \in Jobs |-> 0]] /\ early = {}

-----------------------------------------------------------------------------
(* ScheduleStore: add, update and remove, on the map of one session; an    *)
(* update of an unknown id changes nothing.                                *)
Stored(J, j) == J[j].type # "none"
add(J, j, job) == [J EXCEPT ![j] = job]
update(J, j, job) == IF Stored(J, j) THEN [J EXCEPT ![j] = job] ELSE J
remove(J, j) == [J EXCEPT ![j] = NoJob]

(* setTimeout and setInterval.                                             *)
timerDue(delay) == clock + (IF delay > TimerLimit THEN 0 ELSE delay)

(* scheduleJob: the timer of a job ...                                     *)
scheduleJob(job) ==
  CASE job.type = "interval" -> timerDue(Period)
    [] job.type = "once" -> IF job.at > clock THEN timerDue(job.at - clock) ELSE Unset
    [] OTHER -> clock + 1

(* ... and the job, which is given up when its time has passed.            *)
scheduled(job) ==
  IF job.type = "once" /\ job.at <= clock
  THEN [job EXCEPT !.enabled = FALSE, !.lastStatus = "error"] ELSE job

Arm(job) == IF job.enabled THEN scheduleJob(job) ELSE Unset
Rest(job) == IF job.enabled THEN scheduled(job) ELSE job

-----------------------------------------------------------------------------
(* start, from session_start.                                              *)
startScheduler(s) ==
  LET J == jobFile[s] IN
  /\ offered /\ here = "none"
  /\ here' = s
  /\ armed' = [j \in Jobs |-> Arm(J[j])]
  /\ jobFile' = [jobFile EXCEPT ![s] = [j \in Jobs |-> Rest(J[j])]]
  /\ UNCHANGED <<offered, clock, flying, early>>

\* Mutant: the timers go on ticking.
stopDeaf == here' = "none" /\ UNCHANGED armed

stop == here' = "none" /\ armed' = [j \in Jobs |-> Unset]

(* session_before_switch and session_shutdown.                             *)
SessionEnds == here # "none" /\ stop /\ UNCHANGED <<jobFile, offered, clock, flying, early>>

(* The process dies, and its agents with it; the files stay.               *)
Crash ==
  /\ stop /\ flying' = [s \in SessionIds |-> [j \in Jobs |-> 0]]
  /\ UNCHANGED <<jobFile, offered, clock, early>>

(* The setting: turned off, the scheduler stops at once; turned on, the    *)
(* next session starts it.                                                 *)
ToggleScheduling ==
  /\ offered' = ~offered
  /\ IF offered THEN stop ELSE UNCHANGED <<here, armed>>
  /\ UNCHANGED <<jobFile, clock, flying, early>>

(* addJob, by the Agent tool with schedule: a time in the past is refused. *)
addJob(j, type, at) ==
  LET job == [NoJob EXCEPT !.type = type, !.at = at, !.enabled = TRUE] IN
  /\ offered /\ here # "none" /\ ~Stored(jobFile[here], j)
  /\ type = "once" => at > clock
  /\ jobFile' = [jobFile EXCEPT ![here] = add(@, j, job)]
  /\ armed' = [armed EXCEPT ![j] = Arm(job)]
  /\ UNCHANGED <<here, offered, clock, flying, early>>

(* removeJob, by the menu.                                                 *)
removeJob(j) ==
  /\ here # "none" /\ Stored(jobFile[here], j)
  /\ jobFile' = [jobFile EXCEPT ![here] = remove(@, j)]
  /\ armed' = [armed EXCEPT ![j] = Unset]
  /\ UNCHANGED <<here, offered, clock, flying, early>>

updateJob(j, enabled) ==
  /\ here # "none" /\ Stored(jobFile[here], j)
  /\ LET job == [jobFile[here][j] EXCEPT !.enabled = enabled] IN
     /\ jobFile' = [jobFile EXCEPT ![here] = update(@, j, Rest(job))]
     /\ armed' = [armed EXCEPT ![j] = Arm(job)]
  /\ UNCHANGED <<here, offered, clock, flying, early>>

-----------------------------------------------------------------------------
(* executeJob: the job as it becomes, whether the spawn succeeds or not.   *)
executeJob(job, ok) == [job EXCEPT !.lastStatus = IF ok THEN "running" ELSE "error"]

(* The timer of a job is due: interval and cron timers are set again, a    *)
(* one-shot job is disabled.                                               *)
TimerFires(j, ok) ==
  LET job == jobFile[here][j]
      after == executeJob(job, ok)
  IN
  /\ armed[j] # Unset /\ armed[j] <= clock /\ here # "none"
  /\ flying[here][j] < MaxStarts
  /\ jobFile' = [jobFile EXCEPT ![here] = update(@, j, [after EXCEPT !.enabled = @ /\ job.type # "once"])]
  /\ armed' = [armed EXCEPT ![j] = IF job.type = "once" THEN Unset ELSE scheduleJob(job)]
  /\ flying' = IF ok THEN [flying EXCEPT ![here][j] = @ + 1] ELSE flying
  /\ early' = IF ok /\ job.type = "once" /\ clock < job.at THEN early \cup {j} ELSE early
  /\ UNCHANGED <<here, offered, clock>>

(* finalize: the agent has settled; the job is in the store it was started *)
(* from, if it still is.                                                   *)
finalize(s, j, status) ==
  /\ flying[s][j] > 0
  /\ flying' = [flying EXCEPT ![s][j] = @ - 1]
  /\ jobFile' = [jobFile EXCEPT ![s] = update(@, j, [@[j] EXCEPT !.lastStatus = status])]
  /\ UNCHANGED <<here, offered, armed, clock, early>>

(* Timers are not kept waiting.                                            *)
Tick ==
  /\ clock < MaxClock /\ \A j \in Jobs : armed[j] = Unset \/ armed[j] > clock
  /\ clock' = clock + 1
  /\ UNCHANGED <<jobFile, here, offered, armed, flying, early>>

ScheduleNext ==
  \/ SessionEnds \/ Crash \/ ToggleScheduling \/ Tick
  \/ \E s \in SessionIds : startScheduler(s)
  \/ \E j \in Jobs :
       \/ \E at \in Targets : addJob(j, "once", at)
       \/ \E type \in {"interval", "cron"} : addJob(j, type, 0)
       \/ removeJob(j)
       \/ \E enabled \in BOOLEAN : updateJob(j, enabled)
       \/ \E ok \in BOOLEAN : TimerFires(j, ok)
       \/ \E s \in SessionIds, status \in {"success", "error"} : finalize(s, j, status)

ScheduleSpec == ScheduleInit /\ [][ScheduleNext]_schvars

-----------------------------------------------------------------------------
(* Through switches, crashes, settings, edits and agents that settle in    *)
(* another session than they were started from, a timer is set exactly for *)
(* the enabled jobs of the session in use: no job is forgotten, and none   *)
(* of another session, or removed, or disabled, goes on starting agents.   *)
TimersMatchJobs ==
  \A j \in Jobs : armed[j] # Unset <=> here # "none" /\ jobFile[here][j].enabled

(* A job asked for later does not start now.  Not kept: a delay above the  *)
(* limit of Node's timers fires at once (scheduleJob).                     *)
NotBeforeTime == early = {}
=============================================================================
