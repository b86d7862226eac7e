------------------------------ MODULE Notices ------------------------------
(***************************************************************************)
(* pi-subagents/src/index.ts and group-join.ts: how the main agent learns  *)
(* that a background agent has ended.  Agents spawned within 100 ms form a *)
(* batch; two or more of them form a group, reported together or, 30 s     *)
(* after the first of them, in part; every notice is held for 200 ms, so   *)
(* that reading the result can take its place.                             *)
(***************************************************************************)
EXTENDS Naturals, Sequences, SequencesExt

CONSTANTS
  Ids,      \* background agents
  MaxTurns  \* bound: runs of one agent

ASSUME NoticesAssumption == MaxTurns \in Nat

VARIABLES
  note,      \* each AgentRecord, with what the last message said of it
  batch,     \* currentBatchAgents
  batchTimer,\* batchFinalizeTimer is set
  groups,    \* GroupJoinManager.groups by number: batchCounter is their count
  groupOf,   \* agentToGroup, 0 for none
  nudges,    \* pendingNudges: the ids a held notice is about, with its kind
  session    \* "up" until session_shutdown

nvars == <<note, batch, batchTimer, groups, groupOf, nudges, session>>

Fresh == [status |-> "none", flights |-> 0, completedAt |-> FALSE, consumed |-> FALSE,
          waited |-> FALSE, turns |-> 0, told |-> FALSE, over |-> FALSE]

NoticesInit ==
  /\ note = [a \in Ids |-> Fresh]
  /\ batch = <<>> /\ batchTimer = FALSE /\ groups = <<>>
  /\ groupOf = [a \in Ids |-> 0] /\ nudges = {} /\ session = "up"

-----------------------------------------------------------------------------
(* Held notices: a timer per key.                                          *)
Nudge(kind, ids) == [kind |-> kind, ids |-> ids]
scheduleNudge(N, key) == N \cup {key}
cancelNudge(N, a) == N \ {Nudge("one", <<a>>)}

sendIndividualNudge(N, a) == scheduleNudge(N, Nudge("one", <<a>>))
deliverCb(N, ids) == scheduleNudge(N, Nudge("group", ids))

(* What is left to say when the timer fires.                               *)
unconsumed(ids) == {a \in ToSet(ids) : ~note[a].consumed}

(* emitIndividualNudge, and the callback of a group's notice.  A message   *)
(* sent after the shutdown throws, and the timer swallows it.              *)
NudgeFires(key) ==
  /\ key \in nudges /\ nudges' = nudges \ {key}
  /\ note' = [a \in Ids |-> IF a \in unconsumed(key.ids) /\ session = "up"
                            THEN [note[a] EXCEPT !.told = TRUE] ELSE note[a]]
  /\ UNCHANGED <<batch, batchTimer, groups, groupOf, session>>

-----------------------------------------------------------------------------
(* GroupJoinManager, on a state [g: groups, of: groupOf, n: nudges].       *)
Joins == [g |-> groups, of |-> groupOf, n |-> nudges]

registerGroup(J, ids) ==
  [J EXCEPT !.g = Append(@, [ids |-> ToSet(ids), completed |-> <<>>, timer |-> FALSE, live |-> TRUE]),
            !.of = [a \in Ids |-> IF a \in ToSet(ids) THEN Len(J.g) + 1 ELSE J.of[a]]]

(* deliver and cleanupGroup.                                               *)
deliver(J, k, completed) ==
  [g |-> [J.g EXCEPT ![k] = [ids |-> {}, completed |-> <<>>, timer |-> FALSE, live |-> FALSE]],
   of |-> [a \in Ids |-> IF a \in J.g[k].ids THEN 0 ELSE J.of[a]],
   n |-> deliverCb(J.n, completed)]

Passes(J, a) == J.of[a] = 0 \/ ~J.g[J.of[a]].live

(* Not called, or without effect, on an agent in no live group.            *)
onAgentComplete(J, a) ==
  LET k == J.of[a]
      completed == IF a \in ToSet(J.g[k].completed) THEN J.g[k].completed
                   ELSE Append(J.g[k].completed, a)
  IN IF Passes(J, a) THEN J
     ELSE IF Len(completed) >= Cardinality(J.g[k].ids) THEN deliver(J, k, completed)
     ELSE [J EXCEPT !.g[k] = [@ EXCEPT !.completed = completed, !.timer = TRUE]]

(* onTimeout: what has completed is reported, the rest is a straggler      *)
(* group, whose timer starts when the next of them completes.              *)
onTimeout(k) ==
  LET group == groups[k] IN
  /\ group.timer
  /\ groups' = [groups EXCEPT ![k] = [group EXCEPT !.ids = group.ids \ ToSet(group.completed),
                                                   !.completed = <<>>, !.timer = FALSE]]
  /\ groupOf' = [a \in Ids |-> IF a \in ToSet(group.completed) THEN 0 ELSE groupOf[a]]
  /\ nudges' = deliverCb(nudges, group.completed)
  /\ UNCHANGED <<note, batch, batchTimer, session>>

SetJoins(J) == groups' = J.g /\ groupOf' = J.of /\ nudges' = J.n

-----------------------------------------------------------------------------
(* finalizeBatch: agents that completed meanwhile were left to it.         *)
Completed(a) == note[a].completedAt /\ ~note[a].consumed
joinCompleted(J, a) == IF Completed(a) THEN onAgentComplete(J, a) ELSE J
nudgeCompleted(N, a) == IF Completed(a) THEN sendIndividualNudge(N, a) ELSE N

\* Mutant: those that completed meanwhile are not looked at.
finalizeForgetful ==
  /\ batchTimer /\ batchTimer' = FALSE /\ batch' = <<>>
  /\ IF Len(batch) >= 2 THEN SetJoins(registerGroup(Joins, batch))
     ELSE UNCHANGED <<groups, groupOf, nudges>>
  /\ UNCHANGED <<note, session>>

finalizeBatch ==
  /\ batchTimer /\ batchTimer' = FALSE /\ batch' = <<>>
  /\ IF Len(batch) >= 2 THEN SetJoins(FoldLeft(joinCompleted, registerGroup(Joins, batch), batch))
     ELSE nudges' = FoldLeft(nudgeCompleted, nudges, batch) /\ UNCHANGED <<groups, groupOf>>
  /\ UNCHANGED <<note, session>>

(* Batching of a new run, unless the join mode is async.                   *)
Batched(a, joinMode) ==
  IF joinMode = "async" THEN UNCHANGED <<batch, batchTimer>>
  ELSE batch' = Append(batch, a) /\ batchTimer' = TRUE

(* A run that begins, at once or behind the concurrency limit.             *)
NewRun(a, status) ==
  note' = [note EXCEPT ![a] = [Fresh EXCEPT !.status = status, !.turns = note[a].turns + 1,
             !.waited = note[a].waited,
             !.flights = IF status = "running" THEN note[a].flights + 1 ELSE note[a].flights]]

(* The Agent tool with run_in_background.                                  *)
SpawnInBackground(a, status, joinMode) ==
  /\ session = "up" /\ note[a].status = "none" /\ MaxTurns > 0
  /\ NewRun(a, status) /\ Batched(a, joinMode)
  /\ UNCHANGED <<groups, groupOf, nudges, session>>

startBackgroundResume(a, status, joinMode) ==
  /\ note[a].turns < MaxTurns
  /\ NewRun(a, status) /\ Batched(a, joinMode)
  /\ UNCHANGED <<groups, groupOf, nudges, session>>

(* The Agent tool with resume: refused for an agent that has not ended.    *)
ResumeInBackground(a, status, joinMode) ==
  /\ session = "up" /\ note[a].status = "ended"
  /\ startBackgroundResume(a, status, joinMode)

(* `@handle message' in the prompt: steers an agent that runs, whose       *)
(* answer is then unread again, and resumes one that has ended.            *)
Mention(a, status, joinMode) ==
  /\ session = "up"
  /\ \/ /\ note[a].status \in {"running", "queued"}
        /\ note' = [note EXCEPT ![a].consumed = FALSE]
        /\ UNCHANGED <<batch, batchTimer, groups, groupOf, nudges, session>>
     \/ note[a].status = "ended" /\ startBackgroundResume(a, status, joinMode)

Start(a) ==
  /\ note[a].status = "queued"
  /\ note' = [note EXCEPT ![a] = [@ EXCEPT !.status = "running", !.flights = note[a].flights + 1]]
  /\ UNCHANGED <<batch, batchTimer, groups, groupOf, nudges, session>>

(* AgentManager.abort: at once for the record, later for the run.          *)
Abort(a) ==
  /\ note[a].status \in {"running", "queued"}
  /\ note' = [note EXCEPT ![a] = [@ EXCEPT !.status = "ended", !.completedAt = TRUE]]
  /\ UNCHANGED <<batch, batchTimer, groups, groupOf, nudges, session>>

(* The callback a settled run ends in.                                     *)
onComplete(a, consumed) ==
  IF consumed \/ a \in ToSet(batch) THEN Joins
  ELSE IF Passes(Joins, a) THEN [Joins EXCEPT !.n = sendIndividualNudge(@, a)]
  ELSE onAgentComplete(Joins, a)

(* A run settles; a call of get_subagent_result that awaited it reads the  *)
(* result before any timer fires.                                          *)
Settle(a) ==
  LET J == onComplete(a, note[a].consumed)
      read == note[a].waited
  IN
  /\ note[a].flights > 0
  /\ note' = [note EXCEPT ![a] = [@ EXCEPT !.flights = note[a].flights - 1, !.completedAt = TRUE, !.over = TRUE,
                !.status = "ended", !.waited = FALSE, !.consumed = note[a].consumed \/ read]]
  /\ SetJoins([J EXCEPT !.n = IF read THEN cancelNudge(@, a) ELSE @])
  /\ UNCHANGED <<batch, batchTimer, session>>

-----------------------------------------------------------------------------
(* get_subagent_result: read at once, or wait.  The notice is cancelled    *)
(* under the name the caller used, which may be the agent's handle.        *)
GetResult(a, byId) ==
  /\ session = "up" /\ note[a].status = "ended" /\ ~note[a].consumed
  /\ note' = [note EXCEPT ![a].consumed = TRUE]
  /\ nudges' = IF byId THEN cancelNudge(nudges, a) ELSE nudges
  /\ UNCHANGED <<batch, batchTimer, groups, groupOf, session>>

GetResultWaits(a) ==
  /\ session = "up" /\ note[a].status \in {"queued", "running"} /\ ~note[a].waited
  /\ note' = [note EXCEPT ![a].waited = TRUE]
  /\ UNCHANGED <<batch, batchTimer, groups, groupOf, nudges, session>>

(* The call is cancelled: the result stays unread.                         *)
WaitCancelled(a) ==
  /\ note[a].waited
  /\ note' = [note EXCEPT ![a].waited = FALSE]
  /\ UNCHANGED <<batch, batchTimer, groups, groupOf, nudges, session>>

(* The poll finds that the agent was stopped in the queue.                 *)
PollEnds(a) ==
  /\ note[a].waited /\ note[a].status = "ended" /\ note[a].flights = 0
  /\ note' = [note EXCEPT ![a] = [@ EXCEPT !.waited = FALSE, !.consumed = TRUE]]
  /\ nudges' = cancelNudge(nudges, a)
  /\ UNCHANGED <<batch, batchTimer, groups, groupOf, session>>

(* The consume request of another extension, always by id.                 *)
consumeResult(a) == GetResult(a, TRUE)

(* session_shutdown: the agents are aborted and held notices dropped.      *)
Shutdown ==
  /\ session = "up" /\ session' = "down"
  /\ note' = [a \in Ids |-> IF note[a].status \in {"running", "queued"}
                            THEN [note[a] EXCEPT !.status = "ended", !.completedAt = TRUE] ELSE note[a]]
  /\ nudges' = {}
  /\ UNCHANGED <<batch, batchTimer, groups, groupOf>>

NoticesNext ==
  \/ finalizeBatch \/ Shutdown
  \/ \E k \in DOMAIN groups : onTimeout(k)
  \/ \E key \in nudges : NudgeFires(key)
  \/ \E a \in Ids :
       \/ \E status \in {"queued", "running"}, joinMode \in {"async", "smart"} :
            \/ SpawnInBackground(a, status, joinMode)
            \/ ResumeInBackground(a, status, joinMode)
            \/ Mention(a, status, joinMode)
       \/ Start(a) \/ Abort(a) \/ Settle(a)
       \/ GetResult(a, FALSE) \/ consumeResult(a)
       \/ GetResultWaits(a) \/ WaitCancelled(a) \/ PollEnds(a)

NoticesSpec == NoticesInit /\ [][NoticesNext]_nvars

-----------------------------------------------------------------------------
(* The main agent is told of every run that settled and whose result it    *)
(* has not read, whatever of its batch ends first, ends before the batch   *)
(* is closed or is read out of the group: while it has not been told, a    *)
(* timer is set that will report it.                                       *)
NoticeHeld ==
  \A a \in Ids :
    /\ session = "up" /\ note[a].status = "ended"
    /\ note[a].over /\ note[a].flights = 0 /\ ~note[a].consumed /\ ~note[a].told
    => \/ batchTimer /\ a \in ToSet(batch)
       \/ \E key \in nudges : a \in ToSet(key.ids)
       \/ \E k \in DOMAIN groups : groups[k].timer /\ a \in ToSet(groups[k].completed)

(* A result that was read is not reported: read during the 200 ms, by id   *)
(* or by handle, out of a group or alone.                                  *)
ReadNotReported ==
  \A a \in Ids : note[a].consumed /\ note'[a].consumed /\ ~note[a].told => ~note'[a].told

(* Every end of a background agent reaches the main agent, through the     *)
(* notice or through a read, and never through both: emitIndividualNudge,  *)
(* the delivery of a group and finalizeBatch.                              *)
ToldOrRead == [][ReadNotReported /\ NoticeHeld']_nvars
=============================================================================
