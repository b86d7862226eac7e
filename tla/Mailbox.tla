------------------------------ MODULE Mailbox ------------------------------
(***************************************************************************)
(* pi-sidebar/extensions/sidebar/mailbox: a file of intents that anybody   *)
(* may drop, the tools with which the sessions of a workspace claim them,  *)
(* break them down and close them, and the machine that wakes one session, *)
(* Me, when mail has come and nobody is talking.  The lock file is the one *)
(* of TaskStore: a mutation is one step.                                   *)
(***************************************************************************)
EXTENDS Integers, FiniteSets, FiniteSetsExt

CONSTANTS
  Owners,     \* sessions with the tools
  Me,         \* the session whose wake machine is modelled
  MaxId,      \* bound: task ids on the board
  MaxIntents, \* bound: intents dropped
  Dates       \* values of createdAt

ASSUME MailboxAssumption ==
  Me \in Owners /\ {MaxId, MaxIntents} \subseteq Nat /\ Dates \subseteq Nat

MailIds == 1..MaxId

VARIABLES
  mail,      \* the tasks of the file
  garbled,   \* the file does not parse
  machine,   \* the wake machine of Me
  polling,   \* mailboxTimer is set
  busy,      \* the host is in a turn, or between two turns of a tool chain
  told,      \* notes spent on each intent of this session's mail
  barged     \* notes sent while the host was busy

history == <<told, barged>>
mailvars == <<mail, garbled, machine, polling, busy, history>>

Absent == [type |-> "none", status |-> "pending", owner |-> "none", source |-> 0,
           createdAt |-> 0, blocks |-> {}, blockedBy |-> {}]

Never == [i \in MailIds |-> 0]

NoMachine == [on |-> FALSE, idle |-> FALSE, wakePending |-> FALSE, timerArmed |-> FALSE,
              observed |-> {}, pending |-> {}, count |-> Never, quiet |-> {}]

MailboxInit ==
  /\ mail = [i \in MailIds |-> Absent] /\ garbled = FALSE
  /\ machine = NoMachine /\ polling = FALSE /\ busy = FALSE
  /\ told = Never /\ barged = 0

-----------------------------------------------------------------------------
(* The file.                                                               *)
Present == {i \in MailIds : mail[i].type # "none"}
isUnclaimedIntent(i) ==
  mail[i].type = "intent" /\ mail[i].status = "pending" /\ mail[i].owner = "none"
read == IF garbled THEN {} ELSE Present
unclaimedIntents == {i \in read : isUnclaimedIntent(i)}
compareFifo(a, b) ==
  \/ mail[a].createdAt < mail[b].createdAt
  \/ mail[a].createdAt = mail[b].createdAt /\ a < b
openChildTasks(i) == {c \in Present : mail[c].source = i /\ mail[c].status # "completed"}
allocateTaskIds(n) == LET top == Max(Present \cup {0}) IN (top + 1)..(top + n)

(* mutate: the file is read again under the lock and refused when garbled. *)
mutate(tasks) ==
  ~garbled /\ mail' = tasks /\ UNCHANGED <<garbled, machine, polling, busy, history>>

(* Anybody drops an intent; an owner that is not a string counts as one.   *)
Drop(i, date, owner) ==
  /\ i \notin Present /\ Cardinality({j \in Present : mail[j].type = "intent"}) < MaxIntents
  /\ mutate([mail EXCEPT ![i] = [Absent EXCEPT !.type = "intent", !.createdAt = date, !.owner = owner]])

(* ... or leaves the file half-written, and mends it.                      *)
Garble ==
  /\ garbled' = ~garbled
  /\ UNCHANGED <<mail, machine, polling, busy, history>>

mailbox_claim(me, i) ==
  /\ mail[i].type = "intent" /\ mail[i].status = "pending" /\ mail[i].owner = "none"
  /\ mutate([mail EXCEPT ![i] = [@ EXCEPT !.status = "in_progress", !.owner = me]])

(* n plan tasks; the last one is blocked by `after' and blocks `before'.   *)
(* Each blocker is told; a blocked task is not.                            *)
Children(i, n, after, before) ==
  LET new == allocateTaskIds(n)
      last == Max(new)
      known == (Present \cup new) \ {last}
      plan(c) == [Absent EXCEPT !.type = "plan", !.source = i,
                    !.blockedBy = IF c = last THEN after \cap known ELSE {},
                    !.blocks = IF c = last THEN before \cap known ELSE {}]
      heard(t, c) == [t EXCEPT !.blocks = @ \cup (IF c \in after \cap known THEN {last} ELSE {})]
  IN [c \in MailIds |-> heard(IF c \in new THEN plan(c) ELSE mail[c], c)]

\* Mutant: the intent stays as it is.
breakdownClosed(me, i, n, after, before) ==
  /\ mail[i].type = "intent" /\ mail[i].owner = me /\ mail[i].status # "pending"
  /\ allocateTaskIds(n) \subseteq MailIds
  /\ mutate([Children(i, n, after, before) EXCEPT ![i] = mail[i]])

(* Its owner breaks an intent down: it is in progress then, even if it was *)
(* closed, and it hears of no task that it blocks.                         *)
mailbox_breakdown(me, i, n, after, before) ==
  /\ mail[i].type = "intent" /\ mail[i].owner = me /\ mail[i].status # "pending"
  /\ allocateTaskIds(n) \subseteq MailIds
  /\ mutate([Children(i, n, after, before) EXCEPT ![i] = [mail[i] EXCEPT !.status = "in_progress"]])

mailbox_update(c, status) ==
  /\ mail[c].type = "plan" /\ (mail[c].status = "completed" => status = "completed")
  /\ mutate([mail EXCEPT ![c] = [@ EXCEPT !.status = status]])

(* Any session closes an intent, claimed or not.                           *)
mailbox_complete(i) ==
  /\ mail[i].type = "intent" /\ mail[i].status # "completed" /\ openChildTasks(i) = {}
  /\ mutate([mail EXCEPT ![i] = [@ EXCEPT !.status = "completed"]])

-----------------------------------------------------------------------------
(* The wake machine M: what it has observed, what it still owes a note     *)
(* (pending), how often each intent was announced (count), and which of    *)
(* them have been quiet for the backoff.                                   *)
forget(M, gone) ==
  [M EXCEPT !.observed = @ \ gone, !.pending = @ \ gone, !.quiet = @ \ gone,
            !.count = [i \in MailIds |-> IF i \in gone THEN 0 ELSE @[i]]]

(* One more note about an intent, ever.                                    *)
backoffElapsed(M, i) == M.count[i] <= 1 /\ i \in M.quiet

first(M) == CHOOSE i \in M.pending : \A j \in M.pending \ {i} : compareFifo(i, j)

\* Mutant: the intents that are owed nothing are forgotten too.
fireForgetting(M, sent) ==
  LET K == forget(M, M.observed \ (M.pending \cap unclaimedIntents))
      i == first(K)
      L == [K EXCEPT !.pending = @ \ {i}, !.count[i] = @ + 1, !.quiet = @ \ {i},
                     !.wakePending = K.pending # {i}]
  IN IF ~sent THEN [K EXCEPT !.wakePending = TRUE]
     ELSE [L EXCEPT !.timerArmed = @ /\ L.wakePending]

(* fire, with something to say: the oldest intent owed a note is           *)
(* announced, unless the send throws.                                      *)
fire(M, sent) ==
  LET K == forget(M, M.pending \ unclaimedIntents)
      i == first(K)
      L == [K EXCEPT !.pending = @ \ {i}, !.count[i] = @ + 1, !.quiet = @ \ {i},
                     !.wakePending = K.pending # {i}]
  IN IF ~sent THEN [K EXCEPT !.wakePending = TRUE]
     ELSE [L EXCEPT !.timerArmed = @ /\ L.wakePending]

(* fire: what was claimed meanwhile is dropped first.                      *)
fired(M, sent) ==
  IF M.pending \cap unclaimedIntents = {}
  THEN [forget(M, M.pending) EXCEPT !.wakePending = FALSE] ELSE fire(M, sent)
Spoke(M, sent) == sent /\ M.pending \cap unclaimedIntents # {}

(* The notes, as the properties count them.  A note is spent on the first  *)
(* intent that is owed one.  An unreadable file reads as an empty one:     *)
(* what was seen is gone, and is new mail when it is back.                 *)
Note(M, speaks, seen) ==
  LET i == first(forget(M, M.pending \ unclaimedIntents))
      lost == IF garbled THEN seen ELSE {}
  IN
  /\ told' = IF speaks THEN [told EXCEPT ![i] = @ + 1]
             ELSE [j \in MailIds |-> IF j \in lost THEN 0 ELSE told[j]]
  /\ barged' = IF speaks /\ busy' THEN barged + 1 ELSE barged

polled(M) ==
  LET K == forget(M, M.observed \ unclaimedIntents)
      new == {i \in unclaimedIntents : K.count[i] = 0}
      again == {i \in unclaimedIntents \ new : backoffElapsed(K, i)}
      L == [K EXCEPT !.observed = @ \cup new, !.pending = @ \cup new \cup again]
  IN [L EXCEPT !.wakePending = L.pending # {}]

(* poll, and a note at once if nobody talks.                               *)
pollMailbox(M, sent) ==
  LET K == polled(M)
      fires == K.wakePending /\ K.idle
  IN /\ machine' = IF fires THEN fired(K, sent) ELSE K
     /\ Note(K, fires /\ Spoke(K, sent), M.observed)

-----------------------------------------------------------------------------
(* The host's events.                                                      *)
(* The first session opens the overlay, polls and starts the timer; when   *)
(* it is still open, or there is no screen, only the machine is made.      *)
session_start(opens, sent) ==
  LET M == [NoMachine EXCEPT !.on = TRUE, !.idle = TRUE] IN
  /\ ~machine.on
  /\ polling' = opens /\ UNCHANGED <<mail, garbled, busy>>
  /\ IF opens THEN pollMailbox(M, sent) ELSE machine' = M /\ UNCHANGED history

session_shutdown ==
  /\ machine.on /\ ~busy
  /\ machine' = NoMachine /\ polling' = FALSE
  /\ told' = Never
  /\ UNCHANGED <<mail, garbled, busy, barged>>

MailboxTick(sent) ==
  /\ polling /\ machine.on /\ UNCHANGED <<mail, garbled, polling, busy>>
  /\ pollMailbox(machine, sent)

onTurnStart ==
  /\ machine.on /\ busy' = TRUE
  /\ machine' = [machine EXCEPT !.idle = FALSE]
  /\ UNCHANGED <<mail, garbled, polling, history>>

(* onTurnEnd: a turn that called tools is no boundary.                     *)
turnEnded(M, toolCalls) ==
  IF toolCalls THEN M
  ELSE [M EXCEPT !.idle = TRUE, !.timerArmed = @ \/ (M.wakePending /\ M.pending # {})]

(* turn_end: the chain goes on after tool calls, unless the user stops it; *)
(* the mailbox is polled at once, whatever the debounce.                   *)
turn_end(toolCalls, over, sent) ==
  /\ machine.on /\ busy /\ (~toolCalls => over)
  /\ busy' = ~over
  /\ UNCHANGED <<mail, garbled, polling>>
  /\ pollMailbox(turnEnded(machine, toolCalls), sent)

(* The debounce timer.                                                     *)
DebounceFires(sent) ==
  LET M == [machine EXCEPT !.timerArmed = FALSE] IN
  /\ machine.timerArmed /\ UNCHANGED <<mail, garbled, polling, busy>>
  /\ machine' = IF M.idle THEN fired(M, sent) ELSE M
  /\ Note(M, M.idle /\ Spoke(M, sent), IF M.idle THEN M.pending ELSE {})

(* backoffMs pass after the announcement of i.                             *)
BackoffPasses(i) ==
  /\ machine.count[i] > 0 /\ i \notin machine.quiet
  /\ machine' = [machine EXCEPT !.quiet = @ \cup {i}]
  /\ UNCHANGED <<mail, garbled, polling, busy, history>>

(* What senders and tools do to the mail, the steps of the work it is      *)
(* broken down into, and what the host and the clock do to the machine.    *)
MailNext ==
  \/ Garble
  \/ \E i \in MailIds, date \in Dates, owner \in {"none", "malformed"} : Drop(i, date, owner)
  \/ \E me \in Owners, i \in MailIds : mailbox_claim(me, i)
  \/ \E i \in MailIds : mailbox_complete(i)

PlanNext ==
  \/ \E me \in Owners, i \in MailIds, n \in 1..2, after, before \in {{}} \cup {{c} : c \in MailIds} :
       mailbox_breakdown(me, i, n, after, before)
  \/ \E c \in MailIds, status \in {"pending", "in_progress", "completed"} : mailbox_update(c, status)

WakeNext ==
  \/ session_shutdown \/ onTurnStart
  \/ \E i \in MailIds : BackoffPasses(i)
  \/ \E sent \in BOOLEAN :
       \/ \E opens \in BOOLEAN : session_start(opens, sent)
       \/ MailboxTick(sent) \/ DebounceFires(sent)
       \/ \E toolCalls, over \in BOOLEAN : turn_end(toolCalls, over, sent)

MailboxNext == MailNext \/ PlanNext \/ WakeNext

MailboxSpec == MailboxInit /\ [][MailboxNext]_mailvars

-----------------------------------------------------------------------------
(* Whatever two sessions do to the board, a closed intent has no open      *)
(* step, and a task that is blocked is named by the one that blocks it     *)
(* (mailbox_breakdown, mailbox_complete) - unless that is the intent the   *)
(* task is a step of.                                                      *)
ClosedMeansDone ==
  \A i \in Present :
    /\ mail[i].type = "intent" /\ mail[i].status = "completed" => openChildTasks(i) = {}
    /\ \A j \in mail[i].blockedBy : i \in mail[j].blocks \/ j = mail[i].source

(* What design-mailbox.md says of every edge (mailbox_breakdown).          *)
EdgesMirrored == \A i \in Present : \A j \in mail[i].blockedBy : i \in mail[j].blocks

(* Mail the machine has seen is owed a note until it is announced, through *)
(* failed sends, turns and claims by others; and a debt is remembered by   *)
(* the flag that the end of a turn looks at.                               *)
MailKept ==
  machine.on =>
    /\ \A i \in machine.observed : machine.count[i] > 0 \/ i \in machine.pending
    /\ machine.pending # {} => machine.wakePending

(* In one session no intent is the occasion of more than two notes - a     *)
(* file that cannot be read starts the mail it hides anew - and no note is *)
(* sent into a turn or a chain of tool calls.                              *)
WakeRestraint == barged = 0 /\ \A i \in MailIds : told[i] <= 2

(* Mail is announced: neither forgotten nor pressed on the model (poll,    *)
(* fire, onTurnEnd, backoffElapsed).                                       *)
MailAnnounced == MailKept /\ WakeRestraint
=============================================================================
