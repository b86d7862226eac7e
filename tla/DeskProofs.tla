------------------------------ MODULE DeskProofs ----------------------------
(***************************************************************************)
(* Proofs about what surrounds a session's tasks: the mailbox and its wake *)
(* machine, for any number of sessions, intents and notes; the countdowns, *)
(* reminders and wake-ups, for any number of turns; the sidebar's panel,   *)
(* for any ids, turns and entries of its log; the conversion of an intent, *)
(* for any processes, phases and plan tasks; and the phases of a           *)
(* brainstorming session, for any approaches and sections.                 *)
(***************************************************************************)
EXTENDS Mailbox, TaskTurns, SidebarPanel, Intents, Brainstorm, Evaluator, FoldLemmas

-----------------------------------------------------------------------------
(* The mail: whose it is, what it came from and what it waits for.         *)

Mail == [type : {"none", "intent", "plan"}, status : {"pending", "in_progress", "completed"},
         owner : Owners \cup {"none", "malformed"}, source : {0} \cup MailIds,
         createdAt : Nat, blocks : SUBSET MailIds, blockedBy : SUBSET MailIds]

MailTyped ==
  /\ mail \in [MailIds -> Mail]
  /\ \A i \in MailIds : /\ mail[i].type = "none" =>
                             mail[i].blocks = {} /\ mail[i].blockedBy = {} /\ mail[i].source = 0
                        /\ mail[i].type = "intent" => mail[i].source = 0

MInv == MailTyped /\ ClosedMeansDone

\* The ids a breakdown hands out are free, and the last of them is one of them.
LEMMA IdsFree ==
  ASSUME MailTyped, NEW n \in 1..2
  PROVE  /\ allocateTaskIds(n) \cap Present = {}
         /\ Max(allocateTaskIds(n)) \in allocateTaskIds(n)
<1>1. Present \cup {0} \subseteq 0..MaxId /\ MaxId \in Nat
  BY MailboxAssumption DEF Present, MailIds
<1>2. PICK top : top = Max(Present \cup {0})
  OBVIOUS
<1>3. top \in Nat /\ \A k \in Present : k <= top
  BY <1>1, <1>2, MaxOf
<1>4. allocateTaskIds(n) = (top + 1)..(top + n)
  BY <1>2 DEF allocateTaskIds
<1>5. (top + 1)..(top + n) \subseteq 0..(top + n) /\ top + n \in Nat /\ (top + 1)..(top + n) # {}
  <2>1. top + 1 \in (top + 1)..(top + n)
    BY <1>3
  <2>2. \A x \in (top + 1)..(top + n) : x \in 0..(top + n)
    BY <1>3
  <2> QED BY <1>3, <2>1, <2>2
<1>6. Max((top + 1)..(top + n)) \in (top + 1)..(top + n)
  BY <1>5, MaxOf
<1> QED BY <1>1, <1>3, <1>4, <1>6

\* A step that changes one task's owner and status only, or nothing.
LEMMA OneTaskChanges ==
  ASSUME MInv, NEW i \in MailIds, NEW t \in Mail, mail' = [mail EXCEPT ![i] = t],
         t.type # "none", t.blocks = mail[i].blocks, t.blockedBy = mail[i].blockedBy,
         t.source = mail[i].source, t.type = "intent" => t.source = 0,
         mail[i].type = "plan" /\ mail[i].status = "completed" => t.status = "completed",
         mail[i].type # "plan" => t.type = "intent",
         t.type = "intent" /\ t.status = "completed" =>
           \A c \in Present : mail[c].source = i => mail[c].status = "completed",
         mail[i].type \in {"none", t.type}
  PROVE  MInv'
<1>1. /\ mail' \in [MailIds -> Mail] /\ mail'[i] = t
      /\ \A c \in MailIds : c # i => mail'[c] = mail[c]
  BY DEF MInv, MailTyped
<1>2. MailTyped'
  BY <1>1 DEF MInv, MailTyped, Mail
<1>3. \A c \in MailIds : /\ mail'[c].blocks = mail[c].blocks /\ mail'[c].blockedBy = mail[c].blockedBy
                         /\ mail'[c].source = mail[c].source /\ mail[c] \in Mail
  BY <1>1 DEF MInv, MailTyped
<1>4. \A c \in MailIds : c \notin Present => mail[c].blockedBy = {} /\ mail[c].source = 0 /\ mail[c].blocks = {}
  BY DEF MInv, MailTyped, Present
<1>5. ASSUME NEW k \in MailIds, NEW j \in mail'[k].blockedBy
      PROVE  k \in mail'[j].blocks \/ j = mail'[k].source
  <2>1. j \in mail[k].blockedBy /\ j \in MailIds
    BY <1>3, <1>5 DEF Mail
  <2>2. k \in mail[j].blocks \/ j = mail[k].source
    BY <1>4, <2>1 DEF MInv, ClosedMeansDone
  <2> QED BY <1>3, <2>1, <2>2
<1>6. ASSUME NEW k \in MailIds, mail'[k].type = "intent", mail'[k].status = "completed",
             NEW c \in MailIds, mail'[c].type # "none", mail'[c].source = k
      PROVE  mail'[c].status = "completed"
  <2>1. mail[c].source = k /\ k # 0 /\ c \in Present
    BY <1>3, <1>4, <1>6 DEF MailIds
  <2>2. mail[c].type = "plan"
    BY <2>1 DEF MInv, MailTyped, Present, Mail
  <2>3. mail[c].status = "completed"
    <3>1. CASE k = i
      BY <1>1, <1>6, <2>1, <3>1
    <3>2. CASE k # i
      BY <1>1, <1>6, <2>1, <3>2 DEF MInv, ClosedMeansDone, openChildTasks, Present
    <3> QED BY <3>1, <3>2
  <2> QED BY <1>1, <2>2, <2>3
<1>7. ClosedMeansDone'
  BY <1>5, <1>6 DEF ClosedMeansDone, openChildTasks, Present
<1> QED BY <1>2, <1>7 DEF MInv

\* Someone drops an intent: a task that was not there.
LEMMA DropKeeps ==
  ASSUME MInv, NEW i \in MailIds, NEW date \in Dates, NEW owner \in {"none", "malformed"},
         Drop(i, date, owner)
  PROVE  MInv'
<1>1. PICK t : t = [Absent EXCEPT !.type = "intent", !.createdAt = date, !.owner = owner]
  OBVIOUS
<1>2. mail' = [mail EXCEPT ![i] = t] /\ i \notin Present
  BY <1>1 DEF Drop, mutate
<1>3. /\ t.type = "intent" /\ t.status = "pending" /\ t.source = 0 /\ t.blocks = {} /\ t.blockedBy = {}
      /\ t \in Mail
  BY <1>1, MailboxAssumption DEF Absent, Mail
<1>4. mail[i].type = "none" /\ mail[i].blocks = {} /\ mail[i].blockedBy = {} /\ mail[i].source = 0
  BY <1>2 DEF MInv, MailTyped, Present
<1> QED BY <1>2, <1>3, <1>4, OneTaskChanges

\* A task on the board changes its status, and perhaps its owner.
LEMMA StatusKeeps ==
  ASSUME MInv, NEW i \in MailIds, NEW st \in {"pending", "in_progress", "completed"}, NEW t,
         NEW owner \in Owners, mail[i].type # "none",
         t \in {[mail[i] EXCEPT !.status = st], [mail[i] EXCEPT !.status = st, !.owner = owner]},
         mail' = [mail EXCEPT ![i] = t],
         mail[i].type = "plan" /\ mail[i].status = "completed" => st = "completed",
         mail[i].type = "intent" /\ st = "completed" =>
           \A c \in Present : mail[c].source = i => mail[c].status = "completed"
  PROVE  MInv'
<1>1. mail[i] \in Mail /\ (mail[i].type = "intent" => mail[i].source = 0)
  BY DEF MInv, MailTyped
<1>2. /\ t \in Mail /\ t.status = st /\ t.type = mail[i].type /\ t.source = mail[i].source
      /\ t.blocks = mail[i].blocks /\ t.blockedBy = mail[i].blockedBy
  BY <1>1 DEF Mail
<1>3. mail[i].type # "plan" => t.type = "intent"
  BY <1>1, <1>2 DEF Mail
<1> QED BY <1>1, <1>2, <1>3, OneTaskChanges

\* Task c, which was mail[c], after a breakdown of i into the tasks new: the last of
\* them waits for the tasks heard, which are told.
BrokenDown(i, c, t, new, last, heard) ==
  /\ c \in heard => last \in t.blocks
  /\ c \in new => /\ t.type = "plan" /\ t.source = i /\ t.status = "pending"
                  /\ t.blockedBy = IF c = last THEN heard ELSE {}
  /\ c \notin new => /\ t.type = mail[c].type /\ t.source = mail[c].source
                     /\ t.status = mail[c].status /\ t.blockedBy = mail[c].blockedBy
                     /\ t.owner = mail[c].owner
                     /\ mail[c].blocks \subseteq t.blocks
  /\ c \notin new \cup heard => t.blocks = mail[c].blocks

\* What a breakdown writes, task by task.
LEMMA ChildrenAre ==
  ASSUME MInv, NEW i \in MailIds, NEW n \in 1..2, NEW after \in SUBSET MailIds,
         NEW before \in SUBSET MailIds, allocateTaskIds(n) \subseteq MailIds
  PROVE  \E last \in allocateTaskIds(n), heard \in SUBSET (Present \cup allocateTaskIds(n)) :
           /\ Children(i, n, after, before) \in [MailIds -> Mail]
           /\ \A c \in MailIds :
                BrokenDown(i, c, Children(i, n, after, before)[c], allocateTaskIds(n), last, heard)
<1>1. PICK new : new = allocateTaskIds(n)
  OBVIOUS
<1>2. PICK last : last = Max(new) /\ last \in new
  BY <1>1, IdsFree DEF MInv
<1>3. PICK others : others = (Present \cup new) \ {last} /\ others \subseteq MailIds
  BY <1>1 DEF Present
<1> DEFINE heard == after \cap others
           plan(c) == [Absent EXCEPT !.type = "plan", !.source = i,
                         !.blockedBy = IF c = last THEN after \cap others ELSE {},
                         !.blocks = IF c = last THEN before \cap others ELSE {}]
           old(c) == IF c \in new THEN plan(c) ELSE mail[c]
           add(c) == IF c \in after \cap others THEN {last} ELSE {}
           ch == Children(i, n, after, before)
<1>4. ch = [c \in MailIds |-> [old(c) EXCEPT !.blocks = @ \cup add(c)]]
  BY <1>1, <1>2, <1>3, Zenon DEF Children
<1>5. ASSUME NEW c \in MailIds
      PROVE  /\ plan(c) \in Mail /\ plan(c).type = "plan" /\ plan(c).source = i
             /\ plan(c).status = "pending" /\ plan(c).blockedBy = IF c = last THEN heard ELSE {}
  BY <1>3 DEF Absent, Mail
<1>6. ASSUME NEW c \in MailIds PROVE old(c) \in Mail /\ add(c) \subseteq MailIds
  <2>1. mail[c] \in Mail /\ last \in MailIds
    BY <1>1, <1>2 DEF MInv, MailTyped
  <2> HIDE DEF plan
  <2> QED BY <1>5, <2>1
<1>7. ASSUME NEW c \in MailIds
      PROVE  /\ ch[c] \in Mail /\ ch[c].blocks = old(c).blocks \cup add(c)
             /\ ch[c].type = old(c).type /\ ch[c].source = old(c).source
             /\ ch[c].status = old(c).status /\ ch[c].blockedBy = old(c).blockedBy
             /\ ch[c].owner = old(c).owner
  <2>1. PICK o : o = old(c) /\ o \in Mail
    BY <1>6
  <2>2. PICK a : a = add(c) /\ a \subseteq MailIds
    BY <1>6
  <2>3. ch[c] = [o EXCEPT !.blocks = @ \cup a]
    BY <1>4, <2>1, <2>2, Zenon
  <2>4. PICK x : x = [o EXCEPT !.blocks = @ \cup a]
    OBVIOUS
  <2>5. /\ x \in Mail /\ x.blocks = o.blocks \cup a
        /\ x.type = o.type /\ x.source = o.source /\ x.status = o.status /\ x.blockedBy = o.blockedBy
        /\ x.owner = o.owner
    BY <2>1, <2>2, <2>4 DEF Mail
  <2> HIDE DEF old, add, ch
  <2> QED BY <2>1, <2>2, <2>3, <2>4, <2>5
<1>8. ch \in [MailIds -> Mail]
  <2>1. ch = [c \in MailIds |-> ch[c]]
    BY <1>4, Zenon
  <2> HIDE DEF ch
  <2> QED BY <1>7, <2>1
<1>9. \A c \in MailIds : /\ c \in new => old(c) = plan(c)
                         /\ c \notin new => old(c) = mail[c]
                         /\ c \in heard => add(c) = {last}
                         /\ c \notin heard => add(c) = {}
  <2> HIDE DEF plan
  <2> QED OBVIOUS
<1>10. heard \subseteq Present \cup new
  BY <1>3
<1> HIDE DEF plan, old, add, ch, heard
<1>11. ASSUME NEW c \in MailIds
       PROVE  BrokenDown(i, c, ch[c], new, last, heard)
  <2>1. /\ ch[c].blocks = old(c).blocks \cup add(c) /\ ch[c].type = old(c).type
        /\ ch[c].source = old(c).source /\ ch[c].status = old(c).status
        /\ ch[c].blockedBy = old(c).blockedBy /\ ch[c].owner = old(c).owner
    BY <1>7
  <2>2. CASE c \in new
    <3>1. old(c) = plan(c) /\ plan(c).type = "plan" /\ plan(c).source = i /\ plan(c).status = "pending"
          /\ plan(c).blockedBy = IF c = last THEN heard ELSE {}
      BY <1>5, <1>9, <2>2
    <3>2. c \in heard => last \in ch[c].blocks
      BY <1>9, <2>1
    <3> QED BY <1>9, <2>1, <2>2, <3>1, <3>2 DEF BrokenDown
  <2>3. CASE c \notin new
    BY <1>9, <2>1, <2>3 DEF BrokenDown
  <2> QED BY <2>2, <2>3
<1> QED
  <2>1. Children(i, n, after, before) = ch
    BY DEF ch
  <2> QED BY <1>1, <1>2, <1>8, <1>10, <1>11, <2>1

\* The owner breaks an intent down: it is open again, and its new steps are nobody
\* else's.
LEMMA BreakdownKeeps ==
  ASSUME MInv, NEW me \in Owners, NEW i \in MailIds, NEW n \in 1..2,
         NEW after \in SUBSET MailIds, NEW before \in SUBSET MailIds,
         mailbox_breakdown(me, i, n, after, before)
  PROVE  MInv'
<1>1. /\ allocateTaskIds(n) \subseteq MailIds /\ mail[i].type = "intent" /\ i \in Present
      /\ mail' = [Children(i, n, after, before) EXCEPT ![i] = [mail[i] EXCEPT !.status = "in_progress"]]
  BY DEF mailbox_breakdown, mutate, Present
<1>2. PICK new : new = allocateTaskIds(n) /\ new \cap Present = {} /\ new \subseteq MailIds
  BY <1>1, IdsFree DEF MInv
<1>3. PICK ch : ch = Children(i, n, after, before)
  OBVIOUS
<1>4. PICK last \in new, heard \in SUBSET (Present \cup new) :
        /\ ch \in [MailIds -> Mail]
        /\ \A c \in MailIds : BrokenDown(i, c, ch[c], new, last, heard)
  BY <1>1, <1>2, <1>3, ChildrenAre
<1>5. PICK t : t = [mail[i] EXCEPT !.status = "in_progress"]
  OBVIOUS
<1>6. /\ t \in Mail /\ t.status = "in_progress" /\ t.type = ch[i].type /\ t.source = ch[i].source
      /\ t.blocks = mail[i].blocks /\ t.blockedBy = ch[i].blockedBy
  <2>1. /\ mail[i] \in Mail /\ ch[i].type = mail[i].type /\ ch[i].source = mail[i].source
        /\ ch[i].blockedBy = mail[i].blockedBy
    BY <1>1, <1>2, <1>4 DEF MInv, MailTyped, BrokenDown
  <2> QED BY <1>5, <2>1 DEF Mail
<1>7. mail' = [ch EXCEPT ![i] = t]
  BY <1>1, <1>3, <1>5
<1>8. /\ mail' \in [MailIds -> Mail] /\ mail'[i].status = "in_progress"
      /\ \A c \in MailIds : /\ mail'[c].type = ch[c].type /\ mail'[c].source = ch[c].source
                            /\ mail'[c].blockedBy = ch[c].blockedBy
                            /\ c # i => mail'[c].status = ch[c].status /\ mail'[c].blocks = ch[c].blocks
      /\ mail'[i].blocks = mail[i].blocks
  BY <1>4, <1>6, <1>7
<1> HIDE <1>7
<1>9. i \notin new /\ mail[i].source = 0 /\ \A c \in new : mail[c].type = "none"
  BY <1>1, <1>2 DEF MInv, MailTyped, Present
<1>10. MailTyped'
  <2>1. ASSUME NEW c \in MailIds, mail'[c].type = "none"
        PROVE  mail'[c].blocks = {} /\ mail'[c].blockedBy = {} /\ mail'[c].source = 0
    <3>1. c \notin new /\ mail[c].type = "none"
      BY <1>4, <1>8, <2>1 DEF BrokenDown
    <3>2. c \notin heard /\ c # i
      BY <1>1, <1>4, <3>1 DEF Present
    <3> QED BY <1>4, <1>8, <3>1, <3>2 DEF BrokenDown, MInv, MailTyped
  <2>2. ASSUME NEW c \in MailIds, mail'[c].type = "intent" PROVE mail'[c].source = 0
    BY <1>4, <1>8, <2>2 DEF BrokenDown, MInv, MailTyped
  <2> QED BY <1>8, <2>1, <2>2 DEF MailTyped
<1>11. ASSUME NEW k \in MailIds, NEW j \in mail'[k].blockedBy
       PROVE  k \in mail'[j].blocks \/ j = mail'[k].source
  <2>1. j \in MailIds
    BY <1>8 DEF Mail
  <2>2. CASE k \in new
    <3>1. k = last /\ j \in heard
      BY <1>4, <1>8, <2>2 DEF BrokenDown
    <3>2. mail'[k].source = i
      BY <1>4, <1>8, <2>2 DEF BrokenDown
    <3> QED BY <1>4, <1>8, <2>1, <3>1, <3>2 DEF BrokenDown
  <2>3. CASE k \notin new
    <3>1. j \in mail[k].blockedBy
      BY <1>4, <1>8, <2>3 DEF BrokenDown
    <3>2. k \in mail[j].blocks \/ j = mail[k].source
      BY <3>1 DEF MInv, ClosedMeansDone, MailTyped, Present
    <3>3. CASE k \in mail[j].blocks
      <4>1. j \notin new
        BY <1>9, <2>1, <3>3 DEF MInv, MailTyped
      <4> QED BY <1>4, <1>8, <2>1, <3>3, <4>1 DEF BrokenDown
    <3>4. CASE j = mail[k].source
      BY <1>4, <1>8, <2>3, <3>4 DEF BrokenDown
    <3> QED BY <3>2, <3>3, <3>4
  <2> QED BY <2>2, <2>3
<1>12. ASSUME NEW k \in MailIds, mail'[k].type = "intent", mail'[k].status = "completed",
              NEW c \in MailIds, mail'[c].type # "none", mail'[c].source = k
       PROVE  mail'[c].status = "completed"
  <2>1. k # i
    BY <1>8, <1>12
  <2>2. c \notin new
    BY <1>4, <1>8, <1>12, <2>1 DEF BrokenDown
  <2>3. c # i
    BY <1>4, <1>8, <1>9, <1>12 DEF BrokenDown, MailIds
  <2>4. k \notin new
    BY <1>4, <1>8, <1>12 DEF BrokenDown
  <2>5. /\ mail[k].type = "intent" /\ mail[k].status = "completed"
        /\ mail[c].type # "none" /\ mail[c].source = k /\ mail'[c].status = mail[c].status
    BY <1>4, <1>8, <1>12, <2>1, <2>2, <2>3, <2>4 DEF BrokenDown
  <2> QED BY <2>5 DEF MInv, ClosedMeansDone, openChildTasks, Present
<1>13. ClosedMeansDone'
  BY <1>11, <1>12 DEF ClosedMeansDone, openChildTasks, Present
<1> QED BY <1>10, <1>13 DEF MInv

\* Every step keeps the board; the machine does not write it.
LEMMA MailStep == MInv /\ [MailboxNext]_mailvars => MInv'
<1> SUFFICES ASSUME MInv, [MailboxNext]_mailvars PROVE MInv'
  OBVIOUS
<1>0. CASE UNCHANGED mail
  BY <1>0 DEF MInv, MailTyped, ClosedMeansDone, openChildTasks, Present
<1>1. ASSUME NEW me \in Owners, NEW i \in MailIds, mailbox_claim(me, i) PROVE MInv'
  BY <1>1, StatusKeeps DEF mailbox_claim, mutate
<1>2. ASSUME NEW i \in MailIds, mailbox_complete(i) PROVE MInv'
  <2>1. \A c \in Present : mail[c].source = i => mail[c].status = "completed"
    BY <1>2 DEF mailbox_complete, openChildTasks
  <2> QED BY <1>2, <2>1, StatusKeeps, MailboxAssumption DEF mailbox_complete, mutate
<1>3. ASSUME NEW c \in MailIds, NEW st \in {"pending", "in_progress", "completed"}, mailbox_update(c, st)
      PROVE  MInv'
  BY <1>3, StatusKeeps, MailboxAssumption DEF mailbox_update, mutate
<1>4. ASSUME NEW me \in Owners, NEW i \in MailIds, NEW n \in 1..2,
             NEW after \in {{}} \cup {{c} : c \in MailIds}, NEW before \in {{}} \cup {{c} : c \in MailIds},
             mailbox_breakdown(me, i, n, after, before)
      PROVE  MInv'
  BY <1>4, BreakdownKeeps
<1>5. CASE MailNext
  BY <1>0, <1>1, <1>2, <1>5, DropKeeps DEF MailNext, Garble
<1>6. CASE PlanNext
  BY <1>3, <1>4, <1>6 DEF PlanNext
<1>7. CASE WakeNext
  <2>1. UNCHANGED mail
    BY <1>7 DEF WakeNext, session_shutdown, onTurnStart, BackoffPasses, session_start, MailboxTick,
                DebounceFires, turn_end
  <2> QED BY <1>0, <2>1
<1>8. CASE UNCHANGED mailvars
  BY <1>0, <1>8 DEF mailvars
<1> QED BY <1>5, <1>6, <1>7, <1>8 DEF MailboxNext

(* A closed intent has no open step, and a task that waits for another is  *)
(* known to it, whatever sequence of drops, claims, breakdowns, updates    *)
(* and completions the sessions of a workspace make (mailbox_breakdown,    *)
(* mailbox_complete).                                                      *)
THEOREM ClosedIntentsAreDone == MailboxSpec => []ClosedMeansDone
<1>1. MailboxInit => MInv
  BY DEF MailboxInit, MInv, MailTyped, Mail, Absent, ClosedMeansDone, Present
<1>2. MInv /\ [MailboxNext]_mailvars => MInv'
  BY MailStep
<1> QED BY <1>1, <1>2, PTL DEF MailboxSpec, MInv

-----------------------------------------------------------------------------
(* The wake machine.                                                       *)

Machine == [on : BOOLEAN, idle : BOOLEAN, wakePending : BOOLEAN, timerArmed : BOOLEAN,
            observed : SUBSET MailIds, pending : SUBSET MailIds, count : [MailIds -> Nat],
            quiet : SUBSET MailIds]

\* What has been seen is owed a note or has had one, and a debt is remembered.
Owing(M) ==
  /\ \A i \in M.observed : M.count[i] > 0 \/ i \in M.pending
  /\ M.pending # {} => M.wakePending
  /\ M.pending \subseteq M.observed
  /\ \A i \in MailIds : M.count[i] > 0 => i \in M.observed

\* tl has the notes about each intent: the machine remembers those about mail that is
\* unclaimed, and one that has had two is owed no other.
Counted(M, tl) ==
  \A i \in MailIds : /\ isUnclaimedIntent(i) => tl[i] <= M.count[i]
                     /\ tl[i] > 0 => i \in Present
                     /\ i \in M.pending => M.count[i] <= 1
                     /\ tl[i] <= 2

Sound(M, tl) == M \in Machine /\ Owing(M) /\ Counted(M, tl)

\* forget, field by field.
LEMMA ForgetFields ==
  ASSUME NEW M \in Machine, NEW gone \in SUBSET MailIds
  PROVE  LET K == forget(M, gone) IN
         /\ K \in Machine /\ K.on = M.on /\ K.idle = M.idle /\ K.wakePending = M.wakePending
         /\ K.timerArmed = M.timerArmed /\ K.observed = M.observed \ gone
         /\ K.pending = M.pending \ gone /\ K.quiet = M.quiet \ gone
         /\ \A i \in MailIds : K.count[i] = IF i \in gone THEN 0 ELSE M.count[i]
<1>1. PICK cnt : cnt = [i \in MailIds |-> IF i \in gone THEN 0 ELSE M.count[i]]
  OBVIOUS
<1>2. cnt \in [MailIds -> Nat] /\ \A i \in MailIds : cnt[i] = IF i \in gone THEN 0 ELSE M.count[i]
  BY <1>1 DEF Machine
<1>3. forget(M, gone) = [M EXCEPT !.observed = @ \ gone, !.pending = @ \ gone, !.quiet = @ \ gone,
                                  !.count = cnt]
  BY <1>1 DEF forget, Machine
<1> HIDE <1>1
<1>4. PICK K : K = forget(M, gone)
  OBVIOUS
<1>5. /\ K.on = M.on /\ K.idle = M.idle /\ K.wakePending = M.wakePending
      /\ K.timerArmed = M.timerArmed /\ K.observed = M.observed \ gone
      /\ K.pending = M.pending \ gone /\ K.quiet = M.quiet \ gone /\ K.count = cnt
  BY <1>3, <1>4 DEF Machine
<1>6. K \in Machine
  BY <1>2, <1>3, <1>4 DEF Machine
<1> QED BY <1>2, <1>4, <1>5, <1>6

\* What can be read of the unclaimed mail: all or nothing.
LEMMA UnclaimedAre ==
  /\ unclaimedIntents \subseteq MailIds
  /\ garbled => unclaimedIntents = {}
  /\ ~garbled => unclaimedIntents = {i \in MailIds : isUnclaimedIntent(i)}
BY DEF unclaimedIntents, read, Present, isUnclaimedIntent

\* Forgetting keeps the accounts, when what is still unclaimed begins anew.
LEMMA ForgetSound ==
  ASSUME NEW M, NEW tl \in [MailIds -> Nat], NEW kept \in [MailIds -> Nat], Sound(M, tl),
         NEW gone \in SUBSET MailIds, \A i \in MailIds : kept[i] <= tl[i],
         \A i \in gone : isUnclaimedIntent(i) => kept[i] = 0
  PROVE  Sound(forget(M, gone), kept)
<1>1. PICK K : K = forget(M, gone)
  OBVIOUS
<1>2. /\ K \in Machine /\ K.wakePending = M.wakePending
      /\ K.observed = M.observed \ gone /\ K.pending = M.pending \ gone
      /\ \A i \in MailIds : K.count[i] = IF i \in gone THEN 0 ELSE M.count[i]
  BY <1>1, ForgetFields DEF Sound
<1>3. M.observed \subseteq MailIds /\ M.pending \subseteq MailIds /\ \A i \in MailIds : M.count[i] \in Nat
  BY DEF Sound, Machine
<1>4. Owing(K)
  BY <1>2, <1>3 DEF Sound, Owing
<1>5. Counted(K, kept)
  <2> SUFFICES ASSUME NEW i \in MailIds
               PROVE  /\ isUnclaimedIntent(i) => kept[i] <= K.count[i]
                      /\ kept[i] > 0 => i \in Present
                      /\ i \in K.pending => K.count[i] <= 1
                      /\ kept[i] <= 2
    BY DEF Counted
  <2>1. kept[i] \in Nat /\ tl[i] \in Nat /\ kept[i] <= tl[i] /\ (i \in gone /\ isUnclaimedIntent(i) => kept[i] = 0)
    OBVIOUS
  <2>2. /\ isUnclaimedIntent(i) => tl[i] <= M.count[i]
        /\ tl[i] > 0 => i \in Present
        /\ i \in M.pending => M.count[i] <= 1
        /\ tl[i] <= 2
    BY DEF Sound, Counted
  <2> QED BY <1>2, <1>3, <2>1, <2>2
<1> QED BY <1>1, <1>2, <1>4, <1>5 DEF Sound

\* The notes that an unreadable file makes the machine forget.
Remembered(seen) == [j \in MailIds |-> IF j \in (IF garbled THEN seen ELSE {}) THEN 0 ELSE told[j]]

\* A poll: the new mail is owed a note, a note that went unheard is owed once more;
\* nothing is, when the file cannot be read.
LEMMA PolledSound ==
  ASSUME NEW M, told \in [MailIds -> Nat], Sound(M, told)
  PROVE  /\ Remembered(M.observed) \in [MailIds -> Nat] /\ Sound(polled(M), Remembered(M.observed))
         /\ polled(M).on = M.on /\ polled(M).idle = M.idle
         /\ garbled => ~polled(M).wakePending
         /\ ~garbled => Remembered(M.observed) = told
<1>0. PICK tl \in [MailIds -> Nat] :
        /\ tl = Remembered(M.observed)
        /\ \A i \in MailIds : /\ tl[i] <= told[i]
                              /\ garbled /\ i \in M.observed => tl[i] = 0
        /\ ~garbled => tl = told
  <2> DEFINE tl == Remembered(M.observed)
  <2>1. tl \in [MailIds -> Nat]
    BY DEF Remembered
  <2>2. \A i \in MailIds : tl[i] = IF garbled /\ i \in M.observed THEN 0 ELSE told[i]
    BY DEF Remembered
  <2>3. \A i \in MailIds : told[i] \in Nat
    OBVIOUS
  <2> HIDE DEF tl
  <2>4. ~garbled => tl = told
    BY <2>1, <2>2
  <2>5. \A i \in MailIds : tl[i] <= told[i] /\ (garbled /\ i \in M.observed => tl[i] = 0)
    BY <2>2, <2>3
  <2> QED BY <2>1, <2>4, <2>5 DEF tl
<1>1. unclaimedIntents \subseteq MailIds
  BY UnclaimedAre
<1>2. PICK K : K = forget(M, M.observed \ unclaimedIntents)
  OBVIOUS
<1>3. /\ Sound(K, tl) /\ K \in Machine /\ K.on = M.on /\ K.idle = M.idle
      /\ garbled => K.pending = {}
  <2>1. /\ M \in Machine /\ M.observed \ unclaimedIntents \in SUBSET MailIds
        /\ M.pending \subseteq M.observed
    BY DEF Sound, Machine, Owing
  <2>2. \A i \in M.observed \ unclaimedIntents : isUnclaimedIntent(i) => tl[i] = 0
    BY <1>0, <2>1, UnclaimedAre
  <2>3. Sound(K, tl)
    BY <1>0, <1>2, <2>1, <2>2, ForgetSound
  <2>4. /\ K \in Machine /\ K.on = M.on /\ K.idle = M.idle
        /\ K.pending = M.pending \ (M.observed \ unclaimedIntents)
    BY <1>2, <2>1, ForgetFields
  <2> QED BY <2>1, <2>3, <2>4, UnclaimedAre
<1>4. PICK new : new = {i \in unclaimedIntents : K.count[i] = 0}
  OBVIOUS
<1>5. PICK again : again = {i \in unclaimedIntents \ new : backoffElapsed(K, i)}
  OBVIOUS
<1>6. PICK L : L = [K EXCEPT !.observed = @ \cup new, !.pending = @ \cup new \cup again]
  OBVIOUS
<1>7. polled(M) = [L EXCEPT !.wakePending = L.pending # {}]
  BY <1>2, <1>4, <1>5, <1>6, Zenon DEF polled
<1>8. /\ new \subseteq MailIds /\ again \subseteq MailIds
      /\ (\A i \in new : K.count[i] = 0) /\ (\A i \in again : K.count[i] <= 1 /\ K.count[i] > 0)
      /\ garbled => new = {} /\ again = {}
  <2>1. \A i \in MailIds : K.count[i] \in Nat
    BY <1>3 DEF Machine
  <2> QED BY <1>1, <1>4, <1>5, <2>1, UnclaimedAre DEF backoffElapsed
<1>9. /\ L \in Machine /\ L.on = K.on /\ L.idle = K.idle /\ L.observed = K.observed \cup new
      /\ L.pending = K.pending \cup new \cup again /\ L.count = K.count
  BY <1>3, <1>6, <1>8 DEF Machine
<1>10. PICK b \in BOOLEAN : b = (L.pending # {})
  OBVIOUS
<1>11. PICK P : P = polled(M) /\ P = [L EXCEPT !.wakePending = b]
  BY <1>7, <1>10
<1> HIDE <1>6, <1>7
<1>12. /\ P \in Machine /\ P.on = L.on /\ P.idle = L.idle /\ P.observed = L.observed
       /\ P.pending = L.pending /\ P.count = L.count /\ P.wakePending = b
  BY <1>9, <1>10, <1>11 DEF Machine
<1>13. Owing(P)
  <2>1. /\ again \subseteq K.observed /\ K.pending \subseteq K.observed
        /\ \A i \in MailIds : K.count[i] > 0 => i \in K.observed
        /\ \A i \in K.observed : K.count[i] > 0 \/ i \in K.pending
    BY <1>3, <1>8 DEF Sound, Owing
  <2>2. /\ P.observed = K.observed \cup new /\ P.pending = K.pending \cup new \cup again
        /\ P.count = K.count /\ (P.pending # {} => P.wakePending)
    BY <1>9, <1>10, <1>12
  <2> QED BY <2>1, <2>2 DEF Owing
<1>14. Counted(P, tl)
  BY <1>3, <1>8, <1>9, <1>12 DEF Sound, Counted, Machine
<1>15. garbled => ~P.wakePending
  BY <1>3, <1>8, <1>9, <1>10, <1>12
<1> QED BY <1>0, <1>3, <1>9, <1>11, <1>12, <1>13, <1>14, <1>15 DEF Sound

\* compareFifo has a first among the intents owed a note.
LEMMA FirstOwed ==
  ASSUME MailTyped, NEW M, M.pending \subseteq MailIds, M.pending # {}
  PROVE  first(M) \in M.pending
<1> DEFINE D == {mail[j].createdAt : j \in M.pending}
<1>0. \A j \in M.pending : j \in Nat /\ mail[j].createdAt \in Nat
  BY DEF MailTyped, Mail, MailIds
<1>1. PICK d \in D : \A e \in D : d <= e
  <2>1. D \subseteq Nat /\ D # {}
    BY <1>0
  <2> HIDE DEF D
  <2> QED BY <2>1, LeastOf
<1>2. PICK T : T = {j \in M.pending : mail[j].createdAt = d} /\ T \subseteq Nat /\ T # {}
  BY <1>0, <1>1
<1>3. PICK m \in T : \A k \in T : m <= k
  BY <1>2, LeastOf
<1>4. ASSUME NEW j \in M.pending \ {m} PROVE compareFifo(m, j)
  <2>1. m \in M.pending /\ mail[m].createdAt = d /\ d \in Nat /\ m \in Nat
    BY <1>0, <1>2, <1>3
  <2>2. j \in Nat /\ mail[j].createdAt \in Nat /\ d <= mail[j].createdAt
    BY <1>0, <1>1
  <2>3. CASE mail[j].createdAt = d
    <3>1. j \in T /\ m <= j /\ m # j
      BY <1>2, <1>3, <2>3
    <3> QED BY <2>1, <2>2, <2>3, <3>1 DEF compareFifo
  <2>4. CASE mail[j].createdAt # d
    <3>1. mail[m].createdAt < mail[j].createdAt
      BY <2>1, <2>2, <2>4
    <3> QED BY <3>1 DEF compareFifo
  <2> QED BY <2>3, <2>4
<1>5. \E i \in M.pending : \A j \in M.pending \ {i} : compareFifo(i, j)
  BY <1>2, <1>3, <1>4
<1> QED BY <1>5 DEF first

\* The notes, when one is spent or none.
Spent(M, speaks) ==
  IF speaks THEN [told EXCEPT ![first(forget(M, M.pending \ unclaimedIntents))] = @ + 1] ELSE told

\* Forgetting what is no longer unclaimed, when the file can be read.
LEMMA StaleForgotten ==
  ASSUME NEW M, told \in [MailIds -> Nat], Sound(M, told), ~garbled,
         NEW gone \in SUBSET MailIds, gone \cap unclaimedIntents = {}
  PROVE  Sound(forget(M, gone), told)
<1>1. \A i \in gone : isUnclaimedIntent(i) => told[i] = 0
  BY UnclaimedAre
<1>2. \A i \in MailIds : told[i] \in Nat /\ told[i] <= told[i]
  OBVIOUS
<1> QED BY <1>1, <1>2, ForgetSound

\* fire: the debt is paid by a note, or stays.
LEMMA FireSound ==
  ASSUME MailTyped, NEW M, NEW sent \in BOOLEAN, told \in [MailIds -> Nat], Sound(M, told),
         ~garbled, M.pending \cap unclaimedIntents # {}, NEW tl, tl = Spent(M, sent)
  PROVE  /\ tl \in [MailIds -> Nat] /\ Sound(fire(M, sent), tl)
         /\ fire(M, sent).on = M.on /\ fire(M, sent).idle = M.idle
<1>1. PICK K : K = forget(M, M.pending \ unclaimedIntents)
  OBVIOUS
<1>2. M \in Machine /\ M.pending \subseteq MailIds
  BY DEF Sound, Machine
<1>3. /\ Sound(K, told) /\ K \in Machine /\ K.on = M.on /\ K.idle = M.idle
      /\ K.pending = M.pending \cap unclaimedIntents
      /\ \A i \in K.pending : K.count[i] = M.count[i]
  <2>1. /\ Sound(K, told) /\ K \in Machine /\ K.on = M.on /\ K.idle = M.idle
        /\ K.pending = M.pending \ (M.pending \ unclaimedIntents)
        /\ \A i \in MailIds : K.count[i] = IF i \in M.pending \ unclaimedIntents THEN 0 ELSE M.count[i]
    BY <1>1, <1>2, StaleForgotten, ForgetFields
  <2> QED BY <1>2, <2>1
<1>4. PICK i : i = first(K)
  OBVIOUS
<1>5. i \in K.pending /\ i \in MailIds /\ K.count[i] = M.count[i] /\ isUnclaimedIntent(i) /\ i \in Present
  BY <1>2, <1>3, <1>4, FirstOwed, UnclaimedAre DEF unclaimedIntents, read
<1>6. CASE ~sent
  <2>1. fire(M, sent) = [K EXCEPT !.wakePending = TRUE] /\ tl = told
    BY <1>1, <1>6 DEF fire, Spent
  <2>2. PICK P : P = fire(M, sent)
    OBVIOUS
  <2>3. /\ P \in Machine /\ P.on = K.on /\ P.idle = K.idle /\ P.observed = K.observed
        /\ P.pending = K.pending /\ P.count = K.count /\ P.wakePending = TRUE
    BY <1>3, <2>1, <2>2 DEF Machine
  <2>4. Owing(P) /\ Counted(P, tl)
    BY <1>3, <2>1, <2>3 DEF Sound, Owing, Counted
  <2> QED BY <1>3, <2>1, <2>2, <2>3, <2>4 DEF Sound
<1>7. CASE sent
  <2>1. tl = [told EXCEPT ![i] = @ + 1]
    BY <1>1, <1>4, <1>7 DEF Spent
  <2>2. PICK b \in BOOLEAN : b = (K.pending # {i})
    OBVIOUS
  <2>3. PICK cnt : cnt = [K.count EXCEPT ![i] = @ + 1]
    OBVIOUS
  <2>4. cnt \in [MailIds -> Nat] /\ cnt[i] = K.count[i] + 1 /\ \A j \in MailIds : j # i => cnt[j] = K.count[j]
    BY <1>3, <1>5, <2>3 DEF Machine
  <2>5. PICK L : L = [K EXCEPT !.pending = @ \ {i}, !.count = cnt, !.quiet = @ \ {i}, !.wakePending = b]
    OBVIOUS
  <2>6. /\ L \in Machine /\ L.on = K.on /\ L.idle = K.idle /\ L.observed = K.observed
        /\ L.pending = K.pending \ {i} /\ L.count = cnt /\ L.wakePending = b
    BY <1>3, <2>2, <2>4, <2>5 DEF Machine
  <2>7. L = [K EXCEPT !.pending = @ \ {i}, !.count[i] = @ + 1, !.quiet = @ \ {i},
                      !.wakePending = K.pending # {i}]
    BY <1>3, <2>2, <2>3, <2>5 DEF Machine
  <2>8. fire(M, sent) = [L EXCEPT !.timerArmed = @ /\ L.wakePending]
    BY <1>1, <1>4, <1>7, <2>7 DEF fire
  <2> HIDE <2>5, <2>7
  <2>9. PICK armed \in BOOLEAN : armed = (L.timerArmed /\ L.wakePending)
    OBVIOUS
  <2>10. PICK P : P = fire(M, sent) /\ P = [L EXCEPT !.timerArmed = armed]
    BY <2>6, <2>8, <2>9 DEF Machine
  <2> HIDE <2>8, <2>9
  <2>11. /\ P \in Machine /\ P.on = L.on /\ P.idle = L.idle /\ P.observed = L.observed
         /\ P.pending = L.pending /\ P.count = cnt /\ P.wakePending = b
    BY <2>6, <2>10 DEF Machine
  <2>12. Owing(P)
    <3>1. /\ \A j \in K.observed : K.count[j] > 0 \/ j \in K.pending
          /\ K.pending \subseteq K.observed /\ K.observed \subseteq MailIds
          /\ \A j \in MailIds : K.count[j] \in Nat /\ (K.count[j] > 0 => j \in K.observed)
      BY <1>3 DEF Sound, Owing, Machine
    <3>2. /\ P.observed = K.observed /\ P.pending = K.pending \ {i} /\ P.count = cnt
          /\ P.wakePending = (K.pending # {i})
      BY <2>2, <2>6, <2>11
    <3>3. \A j \in P.observed : P.count[j] > 0 \/ j \in P.pending
      BY <1>5, <2>4, <3>1, <3>2
    <3>4. \A j \in MailIds : P.count[j] > 0 => j \in P.observed
      <4>1. i \in K.observed
        BY <1>5, <3>1
      <4>2. \A j \in MailIds : j # i => P.count[j] = K.count[j]
        BY <2>4, <3>2
      <4> QED BY <3>1, <3>2, <4>1, <4>2
    <3>5. P.pending # {} => P.wakePending
      BY <1>5, <3>2
    <3>6. P.pending \subseteq P.observed
      BY <3>1, <3>2
    <3> QED BY <3>3, <3>4, <3>5, <3>6 DEF Owing
  <2>13. \A j \in MailIds : told[j] \in Nat /\ K.count[j] \in Nat
    BY <1>3 DEF Machine
  <2>14. K.count[i] <= 1 /\ told[i] <= K.count[i]
    BY <1>3, <1>5 DEF Sound, Counted
  <2>15. tl \in [MailIds -> Nat] /\ tl[i] = told[i] + 1 /\ \A j \in MailIds : j # i => tl[j] = told[j]
    BY <1>5, <2>1, <2>13, <2>14
  <2>16. Counted(P, tl)
    BY <1>3, <1>5, <2>4, <2>6, <2>11, <2>13, <2>14, <2>15 DEF Sound, Counted
  <2> QED BY <1>3, <2>6, <2>10, <2>11, <2>12, <2>15, <2>16 DEF Sound
<1> QED BY <1>6, <1>7

\* A machine that owes nothing may say so.
LEMMA Settles ==
  ASSUME NEW K, NEW tl, Sound(K, tl), K.pending = {},
         NEW P, P = [K EXCEPT !.wakePending = FALSE]
  PROVE  P.on = K.on /\ P.idle = K.idle /\ Sound(P, tl)
<1>1. K \in Machine
  BY DEF Sound
<1>2. /\ P \in Machine /\ P.on = K.on /\ P.idle = K.idle /\ P.observed = K.observed
      /\ P.pending = {} /\ P.count = K.count
  BY <1>1 DEF Machine
<1> QED BY <1>2 DEF Sound, Owing, Counted

\* What was claimed meanwhile is dropped, or a note is due.
LEMMA FiredSound ==
  ASSUME MailTyped, NEW M, NEW sent \in BOOLEAN, told \in [MailIds -> Nat], Sound(M, told),
         ~garbled, NEW tl, tl = Spent(M, Spoke(M, sent))
  PROVE  /\ tl \in [MailIds -> Nat] /\ Sound(fired(M, sent), tl)
         /\ fired(M, sent).on = M.on /\ fired(M, sent).idle = M.idle
<1>1. CASE M.pending \cap unclaimedIntents = {}
  <2>1. tl = told
    BY <1>1 DEF Spent, Spoke
  <2>2. PICK K : K = forget(M, M.pending)
    OBVIOUS
  <2>3. M \in Machine /\ M.pending \in SUBSET MailIds
    BY DEF Sound, Machine
  <2>4. Sound(K, told) /\ K \in Machine /\ K.on = M.on /\ K.idle = M.idle /\ K.pending = {}
    BY <1>1, <2>2, <2>3, StaleForgotten, ForgetFields
  <2>5. PICK P : P = fired(M, sent) /\ P = [K EXCEPT !.wakePending = FALSE]
    BY <1>1, <2>2 DEF fired
  <2>6. P.on = K.on /\ P.idle = K.idle /\ Sound(P, told)
    BY <2>4, <2>5, Settles
  <2> QED BY <2>1, <2>4, <2>5, <2>6
<1>2. CASE M.pending \cap unclaimedIntents # {}
  <2>1. tl = Spent(M, sent)
    BY <1>2 DEF Spent, Spoke
  <2> QED BY <1>2, <2>1, FireSound DEF fired
<1> QED BY <1>1, <1>2

\* Who speaks while nobody talks does not barge in.
LEMMA NoteTells ==
  ASSUME NEW M, NEW speaks \in BOOLEAN, NEW seen, Note(M, speaks, seen), speaks => busy' = FALSE
  PROVE  /\ barged' = barged
         /\ speaks => told' = Spent(M, speaks)
         /\ ~speaks => told' = Remembered(seen)
BY DEF Note, Spent, Remembered

\* When the countdown ends on an unreadable file, every debt is forgotten.
LEMMA UnreadSound ==
  ASSUME NEW M, NEW sent \in BOOLEAN, told \in [MailIds -> Nat], Sound(M, told), garbled,
         Note(M, Spoke(M, sent), M.pending)
  PROVE  /\ told' \in [MailIds -> Nat] /\ Sound(fired(M, sent), told')
         /\ fired(M, sent).on = M.on /\ fired(M, sent).idle = M.idle
<1>1. M.pending \cap unclaimedIntents = {} /\ M \in Machine /\ M.pending \in SUBSET MailIds
  BY UnclaimedAre DEF Sound, Machine
<1>2. Spoke(M, sent) = FALSE
  BY <1>1 DEF Spoke
<1>3. told' = [j \in MailIds |-> IF j \in M.pending THEN 0 ELSE told[j]]
  BY <1>2 DEF Note
<1>4. /\ told' \in [MailIds -> Nat]
      /\ \A j \in MailIds : told'[j] <= told[j]
      /\ \A j \in M.pending : told'[j] = 0
  <2>1. \A j \in MailIds : told'[j] = IF j \in M.pending THEN 0 ELSE told[j]
    BY <1>3
  <2>2. \A j \in MailIds : told[j] \in Nat
    OBVIOUS
  <2> QED BY <1>1, <1>3, <2>1, <2>2
<1>5. PICK tl \in [MailIds -> Nat] : tl = told'
  BY <1>4
<1>6. PICK K : K = forget(M, M.pending)
  OBVIOUS
<1>7. Sound(K, tl) /\ K.on = M.on /\ K.idle = M.idle /\ K.pending = {}
  <2>1. Sound(K, tl)
    BY <1>1, <1>4, <1>5, <1>6, ForgetSound
  <2> QED BY <1>1, <1>6, <2>1, ForgetFields
<1>8. PICK P : P = fired(M, sent) /\ P = [K EXCEPT !.wakePending = FALSE]
  BY <1>1, <1>6 DEF fired
<1>9. P.on = K.on /\ P.idle = K.idle /\ Sound(P, tl)
  BY <1>7, <1>8, Settles
<1> QED BY <1>4, <1>5, <1>7, <1>8, <1>9

\* A poll, and a note at once if nobody talks.
LEMMA PollSound ==
  ASSUME MailTyped, NEW M, NEW sent \in BOOLEAN, told \in [MailIds -> Nat], Sound(M, told),
         pollMailbox(M, sent), M.idle => busy' = FALSE
  PROVE  /\ told' \in [MailIds -> Nat] /\ Sound(machine', told') /\ barged' = barged
         /\ machine'.on = M.on /\ machine'.idle = M.idle
<1>1. PICK K : K = polled(M)
  OBVIOUS
<1>2. PICK tl \in [MailIds -> Nat] : tl = Remembered(M.observed)
  BY PolledSound
<1>3. /\ Sound(K, tl) /\ K.on = M.on /\ K.idle = M.idle
      /\ (garbled => ~K.wakePending) /\ (~garbled => tl = told)
  BY <1>1, <1>2, PolledSound
<1>4. PICK fires \in BOOLEAN : fires = (K.wakePending /\ K.idle)
  BY <1>3 DEF Sound, Machine
<1>5. PICK speaks \in BOOLEAN : speaks = (fires /\ Spoke(K, sent))
  BY DEF Spoke
<1>6. machine' = (IF fires THEN fired(K, sent) ELSE K) /\ Note(K, speaks, M.observed)
  BY <1>1, <1>4, <1>5 DEF pollMailbox
<1>7. speaks => busy' = FALSE
  BY <1>3, <1>4, <1>5
<1>8. /\ barged' = barged /\ (speaks => told' = Spent(K, speaks)) /\ (~speaks => told' = tl)
  BY <1>2, <1>6, <1>7, NoteTells
<1>9. CASE fires
  <2>1. ~garbled /\ tl = told /\ Sound(K, told)
    BY <1>3, <1>4, <1>9
  <2>2. told' = Spent(K, Spoke(K, sent))
    BY <1>5, <1>8, <1>9, <2>1 DEF Spent
  <2> QED BY <1>3, <1>6, <1>8, <1>9, <2>1, <2>2, FiredSound
<1>10. CASE ~fires
  BY <1>3, <1>5, <1>6, <1>8, <1>10
<1> QED BY <1>9, <1>10

\* While the host is in a turn the machine knows it, and without one nobody is.
WInv ==
  /\ MailTyped /\ told \in [MailIds -> Nat] /\ Sound(machine, told)
  /\ barged = 0 /\ busy \in BOOLEAN
  /\ machine.idle => busy = FALSE
  /\ ~machine.on => busy = FALSE /\ machine = NoMachine /\ told = Never

\* The machine with other flags, intents and accounts as before.
LEMMA FlagsSound ==
  ASSUME NEW M, NEW N, NEW tl, Sound(M, tl), N \in Machine,
         N.observed = M.observed, N.pending = M.pending, N.count = M.count,
         N.wakePending = M.wakePending
  PROVE  Sound(N, tl)
BY DEF Sound, Owing, Counted

\* A fresh machine owes nothing.
LEMMA FreshSound ==
  ASSUME NEW N \in {NoMachine, [NoMachine EXCEPT !.on = TRUE, !.idle = TRUE]}
  PROVE  Sound(N, Never) /\ (N = NoMachine => ~N.on /\ ~N.idle) /\ (N # NoMachine => N.on)
<1>1. PICK z \in [MailIds -> Nat] : z = Never /\ \A i \in MailIds : z[i] = 0
  <2>1. Never \in [MailIds -> Nat] /\ \A i \in MailIds : Never[i] = 0
    BY DEF Never
  <2> QED BY <2>1
<1>2. NoMachine = [on |-> FALSE, idle |-> FALSE, wakePending |-> FALSE, timerArmed |-> FALSE,
                   observed |-> {}, pending |-> {}, count |-> z, quiet |-> {}]
  BY <1>1 DEF NoMachine
<1>3. /\ N \in Machine /\ N.observed = {} /\ N.pending = {} /\ N.count = z
      /\ (N = NoMachine => ~N.on /\ ~N.idle) /\ (N # NoMachine => N.on)
  <2>1. CASE N = NoMachine
    BY <1>2, <2>1 DEF Machine
  <2>2. CASE N = [NoMachine EXCEPT !.on = TRUE, !.idle = TRUE]
    <3>1. N = [on |-> TRUE, idle |-> TRUE, wakePending |-> FALSE, timerArmed |-> FALSE,
               observed |-> {}, pending |-> {}, count |-> z, quiet |-> {}]
      BY <1>2, <2>2
    <3>2. N.on = TRUE /\ NoMachine.on = FALSE
      BY <1>2, <3>1
    <3> QED BY <3>1, <3>2 DEF Machine
  <2> QED BY <2>1, <2>2
<1>4. Owing(N) /\ Counted(N, z)
  BY <1>1, <1>3 DEF Owing, Counted
<1> QED BY <1>1, <1>3, <1>4 DEF Sound

\* The accounts of the next state, from those of its machine and notes.
LEMMA SoundLater ==
  ASSUME NEW M, NEW tl, Sound(M, tl), UNCHANGED mail, machine' = M, told' = tl
  PROVE  Sound(machine, told)'
<1>1. /\ Present' = Present
      /\ \A i \in MailIds : isUnclaimedIntent(i)' = isUnclaimedIntent(i)
  BY DEF Present, isUnclaimedIntent
<1>2. Counted(machine, told)'
  BY <1>1 DEF Sound, Counted
<1> QED BY <1>2 DEF Sound, Owing

\* A step of a machine that stays on.
LEMMA StaysOn ==
  ASSUME WInv, NEW M, Sound(M, told'), machine' = M, M.on = TRUE, UNCHANGED mail, barged' = barged,
         told' \in [MailIds -> Nat], busy' \in BOOLEAN, M.idle => busy' = FALSE
  PROVE  WInv'
<1>1. MailTyped' /\ barged' = 0
  BY DEF WInv, MailTyped
<1>2. Sound(machine, told)'
  BY SoundLater
<1>3. machine'.on /\ (machine'.idle => busy' = FALSE)
  OBVIOUS
<1> QED BY <1>1, <1>2, <1>3 DEF WInv

\* The host's events and the clock.
LEMMA WakeStep == ASSUME WInv, WakeNext PROVE WInv'
<1>0. UNCHANGED <<mail, garbled>> /\ MailTyped'
  BY DEF WakeNext, session_shutdown, onTurnStart, BackoffPasses, session_start, MailboxTick,
         DebounceFires, turn_end, WInv, MailTyped
<1>1. machine \in Machine
  BY DEF WInv, Sound
<1>2. CASE session_shutdown
  <2>1. machine' = NoMachine /\ busy' = FALSE /\ told' = Never /\ barged' = barged
    BY <1>2 DEF session_shutdown, WInv
  <2>2. Sound(machine', told') /\ ~machine'.on /\ ~machine'.idle
    BY <2>1, FreshSound, Zenon
  <2>3. told' \in [MailIds -> Nat] /\ Sound(machine, told)'
    BY <1>0, <2>1, <2>2, SoundLater DEF Never
  <2> QED BY <1>0, <2>1, <2>2, <2>3 DEF WInv
<1>3. CASE onTurnStart
  <2>1. machine' = [machine EXCEPT !.idle = FALSE] /\ busy' = TRUE /\ machine.on /\ UNCHANGED <<told, barged>>
    BY <1>3 DEF onTurnStart, history
  <2>2. /\ machine' \in Machine /\ machine'.observed = machine.observed /\ machine'.pending = machine.pending
        /\ machine'.count = machine.count /\ machine'.wakePending = machine.wakePending
        /\ machine'.on = machine.on /\ machine'.idle = FALSE
    BY <1>1, <2>1 DEF Machine
  <2>3. Sound(machine', told)
    BY <2>2, FlagsSound DEF WInv
  <2>4. machine.on = TRUE
    BY <1>1, <2>1 DEF Machine
  <2> QED BY <1>0, <2>1, <2>2, <2>3, <2>4, StaysOn DEF WInv
<1>4. ASSUME NEW i \in MailIds, BackoffPasses(i) PROVE WInv'
  <2>1. machine' = [machine EXCEPT !.quiet = @ \cup {i}] /\ UNCHANGED <<busy, told, barged>>
    BY <1>4 DEF BackoffPasses, history
  <2>2. /\ machine' \in Machine /\ machine'.observed = machine.observed /\ machine'.pending = machine.pending
        /\ machine'.count = machine.count /\ machine'.wakePending = machine.wakePending
        /\ machine'.on = machine.on /\ machine'.idle = machine.idle
    BY <1>1, <2>1 DEF Machine
  <2>3. Sound(machine', told)
    BY <2>2, FlagsSound DEF WInv
  <2>4. machine.on
    <3>1. NoMachine.count = Never /\ \A j \in MailIds : Never[j] = 0
      BY DEF NoMachine, Never
    <3>2. machine.count # Never
      BY <1>4, <3>1 DEF BackoffPasses
    <3> QED BY <3>1, <3>2 DEF WInv
  <2>5. machine.on = TRUE
    BY <1>1, <2>4 DEF Machine
  <2>6. busy' \in BOOLEAN /\ (machine'.idle => busy' = FALSE) /\ told' \in [MailIds -> Nat] /\ told' = told
    BY <2>1, <2>2 DEF WInv
  <2> QED BY <1>0, <2>1, <2>2, <2>3, <2>5, <2>6, StaysOn
<1>5. ASSUME NEW opens \in BOOLEAN, NEW sent \in BOOLEAN, session_start(opens, sent) PROVE WInv'
  <2>1. PICK M : M = [NoMachine EXCEPT !.on = TRUE, !.idle = TRUE]
    OBVIOUS
  <2>2. /\ busy' = FALSE
        /\ IF opens THEN pollMailbox(M, sent) ELSE machine' = M /\ UNCHANGED <<told, barged>>
        /\ told = Never
    BY <1>5, <2>1 DEF session_start, history, WInv
  <2>3. Sound(M, told) /\ M.on
    <3>1. M.on /\ ~NoMachine.on
      BY <2>1 DEF NoMachine
    <3> QED BY <2>1, <2>2, <3>1, FreshSound, Zenon
  <2>4. told' \in [MailIds -> Nat] /\ Sound(machine', told') /\ barged' = barged /\ machine'.on
    BY <2>2, <2>3, PollSound DEF WInv
  <2>5. machine'.on = TRUE
    BY <2>4 DEF Sound, Machine
  <2> QED BY <1>0, <2>2, <2>4, <2>5, StaysOn
<1>6. ASSUME NEW sent \in BOOLEAN, MailboxTick(sent) PROVE WInv'
  <2>1. pollMailbox(machine, sent) /\ busy' = busy /\ machine.on
    BY <1>6 DEF MailboxTick
  <2>2. /\ told' \in [MailIds -> Nat] /\ Sound(machine', told') /\ barged' = barged
        /\ machine'.on = machine.on /\ machine'.idle = machine.idle
    BY <2>1, PollSound DEF WInv
  <2>3. machine'.on = TRUE /\ busy' \in BOOLEAN /\ (machine'.idle => busy' = FALSE)
    BY <1>1, <2>1, <2>2 DEF WInv, Machine
  <2> QED BY <1>0, <2>1, <2>2, <2>3, StaysOn
<1>7. ASSUME NEW sent \in BOOLEAN, DebounceFires(sent) PROVE WInv'
  <2>1. PICK M : M = [machine EXCEPT !.timerArmed = FALSE]
    OBVIOUS
  <2>2. /\ M \in Machine /\ M.observed = machine.observed /\ M.pending = machine.pending
        /\ M.count = machine.count /\ M.wakePending = machine.wakePending
        /\ M.on = machine.on /\ M.idle = machine.idle
    BY <1>1, <2>1 DEF Machine
  <2>3. Sound(M, told)
    BY <2>2, FlagsSound DEF WInv
  <2>4. busy' = busy /\ machine.timerArmed
    BY <1>7 DEF DebounceFires
  <2>5. machine.on
    <3>1. ~NoMachine.timerArmed
      BY DEF NoMachine
    <3> QED BY <2>4, <3>1 DEF WInv
  <2>6. CASE M.idle
    <3>1. /\ machine' = fired(M, sent) /\ busy' = FALSE /\ Spoke(M, sent) \in BOOLEAN
          /\ Note(M, Spoke(M, sent), M.pending)
      BY <1>7, <2>1, <2>2, <2>4, <2>6 DEF DebounceFires, WInv, Spoke
    <3>2. barged' = barged /\ (~garbled => told' = Spent(M, Spoke(M, sent)))
      <4>1. CASE Spoke(M, sent)
        BY <3>1, <4>1, NoteTells
      <4>2. CASE ~Spoke(M, sent)
        <5>1. barged' = barged /\ told' = Remembered(M.pending) /\ Spent(M, Spoke(M, sent)) = told
          BY <3>1, <4>2, NoteTells DEF Spent
        <5>2. ~garbled => \A j \in MailIds : Remembered(M.pending)[j] = told[j]
          BY DEF Remembered
        <5> QED BY <5>1, <5>2 DEF Remembered, WInv
      <4> QED BY <4>1, <4>2
    <3>3. told' \in [MailIds -> Nat] /\ Sound(machine', told') /\ machine'.on = M.on /\ machine'.idle = M.idle
      <4>1. CASE ~garbled
        BY <2>3, <3>1, <3>2, <4>1, FiredSound DEF WInv
      <4>2. CASE garbled
        BY <2>3, <3>1, <4>2, UnreadSound DEF WInv
      <4> QED BY <4>1, <4>2
    <3>4. machine'.on = TRUE
      BY <1>1, <2>2, <2>5, <3>3 DEF Machine
    <3> QED BY <1>0, <3>1, <3>2, <3>3, <3>4, StaysOn
  <2>7. CASE ~M.idle
    <3>1. machine' = M /\ Note(M, FALSE, {})
      BY <1>7, <2>1, <2>7 DEF DebounceFires
    <3>2. told' = told /\ barged' = barged
      <4>1. barged' = barged /\ told' = Remembered({})
        BY <3>1, NoteTells
      <4>2. \A j \in MailIds : Remembered({})[j] = told[j]
        BY DEF Remembered
      <4> QED BY <4>1, <4>2 DEF Remembered, WInv
    <3>3. M.on = TRUE /\ busy' \in BOOLEAN /\ told' \in [MailIds -> Nat]
      BY <1>1, <2>2, <2>4, <2>5, <3>2 DEF WInv, Machine
    <3> QED BY <1>0, <2>3, <2>7, <3>1, <3>2, <3>3, StaysOn
  <2> QED BY <2>6, <2>7
<1>8. ASSUME NEW toolCalls \in BOOLEAN, NEW over \in BOOLEAN, NEW sent \in BOOLEAN,
             turn_end(toolCalls, over, sent)
      PROVE  WInv'
  <2>1. /\ machine.on /\ busy /\ (~toolCalls => over) /\ busy' = ~over
        /\ pollMailbox(turnEnded(machine, toolCalls), sent)
    BY <1>8 DEF turn_end
  <2>2. PICK M : M = turnEnded(machine, toolCalls)
    OBVIOUS
  <2>3. Sound(M, told) /\ M.on = machine.on /\ (M.idle => ~toolCalls)
    <3>1. CASE toolCalls
      <4>1. M = machine /\ ~machine.idle
        BY <2>1, <2>2, <3>1 DEF turnEnded, WInv
      <4> QED BY <4>1 DEF WInv
    <3>2. CASE ~toolCalls
      <4>1. PICK armed \in BOOLEAN : armed = (machine.timerArmed \/ (machine.wakePending /\ machine.pending # {}))
        OBVIOUS
      <4>2. M = [machine EXCEPT !.idle = TRUE, !.timerArmed = armed]
        BY <1>1, <2>2, <3>2, <4>1 DEF turnEnded, Machine
      <4> HIDE <4>1
      <4>3. /\ M \in Machine /\ M.observed = machine.observed /\ M.pending = machine.pending
            /\ M.count = machine.count /\ M.wakePending = machine.wakePending /\ M.on = machine.on
        BY <1>1, <4>2 DEF Machine
      <4> QED BY <3>2, <4>3, FlagsSound DEF WInv
    <3> QED BY <3>1, <3>2
  <2>4. M.idle => busy' = FALSE
    BY <2>1, <2>3
  <2>5. /\ told' \in [MailIds -> Nat] /\ Sound(machine', told') /\ barged' = barged
        /\ machine'.on = M.on /\ machine'.idle = M.idle
    BY <2>1, <2>2, <2>3, <2>4, PollSound DEF WInv
  <2>6. machine'.on /\ busy' \in BOOLEAN /\ (machine'.idle => busy' = FALSE)
    BY <2>1, <2>3, <2>4, <2>5
  <2>7. machine'.on = TRUE
    BY <2>5, <2>6 DEF Sound, Machine
  <2> QED BY <1>0, <2>5, <2>6, <2>7, StaysOn
<1> QED BY <1>2, <1>3, <1>4, <1>5, <1>6, <1>7, <1>8 DEF WakeNext

\* What the senders and the tools write: no task goes, and no intent becomes unclaimed
\* but by its arrival.
LEMMA MailArrives ==
  ASSUME MInv, MailNext \/ PlanNext
  PROVE  /\ Present \subseteq Present'
         /\ \A i \in MailIds : isUnclaimedIntent(i)' => isUnclaimedIntent(i) \/ i \notin Present
<1> DEFINE Goal == /\ \A i \in MailIds : mail[i].type # "none" => mail'[i].type # "none"
                   /\ \A i \in MailIds : isUnclaimedIntent(i)' => isUnclaimedIntent(i) \/ i \notin Present
<1>0. mail \in [MailIds -> Mail]
  BY DEF MInv, MailTyped
<1>1. ASSUME NEW j \in MailIds, NEW t, mail' = [mail EXCEPT ![j] = t], t.type # "none",
             \/ mail[j].type = "none" \/ t.type # "intent" \/ t.status # "pending"
      PROVE  Goal
  <2>1. mail'[j] = t /\ \A i \in MailIds : i # j => mail'[i] = mail[i]
    BY <1>0, <1>1
  <2> QED BY <1>1, <2>1 DEF isUnclaimedIntent, Present
<1>2. ASSUME NEW j \in MailIds, NEW st \in {"pending", "in_progress", "completed"}, NEW owner \in Owners, NEW t,
             t \in {[mail[j] EXCEPT !.status = st], [mail[j] EXCEPT !.status = st, !.owner = owner]},
             mail' = [mail EXCEPT ![j] = t], mail[j].type # "none",
             mail[j].type = "plan" \/ st # "pending"
      PROVE  Goal
  <2>1. t.type = mail[j].type /\ t.status = st
    BY <1>0, <1>2 DEF Mail
  <2> HIDE DEF Goal
  <2> QED BY <1>1, <1>2, <2>1
<1>3. ASSUME UNCHANGED mail PROVE Goal
  BY <1>3 DEF isUnclaimedIntent
<1>4. ASSUME NEW j \in MailIds, NEW date \in Dates, NEW owner \in {"none", "malformed"}, Drop(j, date, owner)
      PROVE  Goal
  <2>1. PICK t : t = [Absent EXCEPT !.type = "intent", !.createdAt = date, !.owner = owner]
    OBVIOUS
  <2>2. mail' = [mail EXCEPT ![j] = t] /\ j \notin Present
    BY <1>4, <2>1 DEF Drop, mutate
  <2>3. t.type = "intent" /\ mail[j].type = "none"
    BY <2>1, <2>2 DEF Absent, Present
  <2> HIDE DEF Goal
  <2> QED BY <1>1, <2>2, <2>3
<1>5. ASSUME NEW me \in Owners, NEW j \in MailIds, mailbox_claim(me, j) PROVE Goal
  <2> HIDE DEF Goal
  <2> QED BY <1>2, <1>5 DEF mailbox_claim, mutate
<1>6. ASSUME NEW j \in MailIds, mailbox_complete(j) PROVE Goal
  <2> HIDE DEF Goal
  <2> QED BY <1>2, <1>6, MailboxAssumption DEF mailbox_complete, mutate
<1>7. ASSUME NEW c \in MailIds, NEW st \in {"pending", "in_progress", "completed"}, mailbox_update(c, st)
      PROVE  Goal
  <2> HIDE DEF Goal
  <2> QED BY <1>2, <1>7, MailboxAssumption DEF mailbox_update, mutate
<1>8. ASSUME NEW me \in Owners, NEW j \in MailIds, NEW n \in 1..2, NEW after \in SUBSET MailIds,
             NEW before \in SUBSET MailIds, mailbox_breakdown(me, j, n, after, before)
      PROVE  Goal
  <2>1. /\ allocateTaskIds(n) \subseteq MailIds /\ mail[j].type = "intent"
        /\ mail' = [Children(j, n, after, before) EXCEPT ![j] = [mail[j] EXCEPT !.status = "in_progress"]]
    BY <1>8 DEF mailbox_breakdown, mutate
  <2>2. PICK ch, new, last, heard :
          /\ ch = Children(j, n, after, before) /\ new = allocateTaskIds(n)
          /\ ch \in [MailIds -> Mail]
          /\ \A c \in MailIds : BrokenDown(j, c, ch[c], new, last, heard)
    BY <2>1, ChildrenAre
  <2>3. PICK t : t = [mail[j] EXCEPT !.status = "in_progress"]
    OBVIOUS
  <2>4. t.type = "intent" /\ t.status = "in_progress"
    BY <1>0, <2>1, <2>3 DEF Mail
  <2>5. mail'[j] = t /\ \A c \in MailIds : c # j => mail'[c] = ch[c]
    BY <2>1, <2>2, <2>3
  <2>6. new \cap Present = {}
    BY <2>2, IdsFree DEF MInv
  <2>7. \A c \in MailIds : c # j =>
          /\ c \in new => mail'[c].type = "plan"
          /\ c \notin new => /\ mail'[c].type = mail[c].type /\ mail'[c].status = mail[c].status
                             /\ mail'[c].owner = mail[c].owner
    BY <2>2, <2>5 DEF BrokenDown
  <2> QED BY <2>4, <2>5, <2>6, <2>7 DEF isUnclaimedIntent, Present
<1>9. Goal
  <2> HIDE DEF Goal
  <2>1. \A k \in MailIds : {k} \in SUBSET MailIds
    OBVIOUS
  <2>2. ASSUME PlanNext PROVE Goal
    <3>1. CASE \E c \in MailIds, st \in {"pending", "in_progress", "completed"} : mailbox_update(c, st)
      BY <1>7, <3>1
    <3>2. ASSUME NEW me \in Owners, NEW j \in MailIds, NEW n \in 1..2,
                 NEW after \in {{}} \cup {{c} : c \in MailIds}, NEW before \in {{}} \cup {{c} : c \in MailIds},
                 mailbox_breakdown(me, j, n, after, before)
          PROVE  Goal
      BY <1>8, <3>2
    <3> QED BY <2>2, <3>1, <3>2 DEF PlanNext
  <2>3. ASSUME MailNext PROVE Goal
    BY <1>3, <1>4, <1>5, <1>6, <2>3 DEF MailNext, Garble
  <2> QED BY <2>2, <2>3
<1> QED BY <1>9 DEF Present

(* Mail the machine has seen is owed a note until it is announced, through *)
(* failed sends, turns and claims by others; in one session no intent is   *)
(* the occasion of more than two notes - a file that cannot be read starts *)
(* the mail it hides anew - and no note is sent into a turn (poll, fire,   *)
(* onTurnEnd, backoffElapsed).                                             *)
THEOREM MailIsAnnounced == MailboxSpec => []MailAnnounced
<1>1. MailboxInit => MInv /\ WInv
  <2> SUFFICES ASSUME MailboxInit PROVE MInv /\ WInv
    OBVIOUS
  <2>1. MInv
    BY DEF MailboxInit, MInv, MailTyped, Mail, Absent, ClosedMeansDone, Present
  <2>2. machine = NoMachine /\ told = Never /\ busy = FALSE /\ barged = 0
    BY DEF MailboxInit
  <2>3. Sound(machine, told) /\ ~machine.on /\ ~machine.idle
    BY <2>2, FreshSound, Zenon
  <2>4. told \in [MailIds -> Nat]
    BY <2>2 DEF Never
  <2> QED BY <2>1, <2>2, <2>3, <2>4 DEF MInv, WInv
<1>2. MInv /\ WInv /\ [MailboxNext]_mailvars => (MInv /\ WInv)'
  <2> SUFFICES ASSUME MInv, WInv, [MailboxNext]_mailvars PROVE WInv'
    BY MailStep
  <2>1. MailTyped'
    BY MailStep DEF MInv
  <2>2. CASE MailNext \/ PlanNext
    <3>1. UNCHANGED <<machine, busy, told, barged>>
      BY <2>2 DEF MailNext, PlanNext, Garble, Drop, mailbox_claim, mailbox_complete,
                  mailbox_breakdown, mailbox_update, mutate, history
    <3>2. /\ Present \subseteq Present'
          /\ \A i \in MailIds : isUnclaimedIntent(i)' => isUnclaimedIntent(i) \/ i \notin Present
      BY <2>2, MailArrives
    <3>3. \A i \in MailIds : told[i] \in Nat /\ machine.count[i] \in Nat
      BY DEF WInv, Sound, Machine
    <3>4. Counted(machine, told)'
      <4> SUFFICES ASSUME NEW i \in MailIds
                   PROVE  /\ isUnclaimedIntent(i)' => told[i] <= machine.count[i]
                          /\ told[i] > 0 => i \in Present'
                          /\ i \in machine.pending => machine.count[i] <= 1
                          /\ told[i] <= 2
        BY <3>1 DEF Counted
      <4>1. /\ isUnclaimedIntent(i) => told[i] <= machine.count[i]
            /\ told[i] > 0 => i \in Present
            /\ i \in machine.pending => machine.count[i] <= 1
            /\ told[i] <= 2
        BY DEF WInv, Sound, Counted
      <4> QED BY <3>2, <3>3, <4>1
    <3>5. Sound(machine, told)'
      BY <3>1, <3>4 DEF Sound, Owing, WInv
    <3> QED BY <2>1, <3>1, <3>5 DEF WInv
  <2>3. CASE UNCHANGED mailvars
    <3>1. UNCHANGED <<mail, machine, busy, told, barged>>
      BY <2>3 DEF mailvars, history
    <3> QED BY <2>1, <3>1 DEF WInv, Sound, Owing, Counted, isUnclaimedIntent, Present
  <2> QED BY <2>2, <2>3, WakeStep DEF MailboxNext
<1>3. WInv => MailAnnounced
  BY DEF WInv, Sound, Owing, Counted, MailAnnounced, MailKept, WakeRestraint
<1> QED BY <1>1, <1>2, <1>3, PTL DEF MailboxSpec

-----------------------------------------------------------------------------
(* Countdowns, reminders and wake-ups.                                     *)

ClearingType == [mode : {"never", "on_list_complete", "on_task_complete"},
                 at : [TurnTaskIds -> Nat \cup {-1}], all : Int, runEnded : BOOLEAN]
CadenceType == [turn : Nat, toolTurn : Int, injected : BOOLEAN, due : BOOLEAN, wakeTurn : Int]
TruthType == [doneAt : [TurnTaskIds -> Int], thisRun : SUBSET TurnTaskIds, early : BOOLEAN,
              lost : BOOLEAN, stray : BOOLEAN, reminded : Nat]
TalkType == [session : Nat, inTurn : BOOLEAN]

\* A countdown began when the task was last completed, or later.
CountsFromDone(C, T, turn) ==
  /\ C \in ClearingType /\ T \in TruthType
  /\ \A i \in TurnTaskIds : T.doneAt[i] <= turn
  /\ C.mode = "on_task_complete" =>
       T.early = FALSE /\ \A i \in TurnTaskIds : C.at[i] # NoTurn => T.doneAt[i] <= C.at[i]

\* The timer is this session's; a reminder that was given is not due again.
PromptsOnce(d, T, s, w) ==
  /\ T.stray = FALSE /\ w \in {0, s}
  /\ T.reminded <= 1 /\ (T.reminded > 0 => d.injected /\ ~d.due)

TurnsInv ==
  /\ cadence \in CadenceType /\ talk \in TalkType
  /\ CountsFromDone(clearing, truth, cadence.turn)
  /\ PromptsOnce(cadence, truth, talk.session, wakeUp)

\* A turn starts: what it clears has lingered.
LEMMA TurnStartsKeeps == ASSUME TurnsInv, TurnStarts PROVE TurnsInv'
<1>1. PICK t : t = cadence.turn + 1
  OBVIOUS
<1>2. PICK b \in BOOLEAN : b = (truth.early \/ \E i \in Expired(t) : t - truth.doneAt[i] < ClearDelay)
  OBVIOUS
<1>0. talk' = [talk EXCEPT !.inTurn = TRUE] /\ cadence' = [cadence EXCEPT !.turn = t]
  BY <1>1 DEF TurnStarts
<1>3. /\ clearing' = Kept(t) /\ wakeUp' = wakeUp
      /\ truth' = [truth EXCEPT !.early = truth.early \/ \E i \in Expired(t) : t - truth.doneAt[i] < ClearDelay]
  BY <1>1, Zenon DEF TurnStarts
<1>4. truth' = [truth EXCEPT !.early = b]
  BY <1>2, <1>3
<1>5. clearing \in ClearingType /\ truth \in TruthType /\ cadence \in CadenceType /\ talk \in TalkType
  BY DEF TurnsInv, CountsFromDone
<1>6. /\ cadence' \in CadenceType /\ cadence'.turn = t /\ cadence'.injected = cadence.injected
      /\ cadence'.due = cadence.due /\ talk' \in TalkType /\ talk'.session = talk.session
  <2>1. t \in Nat
    BY <1>1, <1>5 DEF CadenceType
  <2>2. /\ cadence' \in CadenceType /\ cadence'.turn = t /\ cadence'.injected = cadence.injected
        /\ cadence'.due = cadence.due
    BY <1>0, <1>5, <2>1 DEF CadenceType
  <2>3. talk' \in TalkType /\ talk'.session = talk.session
    BY <1>0, <1>5 DEF TalkType
  <2> QED BY <2>2, <2>3
<1>7. /\ truth' \in TruthType /\ truth'.early = b /\ truth'.doneAt = truth.doneAt
      /\ truth'.stray = truth.stray /\ truth'.reminded = truth.reminded
  BY <1>4, <1>5 DEF TruthType
<1>8. PICK at \in [TurnTaskIds -> Nat \cup {-1}], all \in Int :
        /\ clearing' = [clearing EXCEPT !.at = at, !.all = all]
        /\ \A i \in TurnTaskIds : at[i] \in {NoTurn, clearing.at[i]}
  <2> DEFINE drop(i) == /\ clearing.mode = "on_task_complete"
                        /\ (i \notin In("completed") \/ i \in Expired(t))
             a == [i \in TurnTaskIds |-> IF drop(i) THEN NoTurn ELSE clearing.at[i]]
             over == clearing.mode = "on_list_complete" /\ clearing.all # NoTurn /\ t - clearing.all >= ClearDelay
             al == IF over THEN NoTurn ELSE clearing.all
  <2>1. clearing' = [clearing EXCEPT !.at = a, !.all = al]
    BY <1>3, Zenon DEF Kept
  <2>2. a \in [TurnTaskIds -> Nat \cup {-1}] /\ \A i \in TurnTaskIds : a[i] \in {NoTurn, clearing.at[i]}
    <3> HIDE DEF drop
    <3> QED BY <1>5 DEF ClearingType, NoTurn
  <2>3. al \in Int
    <3> HIDE DEF over
    <3> QED BY <1>5 DEF ClearingType, NoTurn
  <2> HIDE DEF a, al
  <2> QED BY <2>1, <2>2, <2>3
<1>9. clearing' \in ClearingType /\ clearing'.at = at /\ clearing'.mode = clearing.mode
  BY <1>5, <1>8 DEF ClearingType
<1>10. clearing.mode = "on_task_complete" => b = FALSE
  <2> SUFFICES ASSUME clearing.mode = "on_task_complete", NEW i \in Expired(t), t - truth.doneAt[i] < ClearDelay
               PROVE  FALSE
    BY <1>2 DEF TurnsInv, CountsFromDone
  <2>1. i \in TurnTaskIds /\ clearing.at[i] # NoTurn /\ t - clearing.at[i] >= ClearDelay
    BY DEF Expired, In
  <2>2. truth.doneAt[i] <= clearing.at[i]
    BY <2>1 DEF TurnsInv, CountsFromDone
  <2>3. t \in Int /\ truth.doneAt[i] \in Int /\ clearing.at[i] \in Int /\ ClearDelay \in Int
    BY <1>1, <1>5, <2>1, TurnsAssumption DEF TruthType, ClearingType, CadenceType
  <2> QED BY <2>1, <2>2, <2>3
<1>11. CountsFromDone(clearing', truth', cadence'.turn)
  <2>1. \A i \in TurnTaskIds : truth.doneAt[i] \in Int /\ truth.doneAt[i] <= cadence.turn
    BY <1>5 DEF TurnsInv, CountsFromDone, TruthType
  <2>2. \A i \in TurnTaskIds : truth.doneAt[i] <= t
    BY <1>1, <1>5, <2>1 DEF CadenceType
  <2> QED BY <1>6, <1>7, <1>8, <1>9, <1>10, <2>2 DEF TurnsInv, CountsFromDone
<1>12. PromptsOnce(cadence', truth', talk'.session, wakeUp')
  BY <1>3, <1>6, <1>7 DEF TurnsInv, PromptsOnce
<1> QED BY <1>6, <1>11, <1>12 DEF TurnsInv

\* A task is completed: its countdown, if it has one of its own, begins now.
LEMMA CompletesKeeps ==
  ASSUME TurnsInv, NEW i \in TurnTaskIds, NEW agent, Completes(i, agent) PROVE TurnsInv'
<1>1. clearing \in ClearingType /\ truth \in TruthType /\ cadence \in CadenceType /\ cadence.turn \in Nat
  BY DEF TurnsInv, CountsFromDone, CadenceType
<1>2. UNCHANGED <<cadence, wakeUp, talk>>
  BY DEF Completes
<1>3. PICK l : clearing' = trackCompletion(i, l)
  BY DEF Completes
<1>4. /\ clearing' \in ClearingType /\ clearing'.mode = clearing.mode
      /\ clearing.mode = "on_task_complete" => clearing'.at = [clearing.at EXCEPT ![i] = cadence.turn]
  <2>1. CASE clearing.mode = "on_task_complete"
    <3>1. PICK at : at = [clearing.at EXCEPT ![i] = cadence.turn]
      OBVIOUS
    <3>2. at \in [TurnTaskIds -> Nat \cup {-1}]
      BY <1>1, <3>1 DEF ClearingType
    <3>3. clearing' = [clearing EXCEPT !.at = at]
      BY <1>1, <1>3, <2>1, <3>1 DEF trackCompletion, ClearingType
    <3> QED BY <1>1, <2>1, <3>1, <3>2, <3>3 DEF ClearingType
  <2>2. CASE clearing.mode # "on_task_complete"
    <3>1. PICK a \in Int : clearing' \in {clearing, [clearing EXCEPT !.all = a]}
      <4>1. cadence.turn \in Int /\ NoTurn \in Int
        BY <1>1 DEF NoTurn
      <4>2. clearing' \in {clearing, [clearing EXCEPT !.all = cadence.turn], [clearing EXCEPT !.all = NoTurn]}
        BY <1>3, <2>2 DEF trackCompletion
      <4> QED BY <4>1, <4>2
    <3> QED BY <1>1, <2>2, <3>1 DEF ClearingType
  <2> QED BY <2>1, <2>2
<1>5. /\ truth' \in TruthType /\ truth'.early = truth.early /\ truth'.stray = truth.stray
      /\ truth'.reminded = truth.reminded
      /\ truth'.doneAt \in {truth.doneAt, [truth.doneAt EXCEPT ![i] = cadence.turn]}
  <2>1. CASE truth' = truth
    BY <1>1, <2>1
  <2>2. CASE truth' # truth
    <3>1. PICK d : d = [truth.doneAt EXCEPT ![i] = cadence.turn]
      OBVIOUS
    <3>2. d \in [TurnTaskIds -> Int]
      BY <1>1, <3>1 DEF TruthType
    <3>3. truth' = [truth EXCEPT !.doneAt = d, !.thisRun = @ \cup {i}]
      BY <1>1, <2>2, <3>1 DEF Completes, TruthType
    <3> HIDE <3>1
    <3>4. /\ truth' \in TruthType /\ truth'.early = truth.early /\ truth'.stray = truth.stray
          /\ truth'.reminded = truth.reminded /\ truth'.doneAt = d
      BY <1>1, <3>2, <3>3 DEF TruthType
    <3> QED BY <3>1, <3>4
  <2> QED BY <2>1, <2>2
<1>6. CountsFromDone(clearing', truth', cadence.turn)
  <2>1. \A j \in TurnTaskIds : truth.doneAt[j] \in Int /\ truth.doneAt[j] <= cadence.turn
    BY <1>1 DEF TurnsInv, CountsFromDone, TruthType
  <2>2. \A j \in TurnTaskIds : truth'.doneAt[j] = truth.doneAt[j] \/ (j = i /\ truth'.doneAt[j] = cadence.turn)
    BY <1>1, <1>5 DEF TruthType
  <2>3. \A j \in TurnTaskIds : truth'.doneAt[j] <= cadence.turn
    BY <1>1, <2>1, <2>2
  <2>4. ASSUME clearing.mode = "on_task_complete", NEW j \in TurnTaskIds, clearing'.at[j] # NoTurn
        PROVE  truth'.doneAt[j] <= clearing'.at[j]
    <3>1. CASE j = i
      BY <1>1, <1>4, <2>3, <2>4, <3>1 DEF ClearingType
    <3>2. CASE j # i
      BY <1>1, <1>4, <2>2, <2>4, <3>2 DEF ClearingType, TurnsInv, CountsFromDone
    <3> QED BY <3>1, <3>2
  <2> QED BY <1>4, <1>5, <2>3, <2>4 DEF TurnsInv, CountsFromDone
<1>7. PromptsOnce(cadence, truth', talk.session, wakeUp)
  BY <1>5 DEF TurnsInv, PromptsOnce
<1> QED BY <1>1, <1>2, <1>6, <1>7 DEF TurnsInv

\* The task is open again or gone: when it was done is forgotten with it.
LEMMA ReopensKeeps ==
  ASSUME TurnsInv, NEW i \in TurnTaskIds, NEW t, NEW reset \in BOOLEAN, Reopens(i, t, reset)
  PROVE  TurnsInv'
<1>1. clearing \in ClearingType /\ truth \in TruthType /\ cadence \in CadenceType /\ cadence.turn \in Nat
  BY DEF TurnsInv, CountsFromDone, CadenceType
<1>2. UNCHANGED <<cadence, wakeUp, talk>>
  BY DEF Reopens
<1>3. clearing' \in ClearingType /\ clearing'.mode = clearing.mode /\ clearing'.at = clearing.at
  <2>1. clearing' \in {clearing, [clearing EXCEPT !.all = NoTurn]} /\ NoTurn \in Int
    BY DEF Reopens, NoTurn
  <2> QED BY <1>1, <2>1 DEF ClearingType
<1>4. PICK d : d = [truth.doneAt EXCEPT ![i] = NoTurn] /\ d \in [TurnTaskIds -> Int]
  <2>1. [truth.doneAt EXCEPT ![i] = NoTurn] \in [TurnTaskIds -> Int]
    BY <1>1 DEF TruthType, NoTurn
  <2> QED BY <2>1
<1>5. truth' = [truth EXCEPT !.thisRun = @ \ {i}, !.doneAt = d]
  BY <1>1, <1>4 DEF Reopens, TruthType
<1>6. /\ truth' \in TruthType /\ truth'.early = truth.early /\ truth'.stray = truth.stray
      /\ truth'.reminded = truth.reminded /\ truth'.doneAt = d
  <2> HIDE <1>2, <1>3
  <2> QED BY <1>1, <1>4, <1>5 DEF TruthType
<1>7. CountsFromDone(clearing', truth', cadence.turn)
  <2>1. \A j \in TurnTaskIds : /\ truth.doneAt[j] \in Int /\ truth.doneAt[j] <= cadence.turn
                               /\ clearing.at[j] \in Nat \cup {-1}
    BY <1>1 DEF TurnsInv, CountsFromDone, TruthType, ClearingType
  <2>2. \A j \in TurnTaskIds : d[j] = IF j = i THEN -1 ELSE truth.doneAt[j]
    BY <1>1, <1>4 DEF TruthType, NoTurn
  <2>3. \A j \in TurnTaskIds : d[j] <= cadence.turn
    BY <1>1, <2>1, <2>2
  <2>4. ASSUME clearing.mode = "on_task_complete", NEW j \in TurnTaskIds, clearing.at[j] # NoTurn
        PROVE  d[j] <= clearing.at[j] \/ j = i
    BY <2>2, <2>4 DEF TurnsInv, CountsFromDone
  <2>5. ASSUME clearing.mode = "on_task_complete", clearing.at[i] # NoTurn PROVE d[i] <= clearing.at[i]
    BY <2>1, <2>2
  <2> QED BY <1>3, <1>6, <2>3, <2>4, <2>5 DEF TurnsInv, CountsFromDone
<1>8. PromptsOnce(cadence, truth', talk.session, wakeUp)
  BY <1>6 DEF TurnsInv, PromptsOnce
<1> QED BY <1>1, <1>2, <1>7, <1>8 DEF TurnsInv

\* A new task: countdowns may end, none begins.
LEMMA CreateTaskKeeps == ASSUME TurnsInv, NEW typed \in BOOLEAN, TaskCreate(typed) PROVE TurnsInv'
<1>1. clearing \in ClearingType /\ truth \in TruthType /\ cadence \in CadenceType
  BY DEF TurnsInv, CountsFromDone
<1>2. UNCHANGED <<cadence, wakeUp, talk>>
  BY DEF TaskCreate
<1> DEFINE sweep == clearing.runEnded /\ clearing.mode # "never" /\ AllCompleted
           gone == IF sweep THEN Listed ELSE {}
           none == [i \in TurnTaskIds |-> NoTurn]
<1>3. PICK at : at = IF sweep THEN none ELSE clearing.at
  OBVIOUS
<1>4. PICK b \in BOOLEAN : b = (truth.lost \/ gone \cap truth.thisRun # {})
  OBVIOUS
<1>5. clearing' = [clearing EXCEPT !.all = NoTurn, !.runEnded = FALSE, !.at = at]
  BY <1>3, Zenon DEF TaskCreate
<1>6. truth' = [truth EXCEPT !.lost = b]
  <2>1. truth' = [truth EXCEPT !.lost = truth.lost \/ gone \cap truth.thisRun # {}]
    BY Zenon DEF TaskCreate
  <2> HIDE DEF gone
  <2> QED BY <1>4, <2>1
<1>7. at \in [TurnTaskIds -> Nat \cup {-1}] /\ \A i \in TurnTaskIds : at[i] \in {NoTurn, clearing.at[i]}
  <2>1. none \in [TurnTaskIds -> Nat \cup {-1}] /\ \A i \in TurnTaskIds : none[i] = NoTurn
    BY DEF NoTurn
  <2> HIDE DEF none, sweep
  <2> QED BY <1>1, <1>3, <2>1 DEF ClearingType
<1> HIDE <1>3, <1>4 DEF sweep, gone, none
<1>8. clearing' \in ClearingType /\ clearing'.mode = clearing.mode /\ clearing'.at = at
  <2>1. NoTurn \in Int
    BY DEF NoTurn
  <2> QED BY <1>1, <1>5, <1>7, <2>1 DEF ClearingType
<1>9. /\ truth' \in TruthType /\ truth'.early = truth.early /\ truth'.stray = truth.stray
      /\ truth'.reminded = truth.reminded /\ truth'.doneAt = truth.doneAt
  BY <1>1, <1>4, <1>6 DEF TruthType
<1>10. CountsFromDone(clearing', truth', cadence.turn)
  BY <1>7, <1>8, <1>9 DEF TurnsInv, CountsFromDone
<1>11. PromptsOnce(cadence, truth', talk.session, wakeUp)
  BY <1>9 DEF TurnsInv, PromptsOnce
<1> QED BY <1>1, <1>2, <1>10, <1>11 DEF TurnsInv

\* The steps of the reminders and of the timer: the countdowns are left alone.
LEMMA PromptingKeeps ==
  ASSUME TurnsInv, clearing' = clearing, truth' \in TruthType, cadence' \in CadenceType, talk' \in TalkType,
         truth'.doneAt = truth.doneAt, truth'.early = truth.early, cadence'.turn = cadence.turn,
         PromptsOnce(cadence', truth', talk'.session, wakeUp')
  PROVE  TurnsInv'
<1>1. CountsFromDone(clearing', truth', cadence'.turn)
  BY DEF TurnsInv, CountsFromDone
<1> QED BY <1>1 DEF TurnsInv

\* A turn ends, and may set the timer of the session that is on.
LEMMA TurnEndsKeeps == ASSUME TurnsInv, NEW had \in BOOLEAN, TurnEnds(had) PROVE TurnsInv'
<1>1. truth \in TruthType /\ cadence \in CadenceType /\ talk \in TalkType
  BY DEF TurnsInv, CountsFromDone
<1> DEFINE late == /\ ~cadence.injected
                   /\ cadence.turn - cadence.toolTurn >= ShortInterval
                   /\ In("in_progress") # {}
           wake == ~had /\ hasUnfinishedWork /\ shouldFireIdleWakeUp
<1>2. PICK due \in BOOLEAN : due = (cadence.due \/ late)
  OBVIOUS
<1>3. PICK w \in Int : w = IF wake THEN cadence.turn ELSE cadence.wakeTurn
  <2> HIDE DEF wake
  <2>1. (IF wake THEN cadence.turn ELSE cadence.wakeTurn) \in Int
    BY <1>1 DEF CadenceType
  <2> QED BY <2>1
<1>4. cadence' = [cadence EXCEPT !.due = due, !.wakeTurn = w]
  <2>1. cadence' = [cadence EXCEPT !.due = cadence.due \/ late,
                                   !.wakeTurn = IF wake THEN cadence.turn ELSE cadence.wakeTurn]
    BY Zenon DEF TurnEnds
  <2> HIDE DEF late, wake
  <2> QED BY <1>2, <1>3, <2>1
<1>5. wakeUp' \in {wakeUp, talk.session} /\ talk' = [talk EXCEPT !.inTurn = FALSE] /\ UNCHANGED <<clearing, truth>>
  BY DEF TurnEnds
<1>6. cadence.injected => due = cadence.due
  BY <1>1, <1>2 DEF CadenceType
<1> HIDE <1>2, <1>3 DEF late, wake
<1>7. /\ cadence' \in CadenceType /\ cadence'.turn = cadence.turn /\ cadence'.due = due
      /\ cadence'.injected = cadence.injected
  BY <1>1, <1>2, <1>3, <1>4 DEF CadenceType
<1>8. talk' \in TalkType /\ talk'.session = talk.session
  BY <1>1, <1>5 DEF TalkType
<1>9. PromptsOnce(cadence', truth', talk'.session, wakeUp')
  BY <1>5, <1>6, <1>7, <1>8 DEF TurnsInv, PromptsOnce
<1> QED BY <1>1, <1>5, <1>7, <1>8, <1>9, PromptingKeeps

\* The timer, the tool results and the context.
LEMMA RemindersKeep ==
  ASSUME TurnsInv, wakeUpTimer \/ Context \/ ToolResult(TRUE) \/ ToolResult(FALSE) PROVE TurnsInv'
<1>1. truth \in TruthType /\ cadence \in CadenceType /\ talk \in TalkType
  BY DEF TurnsInv, CountsFromDone
<1>0. cadence.turn \in Int
  BY <1>1 DEF CadenceType
<1>2. CASE wakeUpTimer
  <2>1. PICK b \in BOOLEAN : b = (truth.stray \/ (hasUnfinishedWork /\ wakeUp # talk.session))
    OBVIOUS
  <2>2. wakeUp' = 0 /\ wakeUp # 0 /\ UNCHANGED <<clearing, cadence, talk>>
    BY <1>2 DEF wakeUpTimer
  <2>3. truth' = [truth EXCEPT !.stray = b]
    <3>1. truth' = [truth EXCEPT !.stray = truth.stray \/ (hasUnfinishedWork /\ wakeUp # talk.session)]
      BY <1>2, Zenon DEF wakeUpTimer
    <3> QED BY <2>1, <3>1
  <2>4. b = FALSE
    BY <2>1, <2>2 DEF TurnsInv, PromptsOnce
  <2>5. /\ truth' \in TruthType /\ truth'.early = truth.early /\ truth'.stray = b
        /\ truth'.reminded = truth.reminded /\ truth'.doneAt = truth.doneAt
    BY <1>1, <2>3 DEF TruthType
  <2>6. PromptsOnce(cadence', truth', talk'.session, wakeUp')
    BY <2>2, <2>4, <2>5 DEF TurnsInv, PromptsOnce
  <2> QED BY <1>1, <2>2, <2>5, <2>6, PromptingKeeps
<1>3. CASE Context
  <2>1. /\ cadence.due /\ cadence' = [cadence EXCEPT !.due = FALSE, !.injected = TRUE, !.toolTurn = cadence.turn]
        /\ truth' = [truth EXCEPT !.reminded = @ + 1] /\ UNCHANGED <<clearing, wakeUp, talk>>
    BY <1>3 DEF Context, drainReminderForContext
  <2>2. /\ cadence' \in CadenceType /\ cadence'.turn = cadence.turn /\ cadence'.due = FALSE
        /\ cadence'.injected = TRUE
    BY <1>0, <1>1, <2>1 DEF CadenceType
  <2>3. /\ truth' \in TruthType /\ truth'.early = truth.early /\ truth'.stray = truth.stray
        /\ truth'.reminded = truth.reminded + 1 /\ truth'.doneAt = truth.doneAt
    BY <1>1, <2>1 DEF TruthType
  <2>4. truth.reminded = 0
    BY <1>1, <2>1 DEF TurnsInv, PromptsOnce, TruthType
  <2>5. PromptsOnce(cadence', truth', talk'.session, wakeUp')
    BY <2>1, <2>2, <2>3, <2>4 DEF TurnsInv, PromptsOnce
  <2> QED BY <1>1, <2>1, <2>2, <2>3, <2>5, PromptingKeeps
<1>4. CASE ToolResult(TRUE)
  <2>1. /\ cadence' = [cadence EXCEPT !.toolTurn = cadence.turn, !.injected = FALSE, !.due = FALSE]
        /\ truth' = [truth EXCEPT !.reminded = 0] /\ UNCHANGED <<clearing, wakeUp, talk>>
    BY <1>4 DEF ToolResult, toolResultCadence
  <2>2. cadence' \in CadenceType /\ cadence'.turn = cadence.turn
    BY <1>0, <1>1, <2>1 DEF CadenceType
  <2>3. /\ truth' \in TruthType /\ truth'.early = truth.early /\ truth'.stray = truth.stray
        /\ truth'.reminded = 0 /\ truth'.doneAt = truth.doneAt
    BY <1>1, <2>1 DEF TruthType
  <2>4. PromptsOnce(cadence', truth', talk'.session, wakeUp')
    BY <2>1, <2>3 DEF TurnsInv, PromptsOnce
  <2> QED BY <1>1, <2>1, <2>2, <2>3, <2>4, PromptingKeeps
<1>5. CASE ToolResult(FALSE)
  <2>1. UNCHANGED <<clearing, wakeUp, talk, truth>>
        /\ (cadence' = cadence \/ (~cadence.injected /\ cadence' = [cadence EXCEPT !.due = TRUE]))
    BY <1>5 DEF ToolResult, toolResultCadence
  <2>2. /\ cadence' \in CadenceType /\ cadence'.turn = cadence.turn /\ cadence'.injected = cadence.injected
        /\ cadence'.due = cadence.due \/ ~cadence.injected
    BY <1>0, <1>1, <2>1 DEF CadenceType
  <2>3. PromptsOnce(cadence', truth', talk'.session, wakeUp')
    BY <2>1, <2>2 DEF TurnsInv, PromptsOnce
  <2> QED BY <1>1, <2>1, <2>2, <2>3, PromptingKeeps
<1> QED BY <1>2, <1>3, <1>4, <1>5

\* A session begins with countdowns, cadence and timer as new.
LEMMA FreshKeeps ==
  ASSUME NEW mode \in {"never", "on_list_complete", "on_task_complete"},
         NEW runEnded \in BOOLEAN, NEW T \in TruthType, T.stray = FALSE,
         mode = "on_task_complete" => T.early = FALSE, NEW s
  PROVE  /\ createCadenceState \in CadenceType /\ createCadenceState.turn = 0
         /\ LET C == [FreshClearing(mode) EXCEPT !.runEnded = runEnded]
                U == [FreshTruth EXCEPT !.early = T.early, !.lost = T.lost, !.stray = T.stray]
            IN /\ CountsFromDone(C, U, 0) /\ PromptsOnce(createCadenceState, U, s, 0)
<1>1. PICK z \in [TurnTaskIds -> Nat \cup {-1}] :
        z = [i \in TurnTaskIds |-> NoTurn] /\ \A i \in TurnTaskIds : z[i] = -1
  <2> DEFINE z == [i \in TurnTaskIds |-> NoTurn]
  <2>1. z \in [TurnTaskIds -> Nat \cup {-1}] /\ \A i \in TurnTaskIds : z[i] = -1
    BY DEF NoTurn
  <2> QED BY <2>1
<1>2. PICK C : C = [FreshClearing(mode) EXCEPT !.runEnded = runEnded]
  OBVIOUS
<1>3. PICK U : U = [FreshTruth EXCEPT !.early = T.early, !.lost = T.lost, !.stray = T.stray]
  OBVIOUS
<1>4. C = [mode |-> mode, at |-> z, all |-> -1, runEnded |-> runEnded]
  BY <1>1, <1>2 DEF FreshClearing, NoTurn
<1>5. U = [doneAt |-> z, thisRun |-> {}, early |-> T.early, lost |-> T.lost, stray |-> T.stray, reminded |-> 0]
  BY <1>1, <1>3 DEF FreshTruth
<1>6. z \in [TurnTaskIds -> Int]
  BY <1>1
<1>7. C \in ClearingType /\ C.mode = mode /\ C.at = z
  BY <1>4 DEF ClearingType
<1>8. U \in TruthType /\ U.doneAt = z /\ U.early = T.early /\ U.stray = T.stray /\ U.reminded = 0
  BY <1>5, <1>6 DEF TruthType
<1>9. CountsFromDone(C, U, 0)
  BY <1>1, <1>7, <1>8 DEF CountsFromDone, NoTurn
<1>10. PromptsOnce(createCadenceState, U, s, 0)
  BY <1>8 DEF PromptsOnce
<1>11. createCadenceState \in CadenceType /\ createCadenceState.turn = 0
  BY DEF createCadenceState, CadenceType, NoTurn
<1> QED BY <1>2, <1>3, <1>9, <1>10, <1>11

\* A session switch starts everything anew; the timer is gone with the session.
LEMMA SwitchKeeps ==
  ASSUME TurnsInv, NEW reason \in {"new", "resume", "fork"}, SessionSwitch(reason) PROVE TurnsInv'
<1>1. clearing \in ClearingType /\ truth \in TruthType /\ talk \in TalkType
  BY DEF TurnsInv, CountsFromDone
<1>2. PICK r \in BOOLEAN : r = (reason # "new")
  OBVIOUS
<1>3. /\ talk' = [session |-> talk.session + 1, inTurn |-> FALSE]
      /\ cadence' = createCadenceState /\ wakeUp' = 0
      /\ clearing' = [FreshClearing(clearing.mode) EXCEPT !.runEnded = reason # "new"]
      /\ truth' = [FreshTruth EXCEPT !.early = truth.early, !.lost = truth.lost, !.stray = truth.stray]
  BY Zenon DEF SessionSwitch
<1>4. clearing' = [FreshClearing(clearing.mode) EXCEPT !.runEnded = r]
  BY <1>2, <1>3
<1>5. /\ clearing.mode \in {"never", "on_list_complete", "on_task_complete"} /\ truth.stray = FALSE
      /\ clearing.mode = "on_task_complete" => truth.early = FALSE
  BY <1>1 DEF TurnsInv, CountsFromDone, PromptsOnce, ClearingType
<1>6. talk' \in TalkType
  BY <1>1, <1>3 DEF TalkType
<1>7. cadence' \in CadenceType /\ cadence'.turn = 0
  BY <1>3, <1>1, <1>5, FreshKeeps
<1>8. CountsFromDone(clearing', truth', 0) /\ PromptsOnce(cadence', truth', talk'.session, 0)
  <2>1. /\ CountsFromDone([FreshClearing(clearing.mode) EXCEPT !.runEnded = r],
            [FreshTruth EXCEPT !.early = truth.early, !.lost = truth.lost, !.stray = truth.stray], 0)
        /\ PromptsOnce(createCadenceState,
            [FreshTruth EXCEPT !.early = truth.early, !.lost = truth.lost, !.stray = truth.stray],
            talk'.session, 0)
    BY <1>1, <1>2, <1>5, FreshKeeps
  <2> QED BY <1>3, <1>4, <2>1, Zenon
<1> QED BY <1>3, <1>6, <1>7, <1>8 DEF TurnsInv

\* Every step keeps the countdowns and the prompts.
LEMMA TurnsStep == TurnsInv /\ [TurnsNext]_turnvars => TurnsInv'
<1> SUFFICES ASSUME TurnsInv, [TurnsNext]_turnvars PROVE TurnsInv'
  OBVIOUS
<1>1. CASE UNCHANGED <<clearing, cadence, wakeUp, talk, truth>>
  BY <1>1 DEF TurnsInv
<1>2. CASE AgentSettled
  <2>1. clearing \in ClearingType /\ truth \in TruthType
    BY DEF TurnsInv, CountsFromDone
  <2>2. /\ clearing' = [clearing EXCEPT !.runEnded = TRUE] /\ truth' = [truth EXCEPT !.thisRun = {}]
        /\ UNCHANGED <<cadence, wakeUp, talk>>
    BY <1>2 DEF AgentSettled
  <2>3. clearing' \in ClearingType /\ clearing'.mode = clearing.mode /\ clearing'.at = clearing.at
    BY <2>1, <2>2 DEF ClearingType
  <2>4. /\ truth' \in TruthType /\ truth'.early = truth.early /\ truth'.stray = truth.stray
        /\ truth'.reminded = truth.reminded /\ truth'.doneAt = truth.doneAt
    BY <2>1, <2>2 DEF TruthType
  <2> QED BY <2>2, <2>3, <2>4 DEF TurnsInv, CountsFromDone, PromptsOnce
<1>3. ASSUME NEW i \in TurnTaskIds, NEW st \in {"pending", "in_progress", "completed", "deleted"}, TaskUpdate(i, st)
      PROVE  TurnsInv'
  <2>1. (\E a : Completes(i, a)) \/ (\E t : \E reset \in BOOLEAN : Reopens(i, t, reset))
    <3>1. CASE st = "completed"
      BY <1>3, <3>1 DEF TaskUpdate
    <3>2. CASE st = "deleted"
      <4>1. Reopens(i, NoTurnTask, FALSE)
        BY <1>3, <3>2 DEF TaskUpdate
      <4> QED BY <4>1
    <3>3. CASE st \in {"pending", "in_progress"}
      <4>1. Reopens(i, [tasklist[i] EXCEPT !.st = st], TRUE)
        BY <1>3, <3>3 DEF TaskUpdate
      <4> QED BY <4>1
    <3> QED BY <3>1, <3>2, <3>3
  <2> QED BY <2>1, CompletesKeeps, ReopensKeeps
<1>4. ASSUME NEW i \in TurnTaskIds, NEW action, menuAction(i, action) PROVE TurnsInv'
  BY <1>4, CompletesKeeps, ReopensKeeps DEF menuAction
<1>5. ASSUME NEW i \in TurnTaskIds, NEW outcome, agentEvent(i, outcome) PROVE TurnsInv'
  BY <1>5, CompletesKeeps, ReopensKeeps DEF agentEvent
<1>6. ASSUME NEW i \in TurnTaskIds, TaskExecute(i) \/ TaskStop(i) PROVE TurnsInv'
  BY <1>6, CompletesKeeps, ReopensKeeps DEF TaskExecute, TaskStop
<1>7. CASE menuCreate
  BY <1>1, <1>7 DEF menuCreate
<1>8. ASSUME NEW b, menuClear(b) PROVE TurnsInv'
  BY <1>1, <1>8 DEF menuClear
<1>9. CASE ListLife
  BY <1>2, <1>3, <1>4, <1>5, <1>6, <1>7, <1>8, <1>9, TurnStartsKeeps, TurnEndsKeeps, CreateTaskKeeps
     DEF ListLife
<1>10. CASE Prompting
  BY <1>3, <1>5, <1>6, <1>10, TurnStartsKeeps, TurnEndsKeeps, CreateTaskKeeps, RemindersKeep, SwitchKeeps
     DEF Prompting
<1>11. CASE UNCHANGED turnvars
  BY <1>1, <1>11 DEF turnvars
<1> QED BY <1>9, <1>10, <1>11 DEF TurnsNext

\* At the first session everything is new.
LEMMA TurnsStart == TurnsInit => TurnsInv
<1> SUFFICES ASSUME TurnsInit PROVE TurnsInv
  OBVIOUS
<1>1. PICK mode \in {"never", "on_list_complete", "on_task_complete"} : clearing = FreshClearing(mode)
  BY DEF TurnsInit
<1>2. truth = FreshTruth /\ cadence = createCadenceState /\ wakeUp = 0 /\ talk = [session |-> 1, inTurn |-> FALSE]
  BY DEF TurnsInit
<1>3. /\ FreshTruth \in TruthType /\ FreshTruth.early = FALSE /\ FreshTruth.stray = FALSE /\ FreshTruth.lost = FALSE
      /\ FreshTruth = [FreshTruth EXCEPT !.early = FreshTruth.early, !.lost = FreshTruth.lost,
                                         !.stray = FreshTruth.stray]
  <2>1. PICK z : z = [i \in TurnTaskIds |-> NoTurn] /\ z \in [TurnTaskIds -> Int]
    <3>1. [i \in TurnTaskIds |-> NoTurn] \in [TurnTaskIds -> Int]
      BY DEF NoTurn
    <3> QED BY <3>1
  <2>2. FreshTruth = [doneAt |-> z, thisRun |-> {}, early |-> FALSE, lost |-> FALSE, stray |-> FALSE, reminded |-> 0]
    BY <2>1 DEF FreshTruth
  <2> HIDE <2>1
  <2> QED BY <2>1, <2>2 DEF TruthType
<1>4. FreshClearing(mode) = [FreshClearing(mode) EXCEPT !.runEnded = FALSE]
  <2>1. PICK C : C = FreshClearing(mode)
    OBVIOUS
  <2>2. PICK z : z = [i \in TurnTaskIds |-> NoTurn] /\ z \in [TurnTaskIds -> Nat \cup {-1}]
    <3>1. [i \in TurnTaskIds |-> NoTurn] \in [TurnTaskIds -> Nat \cup {-1}]
      BY DEF NoTurn
    <3> QED BY <3>1
  <2>3. C = [mode |-> mode, at |-> z, all |-> -1, runEnded |-> FALSE]
    BY <2>1, <2>2 DEF FreshClearing, NoTurn
  <2>4. C \in ClearingType /\ C.runEnded = FALSE
    <3> HIDE <2>1
    <3> QED BY <2>2, <2>3 DEF ClearingType
  <2>5. C = [C EXCEPT !.runEnded = FALSE]
    <3> HIDE <2>1, <2>2, <2>3
    <3> QED BY <2>4 DEF ClearingType
  <2> QED BY <2>1, <2>5, Zenon
<1>5. /\ cadence \in CadenceType /\ cadence.turn = 0
      /\ CountsFromDone([FreshClearing(mode) EXCEPT !.runEnded = FALSE],
                        [FreshTruth EXCEPT !.early = FreshTruth.early, !.lost = FreshTruth.lost,
                                           !.stray = FreshTruth.stray], 0)
      /\ PromptsOnce(createCadenceState,
                     [FreshTruth EXCEPT !.early = FreshTruth.early, !.lost = FreshTruth.lost,
                                        !.stray = FreshTruth.stray], talk.session, 0)
  BY <1>2, <1>3, FreshKeeps
<1>6. talk \in TalkType
  BY <1>2 DEF TalkType
<1>7. CountsFromDone(clearing, truth, cadence.turn) /\ PromptsOnce(cadence, truth, talk.session, wakeUp)
  BY <1>1, <1>2, <1>3, <1>4, <1>5
<1> QED BY <1>5, <1>6, <1>7 DEF TurnsInv

(* A completed task lingers: in on_task_complete mode no turn clears it    *)
(* sooner than ClearDelay turns after it was last completed, whatever      *)
(* reverts, completions and creations came in between (AutoClearManager).  *)
THEOREM CompletedTasksLinger == TurnsSpec => []Lingers
<1>1. TurnsInv => Lingers
  BY DEF TurnsInv, CountsFromDone, Lingers
<1> QED BY <1>1, TurnsStart, TurnsStep, PTL DEF TurnsSpec

(* The model is prompted for the list it is working on and not over and    *)
(* over: no timer of one session speaks in another, and between two uses   *)
(* of a task tool at most one reminder is given (reminder-cadence,         *)
(* scheduleIdleWakeUpIfApplicable).                                        *)
THEOREM PromptsAreRight == TurnsSpec => []PromptedRight
<1>1. TurnsInv => PromptedRight
  BY DEF TurnsInv, PromptsOnce, PromptedRight, WakeOwnSession, RemindedOnce
<1> QED BY <1>1, TurnsStart, TurnsStep, PTL DEF TurnsSpec

-----------------------------------------------------------------------------
(* The sidebar: the overlay, and the rows it was last filled with.         *)

OptionsType == [width : {"rail", "gutter", "panel"}, floating : BOOLEAN]
OverlayType == [component : BOOLEAN, handle : BOOLEAN, hidden : BOOLEAN, options : OptionsType]

OverlayInv == overlay \in OverlayType /\ OverlayCurrent

\* What the options are.
LEMMA OptionsTyped == ASSUME NEW p PROVE sidebarOverlayOptions(p) \in OptionsType
<1>1. PICK w \in {"rail", "gutter", "panel"} :
        w = IF p.collapsed THEN "rail" ELSE IF p.fullHeight THEN "gutter" ELSE "panel"
  OBVIOUS
<1>2. PICK f \in BOOLEAN : f = ~p.fullHeight
  OBVIOUS
<1>3. sidebarOverlayOptions(p) = [width |-> w, floating |-> f]
  BY <1>1, <1>2, Zenon DEF sidebarOverlayOptions
<1> HIDE <1>1, <1>2
<1> QED BY <1>3 DEF OptionsType

\* applyVisibility makes the host's options and the visibility those of the state.
LEMMA VisibilityApplied ==
  ASSUME NEW o \in OverlayType, applyVisibility(panel', o), autohide' = autohide PROVE OverlayInv'
<1>1. PICK h \in BOOLEAN : h = shouldHideSidebar(panel')
  BY DEF shouldHideSidebar
<1>2. PICK x \in BOOLEAN : x = IF o.handle THEN h ELSE o.hidden
  BY DEF OverlayType
<1>3. PICK opts \in OptionsType : opts = sidebarOverlayOptions(panel')
  BY OptionsTyped
<1>4. overlay' = [o EXCEPT !.options = opts, !.hidden = x]
  BY <1>1, <1>2, <1>3, Zenon DEF applyVisibility
<1>5. (o.handle => x = h)
  BY <1>2
<1>6. h = shouldHideSidebar(panel)' /\ opts = sidebarOverlayOptions(panel)'
  BY <1>1, <1>3 DEF shouldHideSidebar, sidebarOverlayOptions
<1> HIDE <1>1, <1>2, <1>3
<1>7. overlay' \in OverlayType /\ overlay'.options = opts /\ overlay'.hidden = x /\ overlay'.handle = o.handle
  BY <1>4 DEF OverlayType
<1> QED BY <1>5, <1>6, <1>7, Zenon DEF OverlayInv, OverlayCurrent

\* Every step leaves the host with what the state says.
LEMMA OverlayStep == OverlayInv /\ [PanelNext]_panelvars => OverlayInv'
<1> SUFFICES ASSUME OverlayInv, [PanelNext]_panelvars PROVE OverlayInv'
  OBVIOUS
<1>0. CASE UNCHANGED <<panel, autohide, overlay>>
  BY <1>0 DEF OverlayInv, OverlayCurrent, shouldHideSidebar, sidebarOverlayOptions
<1>1. overlay \in OverlayType /\ startSidebar(overlay) \in OverlayType
  BY DEF OverlayInv, OverlayType, startSidebar
<1>2. CASE SessionStart
  <2>1. panel' = panel /\ autohide' = autohide
    BY <1>2 DEF SessionStart
  <2>2. CASE overlay.component
    BY <1>0, <1>2, <2>1, <2>2 DEF SessionStart
  <2>3. CASE ~overlay.component
    <3>1. applyVisibility(panel', startSidebar(overlay))
      BY <1>2, <2>1, <2>3 DEF SessionStart
    <3> QED BY <1>1, <2>1, <3>1, VisibilityApplied
  <2> QED BY <2>2, <2>3
<1>3. ASSUME NEW disposed \in BOOLEAN, SessionShutdown(disposed) PROVE OverlayInv'
  <2>1. PICK c \in BOOLEAN : c = ~disposed
    OBVIOUS
  <2>2. overlay' = [overlay EXCEPT !.handle = FALSE, !.hidden = TRUE, !.component = c]
    BY <1>3, <2>1 DEF SessionShutdown
  <2> HIDE <2>1
  <2>3. overlay' \in OverlayType /\ overlay'.handle = FALSE
    BY <1>1, <2>2 DEF OverlayType
  <2> QED BY <2>3 DEF OverlayInv, OverlayCurrent
<1>4. CASE TurnStart \/ TurnEnd
  BY <1>1, <1>4, VisibilityApplied DEF TurnStart, TurnEnd
<1>5. ASSUME NEW action \in Actions, sidebarCommand(action) PROVE OverlayInv'
  BY <1>1, <1>5, VisibilityApplied DEF sidebarCommand
<1>6. CASE ScreenNext
  BY <1>2, <1>3, <1>4, <1>5, <1>6 DEF ScreenNext
<1>7. CASE RowsNext
  BY <1>0, <1>2, <1>4, <1>7 DEF RowsNext, RefreshTimer, SelectTask, FileChanges
<1>8. CASE MarksNext
  BY <1>0, <1>8 DEF MarksNext, sidebarEvent
<1>9. CASE UNCHANGED panelvars
  BY <1>0, <1>9 DEF panelvars
<1> QED BY <1>6, <1>7, <1>8, <1>9 DEF PanelNext

\* A row of the mailbox has an id that the mailbox holds, and goes on holding.
Row == [id : RowIds, from : {"board", "mailbox"}, status : RowStatuses \cup {Nowhere}]
Found == {r \in Row : r.from = "mailbox" => files.mailbox[r.id] # Nowhere}

Files == [board : [RowIds -> RowStatuses \cup {Nowhere}], mailbox : [RowIds -> RowStatuses \cup {Nowhere}]]
RowsInv == files \in Files /\ rows \in Seq(Found) /\ MailFound

\* The rows of one file.
LEMMA RowsOfFile ==
  ASSUME files \in Files, NEW f \in {"board", "mailbox"}, NEW ids \in SUBSET RowIds,
         \A i \in ids : files[f][i] # Nowhere
  PROVE  RowsOf(f, ids) \in Seq(Found)
<1> DEFINE row(i) == [id |-> i, from |-> f, status |-> files[f][i]]
           S == {row(i) : i \in ids}
<1>1. \A i \in ids : files[f][i] \in RowStatuses \cup {Nowhere} /\ (f = "mailbox" => files.mailbox[i] # Nowhere)
  BY DEF Files
<1>2. ASSUME NEW i \in ids PROVE row(i) \in Found
  <2>1. PICK st \in RowStatuses \cup {Nowhere} : st = files[f][i]
    BY <1>1
  <2>2. PICK r : r = row(i) /\ r = [id |-> i, from |-> f, status |-> st]
    BY <2>1
  <2>3. r \in Row /\ r.from = f /\ r.id = i
    BY <2>2 DEF Row
  <2> QED BY <1>1, <2>2, <2>3 DEF Found
<1>3. S \subseteq Found
  <2> HIDE DEF row
  <2> QED BY <1>2
<1>4. IsFiniteSet(S)
  <2>1. IsFiniteSet(ids)
    BY PanelAssumption, FS_Subset
  <2>2. PICK g : g = [i \in ids |-> row(i)]
    OBVIOUS
  <2>3. g \in Surjection(ids, S)
    <3> HIDE DEF row
    <3> QED BY <2>2 DEF Surjection
  <2> HIDE DEF S
  <2> QED BY <2>1, <2>3, FS_Surjection
<1> HIDE DEF S
<1>5. \E g \in [1..Cardinality(S) -> S] : IsInjective(g)
  BY <1>4, FS_CardinalityType DEF ExistsBijection, Bijection, Injection
<1>6. SetToSeq(S) \in [1..Cardinality(S) -> S] /\ Cardinality(S) \in Nat
  BY <1>4, <1>5, FS_CardinalityType DEF SetToSeq
<1>7. RowsOf(f, ids) = SetToSeq(S)
  BY DEF RowsOf, S
<1> QED BY <1>3, <1>6, <1>7

\* A refresh shows tasks that are there.
LEMMA RowsLoaded == ASSUME files \in Files PROVE loadTasksState \in Seq(Found)
<1>1. PICK board : board = {i \in RowIds : files.board[i] # Nowhere}
  OBVIOUS
<1>2. PICK mailed : mailed = {i \in RowIds : files.mailbox[i] # Nowhere} \ board
  OBVIOUS
<1>3. PICK all : all = RowsOf("board", board) \o RowsOf("mailbox", mailed)
  OBVIOUS
<1>4. loadTasksState = SubSeq(all, 1, IF Len(all) < MaxRows THEN Len(all) ELSE MaxRows)
  BY <1>1, <1>2, <1>3, Zenon DEF loadTasksState
<1>5. RowsOf("board", board) \in Seq(Found) /\ RowsOf("mailbox", mailed) \in Seq(Found)
  BY <1>1, <1>2, RowsOfFile
<1>6. all \in Seq(Found) /\ Len(all) \in Nat
  BY <1>3, <1>5
<1>7. PICK m \in Nat : m = (IF Len(all) < MaxRows THEN Len(all) ELSE MaxRows) /\ m <= Len(all)
  BY <1>6, PanelAssumption
<1>8. SubSeq(all, 1, m) \in Seq(Found)
  <2>1. \A k \in 1..m : all[k] \in Found
    BY <1>6, <1>7
  <2> QED BY <1>6, <1>7, <2>1
<1> QED BY <1>4, <1>7, <1>8

\* The file of a mailbox only gains ids.
LEMMA FilesGrow ==
  ASSUME RowsInv, NEW f \in {"board", "mailbox"}, NEW i \in RowIds, NEW status \in RowStatuses,
         FileChanges(f, i, status)
  PROVE  RowsInv'
<1>1. files' = [files EXCEPT ![f][i] = status] /\ UNCHANGED <<rows, selected>>
  BY DEF FileChanges
<1>2. files \in Files
  BY DEF RowsInv
<1>3. PICK b \in [RowIds -> RowStatuses \cup {Nowhere}], m \in [RowIds -> RowStatuses \cup {Nowhere}] :
        /\ files' = [board |-> b, mailbox |-> m]
        /\ \A k \in RowIds : files.mailbox[k] # Nowhere => m[k] # Nowhere
  <2>1. PICK col : col = [files[f] EXCEPT ![i] = status]
    OBVIOUS
  <2>2. files[f] \in [RowIds -> RowStatuses \cup {Nowhere}]
    BY <1>2 DEF Files
  <2>3. col \in [RowIds -> RowStatuses \cup {Nowhere}] /\ \A k \in RowIds : files[f][k] # Nowhere => col[k] # Nowhere
    BY <2>1, <2>2 DEF RowStatuses, Nowhere
  <2>4. files' = [files EXCEPT ![f] = col]
    BY <1>1, <2>1
  <2>5. CASE f = "board"
    <3>1. files' = [board |-> col, mailbox |-> files.mailbox]
      BY <1>2, <2>4, <2>5 DEF Files
    <3>2. files.mailbox \in [RowIds -> RowStatuses \cup {Nowhere}]
      BY <1>2 DEF Files
    <3> QED BY <2>3, <3>1, <3>2
  <2>6. CASE f = "mailbox"
    <3>1. files' = [board |-> files.board, mailbox |-> col] /\ files[f] = files.mailbox
      BY <1>2, <2>4, <2>6 DEF Files
    <3>2. files.board \in [RowIds -> RowStatuses \cup {Nowhere}]
      BY <1>2 DEF Files
    <3> QED BY <2>3, <3>1, <3>2
  <2> QED BY <2>5, <2>6
<1>4. files' \in Files /\ files'.mailbox = m
  BY <1>3 DEF Files
<1>5. Found \subseteq Found'
  BY <1>3, <1>4 DEF Found, Row
<1>6. rows' \in Seq(Found')
  BY <1>1, <1>5 DEF RowsInv
<1> QED BY <1>1, <1>4, <1>6 DEF RowsInv, MailFound

\* The row picked is one of the rows shown.
LEMMA PickedShown == ASSUME rows \in Seq(Found), rows # <<>> PROVE pickTopTaskId \in Found
<1> DEFINE of(s) == {k \in 1..Len(rows) : rows[k].status = s}
           wanted == {u \in 1..Len(Urgency) : of(Urgency[u]) # {}}
<1>1. Len(rows) \in Nat /\ Len(rows) > 0 /\ \A k \in 1..Len(rows) : rows[k] \in Found
  OBVIOUS
<1>2. ASSUME NEW T, T \subseteq Nat, T # {} PROVE Min(T) \in T
  <2>1. \E m \in T : \A k \in T : m <= k
    BY <1>2, LeastOf
  <2> QED BY <2>1 DEF Min
<1>3. CASE wanted = {}
  BY <1>1, <1>3 DEF pickTopTaskId
<1>4. CASE wanted # {}
  <2>1. wanted \subseteq Nat /\ \A u \in wanted : of(Urgency[u]) # {}
    BY DEF Urgency
  <2>2. PICK u \in wanted : u = Min(wanted)
    BY <1>2, <1>4, <2>1
  <2>3. of(Urgency[u]) # {} /\ of(Urgency[u]) \subseteq 1..Len(rows) /\ of(Urgency[u]) \subseteq Nat
    BY <1>1, <2>1
  <2>4. Min(of(Urgency[u])) \in 1..Len(rows)
    BY <1>2, <2>3
  <2>5. pickTopTaskId = rows[Min(of(Urgency[u]))]
    BY <1>4, <2>2 DEF pickTopTaskId
  <2> QED BY <1>1, <2>4, <2>5
<1> QED BY <1>3, <1>4

\* Every step keeps the rows and the selection in the files.
LEMMA RowsStep == RowsInv /\ [PanelNext]_panelvars => RowsInv'
<1> SUFFICES ASSUME RowsInv, [PanelNext]_panelvars PROVE RowsInv'
  OBVIOUS
<1>1. CASE UNCHANGED <<files, selected>> /\ rows' \in {rows, loadTasksState}
  <2>1. loadTasksState \in Seq(Found)
    BY RowsLoaded DEF RowsInv
  <2>2. Found' = Found
    BY <1>1 DEF Found
  <2> QED BY <1>1, <2>1, <2>2 DEF RowsInv, MailFound
<1>2. CASE SessionStart \/ TurnStart \/ TurnEnd \/ RefreshTimer
  BY <1>1, <1>2 DEF SessionStart, TurnStart, TurnEnd, RefreshTimer, refreshTasks
<1>3. ASSUME NEW disposed, SessionShutdown(disposed) PROVE RowsInv'
  BY <1>1, <1>3 DEF SessionShutdown
<1>4. ASSUME NEW action, sidebarCommand(action) PROVE RowsInv'
  <2>1. UNCHANGED <<files, selected>> /\ rows' \in {rows, loadTasksState}
    BY <1>4 DEF sidebarCommand, refreshTasks
  <2> QED BY <1>1, <2>1
<1>5. CASE SelectTask
  <2>1. UNCHANGED <<files, rows>> /\ rows # <<>>
        /\ selected' = [row |-> pickTopTaskId, named |-> buildSelectionNoteFor(pickTopTaskId.id)]
    BY <1>5 DEF SelectTask
  <2>2. PICK r \in Found : r = pickTopTaskId
    BY <2>1, PickedShown DEF RowsInv
  <2>3. r.from = "mailbox" => buildSelectionNoteFor(r.id) = "mailbox"
    BY DEF Found, buildSelectionNoteFor
  <2>4. MailFound'
    BY <2>1, <2>2, <2>3 DEF MailFound
  <2>5. Found' = Found
    BY <2>1 DEF Found
  <2> QED BY <2>1, <2>4, <2>5 DEF RowsInv
<1>6. CASE MarksNext
  <2>1. UNCHANGED <<files, rows, selected>>
    BY <1>6 DEF MarksNext, sidebarEvent
  <2> QED BY <1>1, <2>1
<1>7. CASE UNCHANGED panelvars
  BY <1>1, <1>7 DEF panelvars
<1> QED BY <1>2, <1>3, <1>4, <1>5, <1>6, <1>7, FilesGrow DEF PanelNext, ScreenNext, RowsNext

(* While the overlay is open the host has the options and the visibility   *)
(* that follow from the state, through sessions, turns and commands, and   *)
(* the note of a selection never sends the agent to the board for a task   *)
(* of the mailbox (applyVisibility, buildSelectionNoteFor).                *)
THEOREM PanelIsTrue == PanelSpec => []PanelTrue
<1>1. PanelInit => OverlayInv
  <2> SUFFICES ASSUME PanelInit PROVE OverlayInv
    OBVIOUS
  <2>1. PICK opts \in OptionsType : opts = sidebarOverlayOptions(panel)
    BY OptionsTyped
  <2>2. overlay = [component |-> FALSE, handle |-> FALSE, hidden |-> FALSE, options |-> opts]
    BY <2>1 DEF PanelInit
  <2>3. overlay \in OverlayType /\ overlay.handle = FALSE
    <3> HIDE <2>1
    <3> QED BY <2>2 DEF OverlayType
  <2> QED BY <2>3 DEF OverlayInv, OverlayCurrent
<1>2. PanelInit => RowsInv
  BY DEF PanelInit, RowsInv, Files, MailFound, NoRow, Nowhere
<1>3. OverlayInv /\ RowsInv => PanelTrue
  BY DEF OverlayInv, RowsInv, PanelTrue
<1> QED BY <1>1, <1>2, <1>3, OverlayStep, RowsStep, PTL DEF PanelSpec
-----------------------------------------------------------------------------
(* The intent and its plan.                                                *)

Plannings == [shape : Shapes \cup {"none"}, phases : Seq(Phases), ids : SUBSET Nat]
Ops == {"none", "convert", "create", "plan", "add", "close"}
PlanCall == [op : Ops, shape : Shapes \cup {"none"}, todo : Seq(Phases), planning : Plannings]
PlanTask == [phase : Phases, by : Procs \cup {"add"}]

\* The phases on record, or about to be, fit the shape they are for.
Fits(made) ==
  made.phases # <<>> =>
    /\ FirstOK(made.shape, made.phases)
    /\ Len(made.phases) <= EXPECTED_PHASE_COUNT[made.shape].max /\ CountOf(made.phases, "review") <= 1

\* What a call has still to write goes with what it and others have written: the
\* intent is marked before its tasks are created, and only a plan gets phases.
Due(c) ==
  /\ Fits(c.planning)
  /\ c.op \in {"convert", "create"} => Len(c.todo) > 0
  /\ c.op = "create" /\ Here => intent.converted
  /\ c.op \in {"plan", "add"} => c.planning.shape \in Shapes
  /\ c.op = "add" => Planned /\ c.planning.phases # <<>>

IntentsTypeOK ==
  /\ intent \in [status : {"pending", "completed", "deleted"}, converted : BOOLEAN,
                 intent_shape : Shapes \cup {"none"}, planning : Plannings]
  /\ plans \in Seq(PlanTask)
  /\ call \in [Procs -> PlanCall]

\* A plan has a shape, on record as in the calls.
Shaped(made) == made # NoPlanning => made.shape \in Shapes

IntentsInv ==
  /\ IntentsTypeOK /\ PlanAccounted /\ Shaped(intent.planning)
  /\ \A p \in Procs : Due(call[p])

\* A list of phases that a plan was accepted with is not empty.
LEMMA PhaseListsAreSequences ==
  ASSUME NEW list \in PhaseLists PROVE list \in Seq(Phases) /\ Len(list) > 0
<1>1. PICK n \in 1..MaxPhases : list \in [1..n -> Phases]
  BY DEF PhaseLists
<1>2. n \in Nat /\ n >= 1
  BY IntentsAssumption
<1>3. list \in Seq(Phases) /\ Len(list) = n
  BY <1>1, <1>2
<1> QED BY <1>2, <1>3

\* A call that notes what it will write changes nothing else.
LEMMA StepsToInv ==
  ASSUME IntentsInv, NEW p \in Procs, NEW c \in PlanCall, Due(c), StepsTo(p, c)
  PROVE  IntentsInv'
<1>1. call' \in [Procs -> PlanCall] /\ \A q \in Procs : call'[q] \in {call[q], c}
  BY DEF StepsTo, IntentsInv, IntentsTypeOK
<1>2. \A q \in Procs : Due(call[q])'
  BY <1>1 DEF StepsTo, IntentsInv, Due, Fits, Planned, Here
<1> QED BY <1>1, <1>2 DEF StepsTo, IntentsInv, IntentsTypeOK, PlanAccounted, Planned, Here

\* Nothing to write is always in order.
LEMMA NoCallDue == NoCall \in PlanCall /\ Due(NoCall)
<1>1. NoPlanning \in Plannings /\ NoPlanning.phases = <<>>
  BY DEF NoPlanning, Plannings
<1>2. NoCall \in PlanCall
  BY <1>1 DEF NoCall, PlanCall, Ops
<1> QED BY <1>1, <1>2 DEF NoCall, Due, Fits

LEMMA IntentsInitInv == IntentsInit => IntentsInv
<1> SUFFICES ASSUME IntentsInit PROVE IntentsInv
  OBVIOUS
<1>1. NoPlanning \in Plannings /\ NoPlanning.phases = <<>>
  BY DEF NoPlanning, Plannings
<1>2. IntentsTypeOK
  BY <1>1, NoCallDue DEF IntentsInit, IntentsTypeOK
<1>3. PlanAccounted
  BY <1>1 DEF IntentsInit, PlanAccounted
<1> QED BY <1>2, <1>3, NoCallDue DEF IntentsInit, IntentsInv, Shaped

\* The intent is written: once converted it stays so, and once planned it keeps
\* a plan whose phases fit.
LEMMA IntentWrittenInv ==
  ASSUME IntentsInv, NEW p \in Procs, UNCHANGED plans,
         NEW c \in PlanCall, Due(c)', call' = [call EXCEPT ![p] = c],
         intent' \in [status : {"pending", "completed", "deleted"}, converted : BOOLEAN,
                      intent_shape : Shapes \cup {"none"}, planning : Plannings],
         intent.converted /\ Here' => intent'.converted, Here' => Here,
         Planned => Planned', Fits(intent'.planning), Shaped(intent'.planning)
  PROVE  IntentsInv'
<1>1. call' \in [Procs -> PlanCall] /\ \A q \in Procs : call'[q] = c \/ call'[q] = call[q]
  BY DEF IntentsInv, IntentsTypeOK
<1>2. \A q \in Procs : Due(call[q])'
  <2> TAKE q \in Procs
  <2>1. CASE call'[q] = c
    BY <2>1
  <2>2. CASE call'[q] = call[q]
    BY <2>2 DEF IntentsInv, Due, Fits
  <2> QED BY <1>1, <2>1, <2>2
<1>3. PlanAccounted'
  BY DEF IntentsInv, IntentsTypeOK, PlanAccounted, Fits
<1> QED BY <1>1, <1>2, <1>3 DEF IntentsInv, IntentsTypeOK

\* What each of the calls may begin.
LEMMA CallsBegin ==
  ASSUME IntentsInv, NEW p \in Procs,
         \/ \E s \in Asked : taskPlanIntent(p, s) \/ taskConvertIntent(p, s)
         \/ \E phase \in Phases : taskAddPhase(p, phase)
         \/ taskCloseIntent(p) \/ Dies(p)
  PROVE  IntentsInv'
<1>1. NoPlanning \in Plannings /\ NoPlanning.phases = <<>>
  BY DEF NoPlanning, Plannings
<1>2. ASSUME NEW s \in Asked, taskPlanIntent(p, s) PROVE IntentsInv'
  <2>1. PICK m \in Plannings : m = [NoPlanning EXCEPT !.shape = s]
    BY <1>1, IntentsAssumption DEF NoPlanning, Plannings
  <2>2. PICK c \in PlanCall : c = [NoCall EXCEPT !.op = "plan", !.planning = m]
    BY NoCallDue DEF NoCall, PlanCall, Ops
  <2>3. m.phases = <<>> /\ m.shape \in Shapes
    BY <2>1, IntentsAssumption DEF NoPlanning
  <2>4. c.op = "plan" /\ c.planning = m /\ c.todo = <<>>
    BY <2>2 DEF NoCall
  <2>5. Due(c)
    BY <2>3, <2>4 DEF Due, Fits
  <2> QED BY <1>2, <2>1, <2>2, <2>5, StepsToInv DEF taskPlanIntent
<1>3. ASSUME NEW s \in Asked, taskConvertIntent(p, s) PROVE IntentsInv'
  <2>1. PICK list \in PhaseLists : StepsTo(p, [NoCall EXCEPT !.op = "convert", !.shape = s, !.todo = list])
    BY <1>3 DEF taskConvertIntent, Accepted
  <2>2. list \in Seq(Phases) /\ Len(list) > 0
    BY PhaseListsAreSequences
  <2>3. PICK c \in PlanCall : c = [NoCall EXCEPT !.op = "convert", !.shape = s, !.todo = list]
    BY <2>2, NoCallDue, IntentsAssumption DEF NoCall, PlanCall, Ops
  <2>4. c.op = "convert" /\ c.planning = NoPlanning /\ c.todo = list
    BY <2>3 DEF NoCall
  <2>5. Due(c)
    BY <1>1, <2>2, <2>4 DEF Due, Fits
  <2> QED BY <2>1, <2>3, <2>5, StepsToInv
<1>4. ASSUME NEW phase \in Phases, taskAddPhase(p, phase) PROVE IntentsInv'
  <2>1. intent.planning \in Plannings /\ intent.planning.phases \in Seq(Phases)
    BY DEF IntentsInv, IntentsTypeOK, Plannings
  <2> DEFINE grown == Append(intent.planning.phases, phase)
  <2>0. grown \in Seq(Phases) /\ grown # <<>>
    BY <2>1
  <2>2. PICK next \in Seq(Phases) : next = grown
    BY <2>0
  <2>3. next # <<>>
    BY <2>0, <2>2
  <2>4. validateCumulativePhases(intent.planning.shape, next)
    BY <1>4, <2>2 DEF taskAddPhase
  <2>5. PICK m \in Plannings : m = [intent.planning EXCEPT !.phases = next]
    BY <2>1 DEF Plannings
  <2>6. m.shape = intent.planning.shape /\ m.phases = next
    BY <2>1, <2>5 DEF Plannings
  <2>7. PICK c \in PlanCall : c = [NoCall EXCEPT !.op = "add", !.planning = m]
    BY NoCallDue DEF NoCall, PlanCall, Ops
  <2>8. c.op = "add" /\ c.planning = m
    BY <2>7 DEF NoCall
  <2>9. m.shape \in Shapes
    <3>1. Planned
      BY <1>4 DEF taskAddPhase
    <3> QED BY <3>1, <2>6 DEF IntentsInv, Shaped, Planned
  <2>10. Due(c)
    BY <1>4, <2>3, <2>4, <2>6, <2>8, <2>9 DEF Due, Fits, validateCumulativePhases, taskAddPhase
  <2> QED BY <1>4, <2>2, <2>5, <2>7, <2>10, StepsToInv DEF taskAddPhase
<1>5. CASE taskCloseIntent(p)
  <2>1. PICK c \in PlanCall : c = [NoCall EXCEPT !.op = "close"]
    BY NoCallDue DEF NoCall, PlanCall, Ops
  <2>2. c.op = "close" /\ c.planning = NoPlanning
    BY <2>1 DEF NoCall
  <2>3. Due(c)
    BY <1>1, <2>2 DEF Due, Fits
  <2> QED BY <1>5, <2>1, <2>3, StepsToInv DEF taskCloseIntent
<1>6. CASE Dies(p)
  BY <1>6, NoCallDue, StepsToInv DEF Dies
<1> QED BY <1>2, <1>3, <1>4, <1>5, <1>6

\* A process goes on with a call: the steps of converting, ...
LEMMA ConvertKeeps ==
  ASSUME IntentsInv, NEW p \in Procs, ConvertMarks(p) \/ ConvertCreates(p)
  PROVE  IntentsInv'
<1>1. call[p] \in PlanCall /\ Due(call[p]) /\ Fits(intent.planning) /\ Shaped(intent.planning)
  BY DEF IntentsInv, IntentsTypeOK, PlanAccounted, Fits
<1>2. CASE ConvertMarks(p)
  <2>1. PICK c \in PlanCall : c = [call[p] EXCEPT !.op = "create"]
    BY <1>1 DEF PlanCall, Ops
  <2>2. c.op = "create" /\ c.todo = call[p].todo /\ c.planning = call[p].planning /\ call[p].shape \in Shapes \cup {"none"}
    BY <1>1, <2>1 DEF PlanCall
  <2>3. /\ intent' \in [status : {"pending", "completed", "deleted"}, converted : BOOLEAN,
                        intent_shape : Shapes \cup {"none"}, planning : Plannings]
        /\ Here' = Here /\ (Here => intent'.converted) /\ (intent.converted /\ Here => intent'.converted)
        /\ intent'.planning = intent.planning
    <3>1. intent' = IF Here THEN [intent EXCEPT !.status = "completed", !.converted = TRUE, !.intent_shape = call[p].shape]
                    ELSE intent
      BY <1>2 DEF ConvertMarks, Update
    <3>2. CASE Here
      BY <2>2, <3>1, <3>2 DEF IntentsInv, IntentsTypeOK, Here
    <3>3. CASE ~Here
      BY <3>1, <3>3 DEF IntentsInv, IntentsTypeOK, Here
    <3> QED BY <3>2, <3>3
  <2>4. Due(c)'
    BY <1>1, <1>2, <2>2, <2>3 DEF Due, Fits, ConvertMarks
  <2>5. call' = [call EXCEPT ![p] = c] /\ UNCHANGED plans
    BY <1>2, <2>1 DEF ConvertMarks
  <2>6. Fits(intent'.planning) /\ Shaped(intent'.planning) /\ (Planned => Planned')
    BY <1>1, <2>3 DEF Planned
  <2> QED BY <2>3, <2>4, <2>5, <2>6, IntentWrittenInv
<1>3. CASE ConvertCreates(p)
  <2>1. call[p].op = "create" /\ (Here => intent.converted) /\ call[p].todo \in Seq(Phases) /\ Len(call[p].todo) > 0
    BY <1>1, <1>3 DEF ConvertCreates, Due, PlanCall
  <2> DEFINE todo == call[p].todo
             shorter == [call[p] EXCEPT !.todo = Tail(@)]
  <2>0. Head(todo) \in Phases /\ Tail(todo) \in Seq(Phases) /\ (Len(todo) # 1 => Len(Tail(todo)) > 0)
    <3>1. todo \in Seq(Phases) /\ Len(todo) > 0
      BY <2>1
    <3> HIDE DEF todo
    <3>2. Head(todo) \in Phases /\ Tail(todo) \in Seq(Phases) /\ Len(Tail(todo)) = Len(todo) - 1 /\ Len(todo) \in Nat
      BY <3>1
    <3> QED BY <3>1, <3>2
  <2>2. PICK t \in PlanTask : t = [phase |-> Head(call[p].todo), by |-> p]
    <3>1. [phase |-> Head(todo), by |-> p] \in PlanTask
      BY <2>0 DEF PlanTask
    <3> QED BY <3>1
  <2>3. PICK c \in PlanCall : /\ c = IF Len(call[p].todo) = 1 THEN NoCall ELSE shorter
                              /\ c.planning \in {NoPlanning, call[p].planning}
                              /\ c.op \in {"none", "create"}
                              /\ c.op = "create" => Len(c.todo) > 0
    <3>1. CASE Len(call[p].todo) = 1
      BY <3>1, NoCallDue DEF NoCall
    <3>2. CASE Len(call[p].todo) # 1
      <4>1. Tail(call[p].todo) \in Seq(Phases) /\ Len(Tail(call[p].todo)) > 0
        BY <2>0, <3>2
      <4>2. shorter \in PlanCall
        BY <1>1, <4>1 DEF PlanCall
      <4> QED BY <1>1, <2>1, <3>2, <4>1, <4>2 DEF PlanCall
    <3> QED BY <3>1, <3>2
  <2>4. call' = [call EXCEPT ![p] = c] /\ UNCHANGED intent /\ plans' = Append(plans, t)
    <3>1. call' = [call EXCEPT ![p] = IF Len(call[p].todo) = 1 THEN NoCall ELSE shorter]
      BY <1>3 DEF ConvertCreates
    <3> HIDE DEF shorter
    <3>2. call' = [call EXCEPT ![p] = c]
      <4>1. CASE Len(call[p].todo) = 1
        BY <2>3, <3>1, <4>1
      <4>2. CASE Len(call[p].todo) # 1
        BY <2>3, <3>1, <4>2
      <4> QED BY <4>1, <4>2
    <3> QED BY <1>3, <2>2, <3>2 DEF ConvertCreates
  <2>5. NoPlanning.phases = <<>>
    BY DEF NoPlanning
  <2>6. Due(c)'
    BY <1>1, <2>1, <2>3, <2>4, <2>5 DEF Due, Fits, Here
  <2>7. \A k \in DOMAIN plans' : plans'[k] = t \/ (k \in DOMAIN plans /\ plans'[k] = plans[k])
    BY <2>4 DEF IntentsInv, IntentsTypeOK
  <2>8. t.by # "add"
    BY <2>2, IntentsAssumption
  <2>9. PlanAccounted'
    BY <2>1, <2>4, <2>7, <2>8 DEF IntentsInv, PlanAccounted, Planned, Here
  <2>10. IntentsTypeOK'
    BY <2>4 DEF IntentsInv, IntentsTypeOK
  <2>11. \A q \in Procs : call'[q] = c \/ call'[q] = call[q]
    BY <2>4 DEF IntentsInv, IntentsTypeOK
  <2>12. \A q \in Procs : Due(call[q])'
    <3> TAKE q \in Procs
    <3>1. CASE call'[q] = c
      BY <2>6, <3>1
    <3>2. CASE call'[q] = call[q]
      BY <2>4, <3>2 DEF IntentsInv, Due, Fits, Planned, Here
    <3> QED BY <2>11, <3>1, <3>2
  <2> QED BY <2>4, <2>9, <2>10, <2>12 DEF IntentsInv
<1> QED BY <1>2, <1>3

\* ... of adding a phase, ...
LEMMA AddKeeps ==
  ASSUME IntentsInv, NEW p \in Procs, AddCreates(p)
  PROVE  IntentsInv'
<1> DEFINE made == call[p].planning
<1>1. call[p] \in PlanCall /\ Due(call[p]) /\ call[p].op = "add" /\ made \in Plannings
  BY DEF IntentsInv, IntentsTypeOK, AddCreates, PlanCall
<1>2. Planned /\ made.phases \in Seq(Phases) /\ made.phases # <<>> /\ Fits(made) /\ made.shape \in Shapes
  BY <1>1 DEF Due, Plannings
<1> DEFINE added == made.phases[Len(made.phases)]
<1>3. PICK t \in PlanTask : t = [phase |-> added, by |-> "add"]
  <2>1. added \in Phases
    BY <1>2
  <2> HIDE DEF added
  <2>2. [phase |-> added, by |-> "add"] \in PlanTask
    BY <2>1 DEF PlanTask
  <2> QED BY <2>2
<1>4. plans \in Seq(PlanTask) /\ Len(plans) + 1 \in Nat
  BY DEF IntentsInv, IntentsTypeOK
<1>5. PICK m \in Plannings : m = [made EXCEPT !.ids = @ \cup {Len(plans) + 1}]
  BY <1>1, <1>4 DEF Plannings
<1>6. m.shape = made.shape /\ m.phases = made.phases
  BY <1>1, <1>5 DEF Plannings
<1>7. PICK c \in PlanCall : c = [call[p] EXCEPT !.op = "plan", !.planning = m]
  BY <1>1 DEF PlanCall, Ops
<1>8. c.op = "plan" /\ c.planning = m
  BY <1>1, <1>7 DEF PlanCall
<1>9. call' = [call EXCEPT ![p] = c] /\ UNCHANGED intent /\ plans' = Append(plans, t)
  BY <1>1, <1>3, <1>5, <1>7 DEF AddCreates, PlanCall
<1>10. Due(c)'
  BY <1>2, <1>6, <1>8 DEF Due, Fits
<1>11. \A k \in DOMAIN plans' : plans'[k] = t \/ (k \in DOMAIN plans /\ plans'[k] = plans[k])
  BY <1>4, <1>9
<1>12. PlanAccounted'
  BY <1>2, <1>3, <1>9, <1>11 DEF IntentsInv, PlanAccounted, Planned, Here
<1>13. IntentsTypeOK' /\ \A q \in Procs : call'[q] = c \/ call'[q] = call[q]
  BY <1>9 DEF IntentsInv, IntentsTypeOK
<1>14. \A q \in Procs : Due(call[q])'
  <2> TAKE q \in Procs
  <2>1. CASE call'[q] = c
    BY <1>10, <2>1
  <2>2. CASE call'[q] = call[q]
    BY <1>9, <2>2 DEF IntentsInv, Due, Fits, Planned, Here
  <2> QED BY <1>13, <2>1, <2>2
<1> QED BY <1>9, <1>12, <1>13, <1>14 DEF IntentsInv

\* ... and of writing the plan or closing the intent.
LEMMA WrittenKeeps ==
  ASSUME IntentsInv, NEW p \in Procs, PlanningWritten(p) \/ CloseWritten(p)
  PROVE  IntentsInv'
<1>1. call[p] \in PlanCall /\ Due(call[p]) /\ call[p].planning \in Plannings /\ intent.planning \in Plannings
  BY DEF IntentsInv, IntentsTypeOK, PlanCall
<1>2. NoCall \in PlanCall /\ call' = [call EXCEPT ![p] = NoCall] /\ UNCHANGED plans
  BY NoCallDue DEF PlanningWritten, CloseWritten
<1>3. Due(NoCall)'
  BY NoCallDue DEF Due, NoCall
<1>4. /\ intent' \in [status : {"pending", "completed", "deleted"}, converted : BOOLEAN,
                      intent_shape : Shapes \cup {"none"}, planning : Plannings]
      /\ intent'.converted \in {intent.converted, TRUE} /\ Here' = Here
      /\ \/ intent'.planning = intent.planning
         \/ intent'.planning = call[p].planning /\ call[p].op = "plan"
  <2>1. \/ intent' = intent
        \/ Here /\ intent' = [intent EXCEPT !.planning = call[p].planning] /\ call[p].op = "plan"
        \/ Here /\ intent' = [intent EXCEPT !.status = "completed", !.converted = TRUE]
    BY DEF PlanningWritten, CloseWritten, Update
  <2> QED BY <1>1, <2>1 DEF IntentsInv, IntentsTypeOK, Here
<1>5. Planned => Planned'
  <2>1. NoPlanning.shape = "none" /\ "none" \notin Shapes
    BY DEF NoPlanning, Shapes
  <2>2. call[p].op = "plan" => call[p].planning # NoPlanning
    BY <1>1, <2>1 DEF Due
  <2> QED BY <1>4, <2>2 DEF Planned
<1>6. Fits(intent'.planning) /\ Shaped(intent'.planning)
  <2>1. CASE intent'.planning = intent.planning
    BY <2>1 DEF IntentsInv, PlanAccounted, Fits
  <2>2. CASE intent'.planning = call[p].planning /\ call[p].op = "plan"
    BY <1>1, <2>2 DEF Due, Shaped
  <2> QED BY <1>4, <2>1, <2>2
<1> QED BY <1>2, <1>3, <1>4, <1>5, <1>6, IntentWrittenInv

LEMMA IntentsNextInv == IntentsInv /\ [IntentsNext]_intentvars => IntentsInv'
<1>1. CASE UNCHANGED intentvars
  BY <1>1 DEF intentvars, IntentsInv, IntentsTypeOK, PlanAccounted, Due, Fits, Planned, Here
<1>2. ASSUME IntentsInv, IntentDeleted PROVE IntentsInv'
  <2>1. /\ UNCHANGED <<plans, call>> /\ ~Here' /\ Here
        /\ intent' \in [status : {"pending", "completed", "deleted"}, converted : BOOLEAN,
                        intent_shape : Shapes \cup {"none"}, planning : Plannings]
        /\ intent'.planning = intent.planning
    BY <1>2 DEF IntentDeleted, Here, IntentsInv, IntentsTypeOK
  <2>2. IntentsTypeOK' /\ PlanAccounted'
    BY <1>2, <2>1 DEF IntentsInv, IntentsTypeOK, PlanAccounted
  <2>3. \A p \in Procs : Due(call[p])'
    BY <1>2, <2>1 DEF IntentsInv, Due, Fits, Planned
  <2> QED BY <1>2, <2>1, <2>2, <2>3 DEF IntentsInv
<1>3. CASE IntentsInv /\ IntentsNext
  BY <1>2, <1>3, CallsBegin, ConvertKeeps, AddKeeps, WrittenKeeps DEF IntentsNext
<1> QED BY <1>1, <1>3

\* Whatever the processes do and wherever one dies, no plan task exists for an
\* intent that is there and neither planned nor converted, and the phases on record
\* fit the shape on record (task_convert_intent marks first, task_add_phase validates).
THEOREM PlansAreAccounted == IntentsSpec => []PlanAccounted
<1>1. IntentsInv => PlanAccounted
  BY DEF IntentsInv
<1> QED BY <1>1, IntentsInitInv, IntentsNextInv, PTL DEF IntentsSpec

-----------------------------------------------------------------------------
(* The phases of a brainstorming session.                                  *)

\* Past the search the project is known.
BrainInv ==
  /\ bphase \in BrainPhases
  /\ known \in [project : BOOLEAN, spec : BOOLEAN]
  /\ bphase \notin {"exploring", "cancelled"} => known.project

\* What an event earns: the step keeps the invariant and goes forward by one phase.
Earns ==
  /\ BrainInv'
  /\ bphase' \in {"designing", "approved"} /\ bphase # bphase' => bphase \in {"proposing", "designing"}
  /\ bphase = "cancelled" => bphase' = "cancelled"

\* Every event, allowed in its phase or refused, earns what follows.
LEMMA EventsEarn == BrainInv /\ [BrainstormNext]_brainvars => Earns
<1> SUFFICES ASSUME BrainInv, [BrainstormNext]_brainvars PROVE Earns
  OBVIOUS
<1>1. \A p \in BrainPhases : VALID_TRANSITIONS[p] =
        IF p = "exploring" THEN {"clarifying", "cancelled"}
        ELSE IF p = "clarifying" THEN {"proposing", "exploring", "cancelled"}
        ELSE IF p = "proposing" THEN {"designing", "clarifying", "cancelled"}
        ELSE IF p = "designing" THEN {"approved", "clarifying", "cancelled"}
        ELSE IF p = "approved" THEN {"cancelled"} ELSE {}
  BY DEF VALID_TRANSITIONS, BrainPhases
<1>2. CASE UNCHANGED brainvars
  BY <1>2 DEF brainvars, BrainInv, Earns
<1>3. CASE handleContextFound
  BY <1>1, <1>3 DEF handleContextFound, transitionTo, BrainInv, BrainPhases, Earns
<1>4. CASE handleAnswerQuestion \/ handleCancel
  BY <1>4 DEF handleAnswerQuestion, handleCancel, BrainInv, BrainPhases, Earns
<1>5. ASSUME NEW b \in BOOLEAN, handleAskQuestion(b) \/ handleUserReviewComplete(b) PROVE Earns
  BY <1>1, <1>5 DEF handleAskQuestion, handleUserReviewComplete, transitionTo, BrainInv, BrainPhases, Earns
<1>6. ASSUME NEW as \in SUBSET ApproachIds, handleProposeApproaches(as) PROVE Earns
  BY <1>1, <1>6 DEF handleProposeApproaches, transitionTo, BrainInv, BrainPhases, Earns
<1>7. ASSUME NEW a \in ApproachIds, handleSelectApproach(a) PROVE Earns
  BY <1>1, <1>7 DEF handleSelectApproach, transitionTo, BrainInv, BrainPhases, Earns
<1>8. ASSUME NEW s \in SectionIds, handlePresentSection(s) \/ handleApproveSection(s) \/ handleReviseSection(s)
      PROVE  Earns
  BY <1>1, <1>8 DEF handlePresentSection, handleApproveSection, handleReviseSection, transitionTo,
     BrainInv, BrainPhases, Earns
<1> QED BY <1>2, <1>3, <1>4, <1>5, <1>6, <1>7, <1>8 DEF BrainstormNext

\* A phase is earned by those before it, whatever events come and in which order
\* (transitionTo, also for the events that change the context before they are
\* refused).
THEOREM PhasesAreEarned == BrainstormSpec => PhasesEarned
<1>1. BrainstormInit => BrainInv
  BY DEF BrainstormInit, BrainInv, BrainPhases
<1>2. Earns => /\ bphase' \in {"designing", "approved"} /\ bphase # bphase' => bphase \in {"proposing", "designing"}
               /\ bphase' \notin {"exploring", "cancelled"} => known'.project
               /\ bphase = "cancelled" => bphase' = "cancelled"
  BY DEF Earns, BrainInv
<1>3. Earns => BrainInv'
  BY DEF Earns
<1> QED BY <1>1, <1>2, <1>3, EventsEarn, PTL DEF BrainstormSpec, PhasesEarned

-----------------------------------------------------------------------------
(***************************************************************************)
(* The evaluator: a score is a mean of what was observed.                  *)
(***************************************************************************)

\* Over any set the sum of values that are each between lo and hi times a weight is
\* between lo and hi times the sum of the weights.
Within(D, w, p, lo, hi) == \A x \in D : lo * w[x] <= p[x] /\ p[x] <= hi * w[x]
LEMMA SumsBetween ==
  ASSUME NEW D, IsFiniteSet(D), NEW w \in [D -> Nat], NEW p \in [D -> Int], NEW lo \in Int, NEW hi \in Int,
         NEW S \in SUBSET D, Within(S, w, p, lo, hi),
         NEW g \in [SUBSET D -> Int], NEW h \in [SUBSET D -> Int], AddsUp(g, D, w), AddsUp(h, D, p)
  PROVE  g[S] \in Nat /\ h[S] \in Int /\ lo * g[S] <= h[S] /\ h[S] <= hi * g[S]
<1> DEFINE B == {t \in SUBSET S : g[t] \in Nat /\ h[t] \in Int /\ lo * g[t] <= h[t] /\ h[t] <= hi * g[t]}
<1>1. {} \in B
  <2>1. g[{}] = 0 /\ h[{}] = 0
    BY DEF AddsUp
  <2> QED BY <2>1
<1>2. ASSUME NEW t \in SUBSET S, NEW x \in t, t \ {x} \in B PROVE t \in B
  <2>1. g[t] = g[t \ {x}] + w[x] /\ h[t] = h[t \ {x}] + p[x]
    BY DEF AddsUp
  <2>2. PICK a \in Nat, b \in Int : a = g[t \ {x}] /\ b = h[t \ {x}] /\ lo * a <= b /\ b <= hi * a
    BY <1>2
  <2>3. PICK c \in Nat, d \in Int : c = w[x] /\ d = p[x] /\ lo * c <= d /\ d <= hi * c
    BY DEF Within
  <2>4. lo * (a + c) = lo * a + lo * c /\ hi * (a + c) = hi * a + hi * c
    OBVIOUS
  <2>5. g[t] = a + c /\ h[t] = b + d
    BY <2>1, <2>2, <2>3
  <2>6. lo * (a + c) <= b + d /\ b + d <= hi * (a + c)
    <3>1. lo * a \in Int /\ lo * c \in Int /\ hi * a \in Int /\ hi * c \in Int
      OBVIOUS
    <3> QED BY <2>2, <2>3, <2>4, <3>1
  <2> QED BY <2>5, <2>6
<1>3. S \in B
  <2> DEFINE c == [t \in SUBSET S |-> CHOOSE x \in t : TRUE]
  <2>1. Chooses(c, S)
    BY DEF Chooses
  <2>2. \A t \in SUBSET S : t # {} => c[t] \in t
    OBVIOUS
  <2> HIDE DEF B, c
  <2>3. \A t \in SUBSET S : t # {} /\ t \ {c[t]} \in B => t \in B
    BY <1>2, <2>2
  <2>4. IsFiniteSet(S)
    BY FS_Subset
  <2>5. SUBSET S \subseteq B
    BY <1>1, <2>1, <2>3, <2>4, SubsetInduction
  <2> QED BY <2>5
<1> QED BY <1>3

LEMMA SumOverIs ==
  ASSUME NEW f, NEW S PROVE sumOver(f, S) = SumOf(f, S)
  BY DEF sumOver, SumOf

\* Rounding keeps a mean between numbers that bound it, and a quotient too.
LEMMA QuotientBetween ==
  ASSUME NEW x \in Int, NEW d \in Nat, d > 0, NEW lo \in Int, NEW hi \in Int, lo * d <= x, x < (hi + 1) * d
  PROVE  x \div d \in Int /\ lo <= x \div d /\ x \div d <= hi
<1>1. x \div d \in Int /\ d * (x \div d) <= x /\ x < d * (x \div d) + d
  OBVIOUS
<1>2. ASSUME NEW a \in Int, NEW b \in Int, NEW c \in Nat, c > 0, a * c < (b + 1) * c PROVE a <= b
  BY <1>2
<1> QED BY <1>1, <1>2

LEMMA RoundBetween ==
  ASSUME NEW sum \in Int, NEW weight \in Nat, weight > 0, NEW lo \in Int, NEW hi \in Int,
         lo * weight <= sum, sum <= hi * weight
  PROVE  round(sum, weight) \in Int /\ lo <= round(sum, weight) /\ round(sum, weight) <= hi
<1> DEFINE x == 2 * sum + weight
           d == 2 * weight
<1>1. x \in Int /\ d \in Nat /\ d > 0
  OBVIOUS
<1>2. lo * d = 2 * (lo * weight) /\ (hi + 1) * d = 2 * (hi * weight) + 2 * weight
  OBVIOUS
<1>3. lo * d <= x /\ x < (hi + 1) * d
  <2>1. lo * weight \in Int /\ hi * weight \in Int
    OBVIOUS
  <2> QED BY <1>2, <2>1
<1>4. round(sum, weight) = x \div d
  BY DEF round
<1> HIDE DEF x, d
<1> QED BY <1>1, <1>3, <1>4, QuotientBetween

\* The metrics: a share, a mean of shares and a judgement are between 0 and 100, or Missing.
Observed == 0..100
Measured(x) == x = Missing \/ x \in Observed

LEMMA PctMeasured ==
  ASSUME NEW n \in Nat, NEW m \in Nat, n <= m
  PROVE  Measured(pct(n, m)) /\ (m # 0 => pct(n, m) \in Observed)
<1>1. CASE m = 0
  BY <1>1 DEF pct, Measured
<1>2. CASE m # 0
  <2>1. 0 * m <= 100 * n /\ 100 * n < (100 + 1) * m
    BY <1>2
  <2>2. 100 * n \in Int /\ m > 0
    BY <1>2
  <2>3. (100 * n) \div m \in Int /\ 0 <= (100 * n) \div m /\ (100 * n) \div m <= 100
    BY <2>1, <2>2, QuotientBetween
  <2> QED BY <1>2, <2>3 DEF pct, Measured, Observed
<1> QED BY <1>1, <1>2

LEMMA ShareMeasured ==
  ASSUME NEW whole, IsFiniteSet(whole), NEW part \in SUBSET whole
  PROVE  Measured(share(part, whole)) /\ (whole # {} => share(part, whole) \in Observed)
<1>1. IsFiniteSet(part) /\ Cardinality(part) <= Cardinality(whole)
  BY FS_Subset
<1>2. Cardinality(part) \in Nat /\ Cardinality(whole) \in Nat
  BY <1>1, FS_CardinalityType
<1>3. whole # {} => Cardinality(whole) # 0
  BY FS_EmptySet
<1> QED BY <1>1, <1>2, <1>3, PctMeasured DEF share

\* A cardinality is a sum of ones.
LEMMA CardinalityAddsUp ==
  ASSUME NEW D, IsFiniteSet(D)
  PROVE  \E g \in [SUBSET D -> Int] : AddsUp(g, D, [x \in D |-> 1]) /\ g[D] = Cardinality(D)
<1> DEFINE g == [t \in SUBSET D |-> Cardinality(t)]
<1>1. \A t \in SUBSET D : IsFiniteSet(t) /\ Cardinality(t) \in Nat
  BY FS_Subset, FS_CardinalityType
<1>2. g \in [SUBSET D -> Int]
  BY <1>1
<1>3. g[{}] = 0
  BY FS_EmptySet
<1>4. ASSUME NEW t \in SUBSET D, NEW x \in t PROVE g[t] = g[t \ {x}] + 1
  <2>1. Cardinality(t \ {x}) = Cardinality(t) - 1
    BY <1>1, FS_RemoveElement
  <2>2. t \ {x} \in SUBSET D
    OBVIOUS
  <2> QED BY <1>1, <2>1, <2>2
<1>5. AddsUp(g, D, [x \in D |-> 1])
  <2> HIDE DEF g
  <2> QED BY <1>3, <1>4 DEF AddsUp
<1>6. g[D] = Cardinality(D)
  OBVIOUS
<1> HIDE DEF g
<1> QED BY <1>2, <1>5, <1>6

LEMMA MeanMeasured ==
  ASSUME NEW D, IsFiniteSet(D), NEW f \in [D -> Observed]
  PROVE  Measured(mean(f))
<1>0. PICK n \in Nat : n = Cardinality(D)
  BY FS_CardinalityType
<1>1. PICK s : s = SumOf(f, D)
  OBVIOUS
<1>2. f \in [D -> Int]
  BY DEF Observed
<1>3. PICK h : Sums(h, D, f)
  BY <1>2, SumExists
<1>4. h \in [SUBSET D -> Int] /\ AddsUp(h, D, f) /\ s = h[D]
  BY <1>1, <1>3 DEF Sums
<1>5. PICK w : w = [x \in D |-> 1]
  OBVIOUS
<1>6. PICK g \in [SUBSET D -> Int] : AddsUp(g, D, w) /\ g[D] = n
  BY <1>0, <1>5, CardinalityAddsUp
<1>7. w \in [D -> Nat] /\ \A x \in D : w[x] = 1 /\ f[x] \in Int /\ 0 <= f[x] /\ f[x] <= 100
  BY <1>5 DEF Observed
<1>8. Within(D, w, f, 0, 100)
  BY <1>7 DEF Within
<1>9. g[D] \in Nat /\ h[D] \in Int /\ 0 * g[D] <= h[D] /\ h[D] <= 100 * g[D]
  <2>1. D \in SUBSET D /\ 0 \in Int /\ 100 \in Int
    OBVIOUS
  <2> QED BY <1>2, <1>4, <1>6, <1>7, <1>8, <2>1, SumsBetween
<1>10. s \in Nat /\ s <= 100 * n
  BY <1>4, <1>6, <1>9
<1>11. DOMAIN f = D /\ mean(f) = pct(s, 100 * n)
  BY <1>0, <1>1, SumOverIs DEF mean
<1> QED BY <1>10, <1>11, PctMeasured

LEMMA ClampMeasured == ASSUME NEW r \in Int PROVE clampPct(r) \in Observed
  BY DEF clampPct, Observed

\* The metrics one by one.
LEMMA BlocksFinite ==
  ASSUME NEW a \in Artifacts
  PROVE  /\ IsFiniteSet(calls(a)) /\ IsFiniteSet(results(a)) /\ IsFiniteSet({0} \cup opening(a))
         /\ \A i \in DOMAIN a.dag : IsFiniteSet(a.dag[i].covers) /\ IsFiniteSet(a.dag[i].expected_tools)
         /\ IsFiniteSet(DOMAIN a.dag) /\ IsFiniteSet(DOMAIN a.audits) /\ a.verdict \in Int
<1>1. IsFiniteSet(DOMAIN a.session)
  BY ArtifactsAssumption
<1>2. calls(a) \subseteq DOMAIN a.session /\ results(a) \subseteq DOMAIN a.session /\ opening(a) \subseteq DOMAIN a.session
  BY DEF calls, results, opening
<1>3. IsFiniteSet(calls(a)) /\ IsFiniteSet(results(a)) /\ IsFiniteSet(opening(a))
  BY <1>1, <1>2, FS_Subset
<1>4. IsFiniteSet({0} \cup opening(a))
  <2>1. IsFiniteSet(opening(a) \cup {0})
    BY <1>3, FS_AddElement
  <2>2. opening(a) \cup {0} = {0} \cup opening(a)
    OBVIOUS
  <2> QED BY <2>1, <2>2
<1> QED BY <1>3, <1>4, ArtifactsAssumption

LEMMA JudgeMeasured == ASSUME NEW a \in Artifacts PROVE Measured(judge(a))
  BY BlocksFinite, ClampMeasured DEF judge, Measured

LEMMA CoveredMeasured ==
  ASSUME NEW a \in Artifacts, NEW confirmed PROVE Measured(covered(a, confirmed))
<1> DEFINE D == {k \in DOMAIN a.dag : a.dag[k].covers # {}}
           f == [i \in D |-> share(a.dag[i].covers \cap confirmed[i], a.dag[i].covers)]
<1>1. IsFiniteSet(D)
  BY BlocksFinite, FS_Subset
<1>2. \A i \in D : share(a.dag[i].covers \cap confirmed[i], a.dag[i].covers) \in Observed
  BY BlocksFinite, ShareMeasured
<1>3. f \in [D -> Observed]
  BY <1>2
<1>4. covered(a, confirmed) = mean(f)
  BY DEF covered
<1> HIDE DEF f, D
<1> QED BY <1>1, <1>3, <1>4, MeanMeasured

LEMMA EfficiencyMeasured ==
  ASSUME NEW a \in Artifacts, NEW budget \in Nat
  PROVE  Measured(step_efficiency(a, budget)) \/ (budget = 0 /\ step_efficiency(a, budget) = NaN)
<1> DEFINE w == bucketToolsByTask(a)
           D == {o \in DOMAIN w : o # 0 \/ w[o].toolCalls # {}}
           f == [o \in D |-> IF budget = 0 THEN 100 ELSE clampPct(pct(Cardinality(w[o].toolCalls), budget))]
<1>1. DOMAIN w = {0} \cup opening(a) /\ \A o \in DOMAIN w : w[o].toolCalls \subseteq calls(a)
  BY DEF bucketToolsByTask
<1>2. IsFiniteSet(D)
  BY <1>1, BlocksFinite, FS_Subset
<1> HIDE DEF w
<1>3. ASSUME NEW o \in D, budget # 0 PROVE clampPct(pct(Cardinality(w[o].toolCalls), budget)) \in Observed
  <2>1. Cardinality(w[o].toolCalls) \in Nat
    BY <1>1, BlocksFinite, FS_Subset, FS_CardinalityType
  <2>2. pct(Cardinality(w[o].toolCalls), budget) \in Int
    BY <1>3, <2>1 DEF pct
  <2> QED BY <2>2, ClampMeasured
<1>4. f \in [D -> Observed]
  <2>1. 100 \in Observed
    BY DEF Observed
  <2> QED BY <1>3, <2>1
<1>5. step_efficiency(a, budget) = IF "session" \in a.unreadable THEN 100
                                   ELSE IF budget = 0 /\ \E o \in D : w[o].toolCalls = {} THEN NaN ELSE mean(f)
  BY DEF step_efficiency, w
<1> HIDE DEF f, D
<1>6. Measured(mean(f))
  BY <1>2, <1>4, MeanMeasured
<1>7. Measured(100)
  BY DEF Measured, Observed
<1>8. step_efficiency(a, budget) \in {100, mean(f)} \/ (budget = 0 /\ step_efficiency(a, budget) = NaN)
  BY <1>5
<1> QED BY <1>6, <1>7, <1>8

LEMMA TaskMeasured ==
  ASSUME NEW actual, IsFiniteSet(actual), NEW expected, IsFiniteSet(expected), expected # {}
  PROVE  computePerTask(actual, expected) \in Observed
<1> DEFINE both == actual \cap expected
<1>1. Cardinality(both) <= Cardinality(actual) /\ Cardinality(both) <= Cardinality(expected)
  BY FS_Subset
<1>2. Cardinality(both) \in Nat /\ Cardinality(actual) \in Nat /\ Cardinality(expected) \in Nat
  BY FS_Subset, FS_CardinalityType
<1>3. Cardinality(expected) # 0
  BY FS_EmptySet
<1> HIDE DEF both
<1>4. pct(2 * Cardinality(both), Cardinality(actual) + Cardinality(expected)) \in Observed
  BY <1>1, <1>2, <1>3, PctMeasured
<1> QED BY <1>4 DEF computePerTask, both

LEMMA CorrectnessMeasured ==
  ASSUME NEW a \in Artifacts PROVE Measured(tool_correctness(a))
<1> DEFINE expects(id) == {i \in DOMAIN a.dag : a.dag[i].id = id /\ a.dag[i].expected_tools # {}}
           w == bucketToolsByTask(a)
           D == {o \in DOMAIN w : expects(w[o].taskId) # {}}
           names(o) == {a.session[i].name : i \in w[o].toolCalls}
           f == [o \in D |-> computePerTask(names(o), a.dag[CHOOSE i \in expects(w[o].taskId) : TRUE].expected_tools)]
<1>1. DOMAIN w = {0} \cup opening(a) /\ \A o \in DOMAIN w : w[o].toolCalls \subseteq calls(a)
  BY DEF bucketToolsByTask
<1>2. IsFiniteSet(D)
  BY <1>1, BlocksFinite, FS_Subset
<1> HIDE DEF w
<1>3. ASSUME NEW o \in D
      PROVE  computePerTask(names(o), a.dag[CHOOSE i \in expects(w[o].taskId) : TRUE].expected_tools) \in Observed
  <2> DEFINE tools == w[o].toolCalls
  <2>1. IsFiniteSet(tools)
    BY <1>1, BlocksFinite, FS_Subset
  <2>2. IsFiniteSet(names(o))
    <3>1. [i \in tools |-> a.session[i].name] \in Surjection(tools, names(o))
      <4> HIDE DEF w
      <4> QED BY DEF Surjection
    <3> HIDE DEF names, tools
    <3> QED BY <2>1, <3>1, FS_Surjection
  <2>3. PICK i \in expects(w[o].taskId) : i = CHOOSE j \in expects(w[o].taskId) : TRUE
    OBVIOUS
  <2>4. IsFiniteSet(a.dag[i].expected_tools) /\ a.dag[i].expected_tools # {}
    BY BlocksFinite
  <2> HIDE DEF names, expects
  <2>5. computePerTask(names(o), a.dag[i].expected_tools) \in Observed
    BY <2>2, <2>4, TaskMeasured
  <2> QED BY <2>3, <2>5
<1>4. f \in [D -> Observed]
  <2> HIDE DEF names, expects
  <2> QED BY <1>3
<1>5. tool_correctness(a) = IF "dag" \in a.unreadable \/ "session" \in a.unreadable THEN Missing ELSE mean(f)
  BY DEF tool_correctness, w
<1> HIDE DEF f, D
<1>6. Measured(mean(f))
  BY <1>2, <1>4, MeanMeasured
<1> QED BY <1>5, <1>6 DEF Measured

LEMMA MetricsMeasured ==
  ASSUME NEW a \in Artifacts, NEW cfg, cfg.budgetPerTask \in Nat, NEW name \in MetricIds
  PROVE  \/ Measured(metricValue(name, cfg, a))
         \/ cfg.budgetPerTask = 0 /\ metricValue(name, cfg, a) = NaN
<1>1. Measured(argument_correctness(a))
  <2>1. {i \in results(a) : a.session[i].is_error} \in SUBSET results(a)
    OBVIOUS
  <2>2. Measured(share({i \in results(a) : a.session[i].is_error}, results(a)))
    BY <2>1, BlocksFinite, ShareMeasured
  <2> QED BY <2>2 DEF argument_correctness, Measured
<1>2. Measured(tool_adoption(a))
  <2> DEFINE recognized == {i \in calls(a) : a.session[i].name \in SpecializedTools \cup BaselineTools \cup ORCHESTRATOR_TOOLS}
             special == {i \in recognized : a.session[i].name \in SpecializedTools}
  <2>1. IsFiniteSet(recognized) /\ special \in SUBSET recognized
    BY BlocksFinite, FS_Subset
  <2>2. Measured(share(special, recognized))
    <3> HIDE DEF recognized, special
    <3> QED BY <2>1, ShareMeasured
  <2> QED BY <2>2 DEF tool_adoption, Measured
<1>3. ASSUME NEW llm PROVE Measured(goal_accuracy(a, llm))
  <2> DEFINE good == {i \in DOMAIN a.audits : a.audits[i].workflowReady /\ a.audits[i].certified}
  <2>1. good \in SUBSET DOMAIN a.audits /\ IsFiniteSet(DOMAIN a.audits)
    BY BlocksFinite
  <2>2. Measured(share(good, DOMAIN a.audits))
    <3> HIDE DEF good
    <3> QED BY <2>1, ShareMeasured
  <2> QED BY <2>2, JudgeMeasured DEF goal_accuracy, Measured
<1>4. Measured(plan_adherence(a))
  BY CoveredMeasured DEF plan_adherence, Measured
<1>5. ASSUME NEW llm PROVE Measured(task_completion(a, llm))
  <2>1. \A c : Measured(covered(a, c))
    BY CoveredMeasured
  <2> QED BY <2>1, JudgeMeasured DEF task_completion, Measured
<1>6. Measured(plan_quality(a)) /\ Measured(tool_use(a))
  BY JudgeMeasured DEF plan_quality, tool_use, Measured
<1>7. /\ \/ Measured(step_efficiency(a, cfg.budgetPerTask))
         \/ cfg.budgetPerTask = 0 /\ step_efficiency(a, cfg.budgetPerTask) = NaN
      /\ Measured(tool_correctness(a))
  BY EfficiencyMeasured, CorrectnessMeasured
<1>8. name \in {"argument_correctness", "step_efficiency", "tool_adoption", "goal_accuracy", "plan_adherence",
                "task_completion", "tool_correctness", "plan_quality", "tool_use"}
  BY MetricsAssumption
<1> QED BY <1>1, <1>2, <1>3, <1>4, <1>5, <1>6, <1>7, <1>8 DEF metricValue

LEMMA NormMeasured ==
  ASSUME NEW raw \in Observed, NEW norm \in Norms, NEW direction \in {"higher_better", "lower_better"}
  PROVE  applyNorm(raw, norm, direction) \in Observed
<1>1. LogPct[raw] \in Observed
  BY ScaleAssumption DEF Observed
<1>2. clampPct(raw) \in Observed
  BY ClampMeasured DEF Observed
<1>3. (raw + 100) \div 2 \in Observed
  BY DEF Observed
<1>4. \A n \in Observed : 100 - n \in Observed
  BY DEF Observed
<1>5. PICK n \in Observed : applyNorm(raw, norm, direction) = IF direction = "lower_better" THEN 100 - n ELSE n
  <2> DEFINE n == CASE norm = "ratio_0_1" -> clampPct(raw)
                    [] norm \in {"identity", "count"} -> raw
                    [] norm = "log_count" -> LogPct[raw]
                    [] norm = "boolean" -> IF raw >= 50 THEN 100 ELSE 0
                    [] norm = "invert_count" -> 100 - clampPct(raw)
                    [] norm = "invert_log_count" -> 100 - LogPct[raw]
                    [] norm = "signed_pct" -> (raw + 100) \div 2
  <2>1. 0 \in Observed /\ 100 \in Observed
    BY DEF Observed
  <2>2. n \in Observed
    BY <1>1, <1>2, <1>3, <1>4, <2>1 DEF Norms
  <2>3. applyNorm(raw, norm, direction) = IF direction = "lower_better" THEN 100 - n ELSE n
    <3>1. raw # NaN
      BY DEF Observed, NaN
    <3> QED BY <3>1 DEF applyNorm
  <2> HIDE DEF n
  <2> QED BY <2>2, <2>3
<1> QED BY <1>4, <1>5

\* The weighted mean of values on the scale lies between the least and the greatest of
\* those that weigh something, and is zero if none does.
Mean(weight, sum) == IF weight = 0 THEN 0 ELSE round(sum, weight)
Weighs(S, w) == {x \in S : w[x] > 0}
Products(D, p, v, w) == \A x \in D : p[x] = v[x] * w[x]
LEMMA MeanBetween ==
  ASSUME NEW D, IsFiniteSet(D), NEW w \in [D -> Nat], NEW v \in [D -> Observed], NEW p \in [D -> Int],
         Products(D, p, v, w), NEW S \in SUBSET D
  PROVE  /\ Mean(SumOf(w, S), SumOf(p, S)) \in Observed
         /\ Weighs(S, w) = {} => SumOf(w, S) = 0 /\ Mean(SumOf(w, S), SumOf(p, S)) = 0
         /\ Weighs(S, w) # {} => Between(Mean(SumOf(w, S), SumOf(p, S)), {v[x] : x \in Weighs(S, w)})
<1>1. CASE Weighs(S, w) = {}
  <2>1. \A x \in S : w[x] = 0
    BY <1>1 DEF Weighs
  <2>2. w \in [D -> Int]
    OBVIOUS
  <2>3. SumOf(w, S) = 0
    BY <2>1, <2>2, SumOfZeros
  <2> QED BY <1>1, <2>3 DEF Mean, Observed
<1>2. CASE Weighs(S, w) # {}
  <2> DEFINE T == {v[x] : x \in Weighs(S, w)}
  <2>1. T \subseteq 0..100 /\ T \subseteq Nat /\ T # {}
    <3>1. \A x \in Weighs(S, w) : v[x] \in 0..100
      BY DEF Weighs, Observed
    <3> QED BY <1>2, <3>1
  <2>2. PICK lo \in T : \A k \in T : lo <= k
    <3> HIDE DEF T
    <3> QED BY <2>1, LeastOf
  <2>3. PICK hi \in T : \A k \in T : k <= hi
    <3> HIDE DEF T
    <3>1. 100 \in Nat
      OBVIOUS
    <3> QED BY <2>1, <3>1, MaxOf
  <2>4. lo \in Int /\ hi \in Int /\ 0 <= lo /\ hi <= 100
    <3>1. lo \in 0..100 /\ hi \in 0..100
      <4> HIDE DEF T
      <4> QED BY <2>1
    <3> QED BY <3>1
  <2>5. ASSUME NEW x \in S PROVE lo * w[x] <= p[x] /\ p[x] <= hi * w[x]
    <3>1. ASSUME NEW a \in Int, NEW b \in Int, NEW c \in Nat, a <= b PROVE a * c <= b * c
      BY <3>1
    <3>2. PICK n \in Nat, u \in Int : n = w[x] /\ u = v[x] /\ p[x] = u * n
      BY DEF Observed, Products
    <3>3. CASE n = 0
      BY <2>4, <3>2, <3>3
    <3>4. CASE n # 0
      <4>1. u \in T
        BY <3>2, <3>4 DEF Weighs
      <4>2. lo <= u /\ u <= hi
        BY <2>2, <2>3, <4>1
      <4>3. lo * n <= u * n /\ u * n <= hi * n
        <5> HIDE DEF T
        <5> QED BY <2>4, <3>1, <4>2
      <4> QED BY <3>2, <4>3
    <3> QED BY <3>3, <3>4
  <2>6. Within(S, w, p, lo, hi)
    BY <2>5 DEF Within
  <2>7. PICK x \in S : w[x] > 0
    BY <1>2 DEF Weighs
  <2>8. w \in [D -> Int] /\ S \ {x} \in SUBSET D /\ Within(S \ {x}, w, p, lo, hi)
    BY <2>6 DEF Within
  <2>9. PICK g : Sums(g, D, w)
    BY <2>8, SumExists
  <2>10. PICK h : Sums(h, D, p)
    BY SumExists
  <2>11. /\ g \in [SUBSET D -> Int] /\ AddsUp(g, D, w) /\ SumOf(w, S) = g[S]
         /\ h \in [SUBSET D -> Int] /\ AddsUp(h, D, p) /\ SumOf(p, S) = h[S]
    BY <2>9, <2>10 DEF Sums
  <2> HIDE DEF T
  <2>12. g[S] \in Nat /\ h[S] \in Int /\ lo * g[S] <= h[S] /\ h[S] <= hi * g[S]
    BY <2>4, <2>6, <2>11, SumsBetween
  <2>13. g[S \ {x}] \in Nat
    BY <2>4, <2>8, <2>11, SumsBetween
  <2>14. g[S] = g[S \ {x}] + w[x]
    BY <2>7, <2>11 DEF AddsUp
  <2>15. g[S] > 0
    <3>1. w[x] \in Nat
      OBVIOUS
    <3> QED BY <2>7, <2>13, <2>14, <3>1
  <2>16. round(h[S], g[S]) \in Int /\ lo <= round(h[S], g[S]) /\ round(h[S], g[S]) <= hi
    BY <2>4, <2>12, <2>15, RoundBetween
  <2>17. PICK r \in Int : r = round(h[S], g[S]) /\ lo <= r /\ r <= hi
    BY <2>16
  <2>18. Mean(SumOf(w, S), SumOf(p, S)) = r
    BY <2>11, <2>15, <2>17 DEF Mean
  <2>19. r \in Observed
    BY <2>4, <2>17 DEF Observed
  <2>20. Between(r, T)
    BY <2>2, <2>3, <2>17 DEF Between
  <2> QED BY <1>2, <2>18, <2>19, <2>20 DEF T
<1> QED BY <1>1, <1>2

\* What is promised of a dimension.
Weighty(r) == {e[1] : e \in {x \in r.evidence : x[2] > 0}}
Seen(r) == {e[1] : e \in r.evidence}
Scored(r) ==
    IF NaN \in Seen(r) THEN r.score \in {0, NaN}
    ELSE /\ r.score \in 0..100
         /\ IF Weighty(r) = {} THEN r.score = 0 ELSE Between(r.score, Weighty(r))

LEMMA ScaleIs ==
  /\ Whole \in Nat /\ Whole > 0
  /\ Len(DIMENSIONS) \in Nat /\ DOMAIN DIMENSIONS = 1..Len(DIMENSIONS) /\ IsFiniteSet(DOMAIN DIMENSIONS)
  BY ScaleAssumption

LEMMA WeightsTyped ==
  ASSUME NEW cfg, CoefficientsConfig(cfg), NEW d \in Dims
  PROVE  /\ IsFiniteSet(DOMAIN cfg.weights[d])
         /\ \A s \in DOMAIN cfg.weights[d] :
                /\ cfg.weights[d][s] \in 0..Whole /\ cfg.weights[d][s] \in Nat
                /\ cfg.norm[d][s] \in Norms /\ cfg.direction[d][s] \in {"higher_better", "lower_better"}
         /\ cfg.weights[d] \in [DOMAIN cfg.weights[d] -> Nat]
<1> DEFINE D == DOMAIN cfg.weights[d]
<1>1. /\ IsFiniteSet(D) /\ cfg.weights[d] \in [D -> 0..Whole] /\ cfg.norm[d] \in [D -> Norms]
      /\ cfg.direction[d] \in [D -> {"higher_better", "lower_better"}]
  BY DEF CoefficientsConfig
<1>2. 0..Whole \subseteq Nat
  BY ScaleIs
<1>3. PICK w : w = cfg.weights[d]
  OBVIOUS
<1>4. PICK E : E = D
  OBVIOUS
<1>5. w \in [E -> 0..Whole] /\ w \in [E -> Nat] /\ \A s \in E : w[s] \in 0..Whole /\ w[s] \in Nat
  BY <1>1, <1>2, <1>3, <1>4
<1> QED BY <1>1, <1>3, <1>4, <1>5

\* The values of a dimension when each is a number.
ValueOf(cfg, d, vals, s) == IF vals[s] = Missing THEN 0 ELSE applyNorm(vals[s], cfg.norm[d][s], cfg.direction[d][s])
LEMMA NumbersScored ==
  ASSUME NEW cfg, CoefficientsConfig(cfg), NEW d \in Dims, NEW vals,
         DOMAIN vals = DOMAIN cfg.weights[d], \A s \in DOMAIN vals : ValueOf(cfg, d, vals, s) \in Observed
  PROVE  /\ Scored(scoreDimension(cfg, d, vals))
         /\ scoreDimension(cfg, d, vals) \in [score : 0..100, evidence : SUBSET (Observed \X (0..Whole))]
<1> DEFINE D == DOMAIN vals
           S == observed(vals)
           value(s) == IF vals[s] = Missing THEN 0 ELSE applyNorm(vals[s], cfg.norm[d][s], cfg.direction[d][s])
           evidence == {<<value(s), cfg.weights[d][s]>> : s \in {x \in S : vals[x] # Missing}}
<1>1. PICK w : w = cfg.weights[d]
  OBVIOUS
<1>2. /\ IsFiniteSet(D) /\ w \in [D -> Nat]
      /\ \A s \in D : cfg.norm[d][s] \in Norms /\ cfg.direction[d][s] \in {"higher_better", "lower_better"}
  BY <1>1, WeightsTyped
<1>3. S \in SUBSET D /\ {x \in S : vals[x] # Missing} = S
  BY DEF observed
<1>4. \A s \in D : value(s) \in Observed /\ value(s) # NaN
  BY DEF ValueOf, Observed, NaN
<1> HIDE DEF value, S, D
<1>5. PICK v : v = [s \in D |-> value(s)]
  OBVIOUS
<1>6. PICK p : p = [s \in D |-> value(s) * w[s]]
  OBVIOUS
<1>7. v \in [D -> Observed] /\ \A s \in D : v[s] = value(s) /\ p[s] = value(s) * w[s]
  BY <1>4, <1>5, <1>6
<1>8. p \in [D -> Int] /\ Products(D, p, v, w)
  <2>1. \A s \in D : value(s) * w[s] \in Int
    BY <1>2, <1>4 DEF Observed
  <2> QED BY <1>6, <1>7, <2>1 DEF Products
<1>9. PICK score : score = Mean(SumOf(w, S), SumOf(p, S))
  OBVIOUS
<1>10. scoreDimension(cfg, d, vals) = [score |-> score, evidence |-> evidence]
  <2>1. sumOver(cfg.weights[d], S) = SumOf(w, S)
    BY <1>1, SumOverIs
  <2>2. sumOver([s \in D |-> value(s) * cfg.weights[d][s]], S) = SumOf(p, S)
    BY <1>1, <1>6, SumOverIs
  <2>3. ~\E s \in S : value(s) = NaN
    BY <1>3, <1>4
  <2> QED BY <1>9, <2>1, <2>2, <2>3 DEF scoreDimension, Mean, value, S, D
<1>11. evidence = {<<v[s], w[s]>> : s \in S}
  BY <1>1, <1>3, <1>7
<1> HIDE DEF evidence
<1>12. PICK r : r = scoreDimension(cfg, d, vals)
  OBVIOUS
<1>13. r.score = score /\ r.evidence = evidence
  BY <1>10, <1>12
<1>14. Weighty(r) = {v[x] : x \in Weighs(S, w)}
  <2>1. ASSUME NEW e \in Weighty(r) PROVE e \in {v[x] : x \in Weighs(S, w)}
    <3>1. PICK y \in evidence : y[2] > 0 /\ e = y[1]
      BY <1>13 DEF Weighty
    <3>2. PICK x \in S : y = <<v[x], w[x]>>
      BY <1>11
    <3>3. x \in Weighs(S, w) /\ e = v[x]
      BY <3>1, <3>2 DEF Weighs
    <3> QED BY <3>3
  <2>2. ASSUME NEW x \in Weighs(S, w) PROVE v[x] \in Weighty(r)
    <3>1. x \in S /\ w[x] > 0
      BY DEF Weighs
    <3>2. PICK y : y = <<v[x], w[x]>>
      OBVIOUS
    <3>3. y \in evidence /\ y[1] = v[x] /\ y[2] > 0
      BY <1>11, <3>1, <3>2
    <3> QED BY <1>13, <3>3 DEF Weighty
  <2> QED BY <2>1, <2>2
<1>15. /\ score \in Observed
       /\ Weighs(S, w) = {} => score = 0
       /\ Weighs(S, w) # {} => Between(score, {v[x] : x \in Weighs(S, w)})
  BY <1>2, <1>3, <1>7, <1>8, <1>9, MeanBetween
<1>16. Weighty(r) = {} => Weighs(S, w) = {}
  BY <1>14
<1>17. Scored(r)
  <2>1. NaN \notin Seen(r)
    BY <1>3, <1>4, <1>7, <1>11, <1>13 DEF Seen
  <2> QED BY <1>13, <1>14, <1>15, <1>16, <2>1 DEF Scored, Observed
<1>18. r \in [score : 0..100, evidence : SUBSET (Observed \X (0..Whole))]
  <2>1. \A s \in S : v[s] \in Observed /\ w[s] \in 0..Whole
    BY <1>1, <1>3, <1>7, WeightsTyped DEF D
  <2>2. evidence \subseteq Observed \X (0..Whole)
    BY <1>11, <2>1
  <2> QED BY <1>10, <1>12, <1>15, <2>2 DEF Observed
<1> QED BY <1>12, <1>17, <1>18

LEMMA DimensionScored ==
  ASSUME NEW cfg, CoefficientsConfig(cfg), NEW d \in Dims, NEW vals,
         DOMAIN vals = DOMAIN cfg.weights[d], \A s \in DOMAIN vals : Measured(vals[s]) \/ vals[s] = NaN
  PROVE  /\ Scored(scoreDimension(cfg, d, vals))
         /\ scoreDimension(cfg, d, vals) \in
              [score : 0..100 \cup {NaN}, evidence : SUBSET ((Observed \cup {NaN}) \X (0..Whole))]
         /\ scoreDimension(cfg, d, vals).score = NaN => \E s \in DOMAIN vals : vals[s] = NaN
<1> DEFINE D == DOMAIN vals
           S == observed(vals)
           value(s) == IF vals[s] = Missing THEN 0 ELSE applyNorm(vals[s], cfg.norm[d][s], cfg.direction[d][s])
<1>1. \A s \in D : /\ cfg.weights[d][s] \in 0..Whole
                   /\ cfg.norm[d][s] \in Norms /\ cfg.direction[d][s] \in {"higher_better", "lower_better"}
  BY WeightsTyped
<1>2. \A s \in D : value(s) = ValueOf(cfg, d, vals, s)
  BY DEF ValueOf
<1>3. 0 \in Observed /\ 100 \in Observed /\ NaN \notin Observed
  BY DEF Observed, NaN
<1>4. ASSUME NEW s \in D, vals[s] # NaN PROVE value(s) \in Observed
  <2>1. CASE vals[s] = Missing
    BY <1>3, <2>1
  <2>2. CASE vals[s] # Missing
    <3>1. vals[s] \in Observed
      BY <1>4, <2>2 DEF Measured
    <3>2. applyNorm(vals[s], cfg.norm[d][s], cfg.direction[d][s]) \in Observed
      BY <1>1, <3>1, NormMeasured
    <3> QED BY <2>2, <3>2
  <2> QED BY <2>1, <2>2
<1>5. ASSUME NEW s \in D, vals[s] = NaN PROVE value(s) \in Observed \cup {NaN}
  <2>1. vals[s] # Missing
    BY <1>5 DEF NaN, Missing
  <2>2. applyNorm(vals[s], cfg.norm[d][s], cfg.direction[d][s]) \in {0, 100, NaN}
    BY <1>5 DEF applyNorm
  <2> QED BY <1>3, <2>1, <2>2
<1>6. S \in SUBSET D /\ {x \in S : vals[x] # Missing} = S
  BY DEF observed
<1>7. CASE \A s \in D : value(s) # NaN
  <2>1. \A s \in D : ValueOf(cfg, d, vals, s) \in Observed
    BY <1>2, <1>4, <1>5, <1>7
  <2>2. /\ Scored(scoreDimension(cfg, d, vals))
        /\ scoreDimension(cfg, d, vals) \in [score : 0..100, evidence : SUBSET (Observed \X (0..Whole))]
    BY <2>1, NumbersScored
  <2>3. \A e \in SUBSET (Observed \X (0..Whole)) : e \in SUBSET ((Observed \cup {NaN}) \X (0..Whole))
    OBVIOUS
  <2> HIDE DEF D, S, value
  <2>4. PICK r : r = scoreDimension(cfg, d, vals)
    OBVIOUS
  <2>5. r.score \in 0..100 /\ r.score # NaN
    BY <2>2, <2>4 DEF NaN
  <2> QED BY <2>2, <2>3, <2>4, <2>5
<1>8. CASE \E s \in D : value(s) = NaN
  <2>1. PICK s \in D : value(s) = NaN
    BY <1>8
  <2>2. vals[s] = NaN /\ s \in S
    <3>1. vals[s] = NaN
      BY <1>3, <1>4, <2>1
    <3> QED BY <3>1 DEF observed, NaN, Missing
  <2> HIDE DEF value, S, D
  <2>3. PICK evidence : evidence = {<<value(x), cfg.weights[d][x]>> : x \in S}
    OBVIOUS
  <2>4. PICK score \in {0, NaN} : scoreDimension(cfg, d, vals) = [score |-> score, evidence |-> evidence]
    BY <1>6, <2>1, <2>2, <2>3 DEF scoreDimension, value, S, D
  <2>5. NaN \in {e[1] : e \in evidence}
    <3>1. PICK y : y = <<value(s), cfg.weights[d][s]>>
      OBVIOUS
    <3>2. y \in evidence /\ y[1] = NaN
      BY <2>1, <2>2, <2>3, <3>1
    <3> QED BY <3>2
  <2>6. evidence \subseteq (Observed \cup {NaN}) \X (0..Whole)
    BY <1>1, <1>4, <1>5, <1>6, <2>3
  <2>7. PICK r : r = scoreDimension(cfg, d, vals)
    OBVIOUS
  <2>8. r.score = score /\ r.evidence = evidence /\ r = [score |-> score, evidence |-> evidence]
    BY <2>4, <2>7
  <2>9. score \in 0..100 \cup {NaN}
    BY <2>4 DEF NaN
  <2>10. Scored(r)
    BY <2>4, <2>5, <2>8 DEF Scored, Seen
  <2>11. r \in [score : 0..100 \cup {NaN}, evidence : SUBSET ((Observed \cup {NaN}) \X (0..Whole))]
    BY <2>6, <2>8, <2>9
  <2>12. \E x \in DOMAIN vals : vals[x] = NaN
    BY <2>1, <2>2 DEF D
  <2> QED BY <2>7, <2>10, <2>11, <2>12
<1> QED BY <1>7, <1>8

LEMMA TotalBetween ==
  ASSUME NEW cfg, CoefficientsConfig(cfg), validateInvariants(cfg), NEW dims,
         \A i \in DOMAIN DIMENSIONS : dims[i].score \in Observed
  PROVE  globalScore(dims, cfg) \in Int /\ Between(globalScore(dims, cfg), {dims[i].score : i \in DOMAIN DIMENSIONS})
<1> DEFINE D == DOMAIN DIMENSIONS
<1>1. PICK w : w = byDimension(cfg)
  OBVIOUS
<1>2. PICK v : v = [i \in D |-> dims[i].score]
  OBVIOUS
<1>3. PICK p : p = [i \in D |-> dims[i].score * w[i]]
  OBVIOUS
<1>4. DOMAIN w = D /\ w \in [D -> Nat]
  <2>1. \A i \in D : DIMENSIONS[i] \in Dims
    BY DEF Dims, Range
  <2>2. \A x \in Dims : cfg.dimension_weights[x] \in Nat
    <3>1. cfg.dimension_weights \in [Dims -> 0..Whole] /\ Whole \in Nat
      BY ScaleAssumption DEF CoefficientsConfig
    <3>2. 0..Whole \subseteq Nat
      BY <3>1
    <3> QED BY <3>1, <3>2
  <2> QED BY <1>1, <2>1, <2>2 DEF byDimension
<1>5. IsFiniteSet(D)
  BY ScaleIs
<1>6. v \in [D -> Observed] /\ p \in [D -> Int] /\ \A i \in D : v[i] = dims[i].score
  <2>1. \A i \in D : v[i] = dims[i].score /\ v[i] \in Observed /\ p[i] = v[i] * w[i]
    BY <1>2, <1>3
  <2>2. \A i \in D : v[i] * w[i] \in Int
    BY <1>4, <2>1 DEF Observed
  <2> QED BY <1>2, <1>3, <2>1, <2>2
<1>7. Products(D, p, v, w)
  BY <1>2, <1>3 DEF Products
<1>8. SumOf(w, D) = Whole
  BY <1>1, SumOverIs DEF validateInvariants
<1>9. globalScore(dims, cfg) = Mean(SumOf(w, D), SumOf(p, D))
  <2>1. sumOver(w, D) = SumOf(w, D) /\ sumOver(p, D) = SumOf(p, D)
    BY SumOverIs
  <2>2. \A i \in D : dims[i].score # NaN
    BY DEF Observed, NaN
  <2> QED BY <1>1, <1>3, <1>4, <2>1, <2>2 DEF globalScore, Mean
<1>10. /\ Weighs(D, w) = {} => SumOf(w, D) = 0
       /\ Weighs(D, w) # {} => Between(Mean(SumOf(w, D), SumOf(p, D)), {v[x] : x \in Weighs(D, w)})
  <2>1. D \in SUBSET D
    OBVIOUS
  <2> QED BY <1>4, <1>5, <1>6, <1>7, <2>1, MeanBetween
<1>11. Between(globalScore(dims, cfg), {v[x] : x \in Weighs(D, w)})
  <2>1. Weighs(D, w) # {}
    <3>1. SumOf(w, D) # 0
      BY <1>8, ScaleIs
    <3> QED BY <1>10, <3>1
  <2> QED BY <1>9, <1>10, <2>1
<1>12. {v[x] : x \in Weighs(D, w)} \subseteq {dims[i].score : i \in D}
  BY <1>6 DEF Weighs
<1>13. globalScore(dims, cfg) \in Int
  <2>1. D \in SUBSET D
    OBVIOUS
  <2>2. Mean(SumOf(w, D), SumOf(p, D)) \in Observed
    BY <1>4, <1>5, <1>6, <1>7, <2>1, MeanBetween
  <2> QED BY <1>9, <2>2 DEF Observed
<1> QED BY <1>11, <1>12, <1>13 DEF Between

\* A dimension that is not a number spoils the total.
LEMMA TotalSpoilt ==
  ASSUME NEW cfg, CoefficientsConfig(cfg), validateInvariants(cfg), NEW dims,
         NEW i \in DOMAIN DIMENSIONS, dims[i].score = NaN
  PROVE  globalScore(dims, cfg) = NaN
<1>1. PICK w : w = byDimension(cfg)
  OBVIOUS
<1>2. DOMAIN w = DOMAIN DIMENSIONS
  BY <1>1 DEF byDimension
<1>3. sumOver(w, DOMAIN w) # 0
  BY <1>1, <1>2, ScaleIs DEF validateInvariants
<1> QED BY <1>1, <1>2, <1>3 DEF globalScore

-----------------------------------------------------------------------------
(* What the invariant holds: the coefficients in use kept the invariants, a *)
(* pass collects scores of dimensions, and what is cached or answered has   *)
(* all of them and the mean of them for its total, or NaN if one is.        *)
Ids == WorkflowIds \cup {NoWorkflow}
SoundFiles == {f \in CoeffFiles : Content[f].kind = "config" /\ validateInvariants(Content[f])}
DimensionScores ==
    {r \in [score : 0..100 \cup {NaN}, evidence : SUBSET ((Observed \cup {NaN}) \X (0..Whole))] :
        Scored(r) /\ (r.score = NaN => ZeroBudget)}
Partial == {q \in Seq(DimensionScores) : Len(q) <= Len(DIMENSIONS)}
Spoilt(wf) == {i \in DOMAIN wf.dims : wf.dims[i].score = NaN}
Total(wf) ==
    IF Spoilt(wf) # {} THEN ZeroBudget /\ wf.total = NaN
    ELSE Between(wf.total, {wf.dims[i].score : i \in DOMAIN DIMENSIONS})
Workflows == {wf \in [id : Ids, total : Int, dims : Partial] : wf # NoScore => Total(wf)}
Calls == [at : {"idle", "scoring", "answered"}, dims : Partial, named : SUBSET Ids, rich : BOOLEAN, answer : Workflows]

EvalTyped ==
    /\ ev \in [loaded : BOOLEAN, started : BOOLEAN, mode : {"off", "on"}, coefficients : SoundFiles,
               warning : BOOLEAN, path : BOOLEAN, id : Ids, active : Workflows]
    /\ registry \subseteq MetricIds
    /\ evcalls \in [EvalCalls -> Calls]

LEMMA StartsSound == DEFAULT_COEFFICIENTS \in SoundFiles /\ NoScore \in Workflows /\ IdleCall \in Calls /\ NoWorkflow \in Ids
<1>1. DEFAULT_COEFFICIENTS \in SoundFiles
  BY CoefficientsAssumption DEF SoundFiles
<1>2. <<>> \in Partial
  BY ScaleIs DEF Partial
<1>3. NoWorkflow \in Ids
  BY DEF Ids
<1>4. NoScore \in Workflows
  BY <1>2, <1>3 DEF NoScore, Workflows, NoWorkflow
<1>5. IdleCall \in Calls
  BY <1>2, <1>4 DEF IdleCall, Calls
<1> QED BY <1>1, <1>3, <1>4, <1>5

LEMMA LoadedSound ==
  ASSUME NEW f \in CoeffFiles
  PROVE  /\ Loadable(f) => loadCoefficients(f).config \in SoundFiles /\ loadCoefficients(f).warning \in BOOLEAN
         /\ reloadCoefficients(f).config \in SoundFiles /\ reloadCoefficients(f).warning \in BOOLEAN
<1>1. DEFAULT_COEFFICIENTS \in SoundFiles
  BY StartsSound
<1>2. Loadable(f) => loadCoefficients(f).config \in SoundFiles /\ loadCoefficients(f).warning \in BOOLEAN
  BY <1>1 DEF Loadable, loadCoefficients, SoundFiles
<1> QED BY <1>1, <1>2 DEF reloadCoefficients

LEMMA SoundConfig ==
  ASSUME NEW f \in SoundFiles
  PROVE  CoefficientsConfig(Content[f]) /\ validateInvariants(Content[f]) /\ Content[f].budgetPerTask \in Nat
         /\ (Content[f].budgetPerTask = 0 => ZeroBudget)
  BY CoefficientsAssumption, BudgetAssumption DEF SoundFiles, ZeroBudget

LEMMA AnsweredSound ==
  ASSUME EvalTyped, NEW c \in EvalCalls, NEW wf \in Workflows, NEW named \in SUBSET Ids
  PROVE  Answered(c, wf) \in Calls /\ [Answered(c, wf) EXCEPT !.named = named] \in Calls
<1>1. evcalls[c] \in Calls
  BY DEF EvalTyped
<1>2. <<>> \in Partial
  BY StartsSound DEF IdleCall, Calls
<1>3. Answered(c, wf) = [at |-> "answered", dims |-> <<>>, named |-> evcalls[c].named, rich |-> evcalls[c].rich, answer |-> wf]
  <2>1. PICK e \in Calls : e = evcalls[c]
    BY <1>1
  <2>2. PICK f : f = [e EXCEPT !.at = "answered"]
    OBVIOUS
  <2>3. f = [at |-> "answered", dims |-> e.dims, named |-> e.named, rich |-> e.rich, answer |-> e.answer]
    BY <2>2 DEF Calls
  <2>4. Answered(c, wf) = [f EXCEPT !.answer = wf, !.dims = <<>>]
    BY <2>1, <2>2 DEF Answered
  <2> QED BY <2>1, <2>3, <2>4
<1> QED BY <1>1, <1>2, <1>3 DEF Calls

\* A call takes one step, and stays sound.
LEMMA CallStep ==
  ASSUME EvalTyped, NEW c \in EvalCalls, NEW e \in Calls, evcalls' = [evcalls EXCEPT ![c] = e],
         UNCHANGED <<ev, registry>>
  PROVE  EvalTyped'
  BY DEF EvalTyped

\* The next dimension.
LEMMA NextDimension ==
  ASSUME EvalTyped, NEW c \in EvalCalls, NEW a \in Artifacts, scoreWorkflow(c, a) PROVE EvalTyped'
<1> DEFINE d == DIMENSIONS[Len(evcalls[c].dims) + 1]
           cfg == Content[ev.coefficients]
           names == DOMAIN cfg.weights[d]
           vals == [s \in names |-> computeSignalValue(s, cfg, a)]
           found == \E s \in names \cap MetricIds : metricValue(s, cfg, a) # Missing
           r == scoreDimension(cfg, d, vals)
<1>1. evcalls[c] \in Calls /\ registry \subseteq MetricIds /\ ev.coefficients \in SoundFiles
  BY DEF EvalTyped
<1>2. CoefficientsConfig(cfg) /\ cfg.budgetPerTask \in Nat /\ (cfg.budgetPerTask = 0 => ZeroBudget)
  BY <1>1, SoundConfig
<1>3. evcalls[c].dims \in Seq(DimensionScores) /\ Len(evcalls[c].dims) < Len(DIMENSIONS)
  BY <1>1 DEF scoreWorkflow, Calls, Partial
<1>4. d \in Dims
  <2>1. Len(evcalls[c].dims) + 1 \in DOMAIN DIMENSIONS
    BY <1>3, ScaleIs
  <2> QED BY <2>1 DEF Dims, Range
<1>5. /\ UNCHANGED <<ev, registry>>
      /\ evcalls' = [evcalls EXCEPT ![c].dims = Append(evcalls[c].dims, r), ![c].rich = evcalls[c].rich \/ found]
  BY DEF scoreWorkflow
<1> HIDE DEF cfg, d
<1>6. DOMAIN vals = names /\ \A s \in DOMAIN vals : Measured(vals[s]) \/ (vals[s] = NaN /\ ZeroBudget)
  <2>1. ASSUME NEW s \in names
        PROVE  Measured(computeSignalValue(s, cfg, a)) \/ (computeSignalValue(s, cfg, a) = NaN /\ ZeroBudget)
    <3>1. CASE s \notin registry
      BY <3>1 DEF computeSignalValue, Measured
    <3>2. CASE s \in registry
      <4>1. PICK x : x = metricValue(s, cfg, a)
        OBVIOUS
      <4>2. computeSignalValue(s, cfg, a) = x
        BY <3>2, <4>1 DEF computeSignalValue
      <4>3. Measured(x) \/ (cfg.budgetPerTask = 0 /\ x = NaN)
        BY <1>1, <1>2, <3>2, <4>1, MetricsMeasured
      <4> QED BY <1>2, <4>2, <4>3
    <3> QED BY <3>1, <3>2
  <2> QED BY <2>1
<1> HIDE DEF vals
<1>7. r \in DimensionScores
  <2>1. /\ Scored(r)
        /\ r \in [score : 0..100 \cup {NaN}, evidence : SUBSET ((Observed \cup {NaN}) \X (0..Whole))]
        /\ r.score = NaN => \E s \in DOMAIN vals : vals[s] = NaN
    BY <1>2, <1>4, <1>6, DimensionScored
  <2>2. r.score = NaN => ZeroBudget
    <3>1. \A s \in DOMAIN vals : vals[s] = NaN => ZeroBudget
      BY <1>6 DEF Measured, Observed, NaN, Missing
    <3> QED BY <2>1, <3>1
  <2> HIDE DEF r
  <2> QED BY <2>1, <2>2 DEF DimensionScores
<1> HIDE DEF r, names
<1>8. Append(evcalls[c].dims, r) \in Partial
  BY <1>3, <1>7, ScaleIs DEF Partial
<1>9. PICK q, b : q = Append(evcalls[c].dims, r) /\ b = (evcalls[c].rich \/ found)
  OBVIOUS
<1> HIDE DEF found
<1>10. b \in BOOLEAN
  BY <1>1, <1>9 DEF Calls
<1>11. [evcalls[c] EXCEPT !.dims = q, !.rich = b] \in Calls
  BY <1>1, <1>8, <1>9, <1>10 DEF Calls
<1>12. evcalls' = [evcalls EXCEPT ![c] = [evcalls[c] EXCEPT !.dims = q, !.rich = b]]
  <2>1. evcalls' = [evcalls EXCEPT ![c].dims = q, ![c].rich = b]
    BY <1>5, <1>9
  <2> QED BY <2>1 DEF EvalTyped
<1> QED BY <1>5, <1>11, <1>12, CallStep

\* The last one, the total and the cache.
LEMMA ScoreCached ==
  ASSUME EvalTyped, NEW c \in EvalCalls, cacheScore(c) PROVE EvalTyped'
<1> DEFINE cfg == Content[ev.coefficients]
           wf == [id |-> ev.id, total |-> globalScore(evcalls[c].dims, cfg), dims |-> evcalls[c].dims]
<1>1. evcalls[c] \in Calls /\ ev.coefficients \in SoundFiles /\ ev.id \in Ids
  BY DEF EvalTyped
<1>2. CoefficientsConfig(cfg) /\ validateInvariants(cfg)
  BY <1>1, SoundConfig
<1>3. PICK q \in Seq(DimensionScores) : q = evcalls[c].dims /\ q \in Partial /\ Len(q) = Len(DIMENSIONS)
  BY <1>1 DEF cacheScore, Calls, Partial
<1>4. \A i \in DOMAIN DIMENSIONS : q[i] \in DimensionScores
  BY <1>3, ScaleIs
<1>5. \A i \in DOMAIN DIMENSIONS : /\ q[i].score \in Observed \cup {NaN}
                                   /\ q[i].score = NaN => ZeroBudget
  BY <1>4 DEF DimensionScores, Observed
<1> HIDE DEF cfg
<1>6. PICK total : total = globalScore(q, cfg)
  OBVIOUS
<1>7. /\ total \in Int
      /\ \/ /\ \E i \in DOMAIN DIMENSIONS : q[i].score = NaN
            /\ ZeroBudget /\ total = NaN
         \/ /\ \A i \in DOMAIN DIMENSIONS : q[i].score # NaN
            /\ Between(total, {q[i].score : i \in DOMAIN DIMENSIONS})
  <2>1. CASE \E i \in DOMAIN DIMENSIONS : q[i].score = NaN
    <3>1. PICK i \in DOMAIN DIMENSIONS : q[i].score = NaN
      BY <2>1
    <3>2. total = NaN
      BY <1>2, <1>6, <3>1, TotalSpoilt
    <3> QED BY <1>5, <3>1, <3>2 DEF NaN
  <2>2. CASE \A i \in DOMAIN DIMENSIONS : q[i].score # NaN
    <3>1. \A i \in DOMAIN DIMENSIONS : q[i].score \in Observed
      BY <1>5, <2>2
    <3>2. total \in Int /\ Between(total, {q[i].score : i \in DOMAIN DIMENSIONS})
      BY <1>2, <1>6, <3>1, TotalBetween
    <3> QED BY <2>2, <3>2
  <2> QED BY <2>1, <2>2
<1>8. DOMAIN q = DOMAIN DIMENSIONS
  BY <1>3, ScaleIs
<1>9. wf = [id |-> ev.id, total |-> total, dims |-> q]
  BY <1>3, <1>6
<1>10. wf \in Workflows
  <2> HIDE DEF wf
  <2>1. wf \in [id : Ids, total : Int, dims : Partial] /\ wf.dims = q /\ wf.total = total
    BY <1>1, <1>3, <1>7, <1>9
  <2>2. Total(wf)
    BY <1>7, <1>8, <2>1 DEF Total, Spoilt
  <2> QED BY <2>1, <2>2 DEF Workflows
<1>11. ev' = [ev EXCEPT !.active = wf] /\ evcalls' = [evcalls EXCEPT ![c] = Answered(c, wf)] /\ registry' = registry
  BY DEF cacheScore, cfg
<1> HIDE DEF wf
<1>12. Answered(c, wf) \in Calls
  BY <1>10, AnsweredSound
<1> QED BY <1>10, <1>11, <1>12 DEF EvalTyped

LEMMA EvalStep ==
  ASSUME EvalTyped, [EvalNext]_evalvars PROVE EvalTyped'
<1>1. CASE UNCHANGED evalvars
  BY <1>1 DEF EvalTyped, evalvars
<1>2. ASSUME NEW f \in CoeffFiles, createEvalState(f) PROVE EvalTyped'
  <2>1. PICK r : r = loadCoefficients(f)
    OBVIOUS
  <2>2. r.config \in SoundFiles /\ r.warning \in BOOLEAN
    BY <1>2, <2>1, LoadedSound DEF createEvalState
  <2>3. /\ ev' = [Unloaded EXCEPT !.loaded = TRUE, !.coefficients = r.config, !.warning = r.warning]
        /\ evcalls' = [k \in EvalCalls |-> IdleCall] /\ registry' = registry
    BY <1>2, <2>1 DEF createEvalState
  <2> QED BY <2>2, <2>3, StartsSound DEF EvalTyped, Unloaded
<1>3. ASSUME NEW f \in CoeffFiles, NEW on \in BOOLEAN, evalSessionStart(f, on) PROVE EvalTyped'
  <2>1. PICK r : r = reloadCoefficients(f)
    OBVIOUS
  <2>2. r.config \in SoundFiles /\ r.warning \in BOOLEAN
    BY <2>1, LoadedSound
  <2>3. /\ ev' = [ev EXCEPT !.started = TRUE, !.mode = IF on THEN "on" ELSE "off",
                            !.coefficients = r.config, !.warning = r.warning]
        /\ evcalls' = evcalls /\ registry' = registry
    BY <1>3, <2>1 DEF evalSessionStart
  <2> QED BY <2>2, <2>3 DEF EvalTyped
<1>4. CASE registerBuiltinMetrics
  BY <1>4 DEF registerBuiltinMetrics, EvalTyped
<1>5. ASSUME NEW w \in WorkflowIds, toolCallListener(w) PROVE EvalTyped'
  <2>1. w \in Ids
    BY DEF Ids
  <2>2. ev' = [ev EXCEPT !.path = TRUE, !.id = w] /\ registry' = registry
    BY <1>5 DEF toolCallListener
  <2>3. \A k \in EvalCalls : [evcalls[k] EXCEPT !.named = evcalls[k].named \cup {w}] \in Calls /\ evcalls[k] \in Calls
    BY <2>1 DEF EvalTyped, Calls
  <2>4. evcalls' \in [EvalCalls -> Calls]
    BY <1>5, <2>3 DEF toolCallListener
  <2> QED BY <2>1, <2>2, <2>4 DEF EvalTyped
<1>6. ASSUME NEW c \in EvalCalls, evalScoreAtOnce(c) PROVE EvalTyped'
  <2>1. PICK wf : wf = IF ev.mode = "off" THEN NoScore ELSE ev.active
    OBVIOUS
  <2>2. wf \in Workflows /\ {ev.id} \in SUBSET Ids
    BY <2>1, StartsSound DEF EvalTyped
  <2>3. [Answered(c, wf) EXCEPT !.named = {ev.id}] \in Calls
    BY <2>2, AnsweredSound
  <2>4. evcalls' = [evcalls EXCEPT ![c] = [Answered(c, wf) EXCEPT !.named = {ev.id}]] /\ UNCHANGED <<ev, registry>>
    BY <1>6, <2>1 DEF evalScoreAtOnce
  <2> QED BY <2>3, <2>4, CallStep
<1>7. ASSUME NEW c \in EvalCalls, evalScoreCooks(c) PROVE EvalTyped'
  <2>1. evcalls' = [evcalls EXCEPT ![c].at = "scoring", ![c].named = {ev.id}] /\ UNCHANGED <<ev, registry>>
    BY <1>7 DEF evalScoreCooks
  <2>2. evcalls' = [evcalls EXCEPT ![c] = [evcalls[c] EXCEPT !.at = "scoring", !.named = {ev.id}]]
    BY <2>1 DEF EvalTyped
  <2>3. evcalls[c] \in Calls /\ ev.id \in Ids
    BY DEF EvalTyped
  <2>4. [evcalls[c] EXCEPT !.at = "scoring", !.named = {ev.id}] \in Calls
    BY <2>3 DEF Calls
  <2> QED BY <2>1, <2>2, <2>4, CallStep
<1>8. ASSUME NEW c \in EvalCalls, cacheScore(c) PROVE EvalTyped'
  BY <1>8, ScoreCached
<1>9. ASSUME NEW c \in EvalCalls, scoringFails(c) PROVE EvalTyped'
  <2>1. Answered(c, NoScore) \in Calls
    BY StartsSound, AnsweredSound
  <2> QED BY <1>9, <2>1, CallStep DEF scoringFails
<1>10. ASSUME NEW c \in EvalCalls, answerRead(c) PROVE EvalTyped'
  BY <1>10, StartsSound, CallStep DEF answerRead
<1>11. ASSUME NEW c \in EvalCalls, NEW a \in Artifacts, scoreWorkflow(c, a) PROVE EvalTyped'
  BY <1>11, NextDimension
<1> QED BY <1>1, <1>2, <1>3, <1>4, <1>5, <1>6, <1>7, <1>8, <1>9, <1>10, <1>11 DEF EvalNext

LEMMA EvalStarts == ASSUME EvalInit PROVE EvalTyped
  BY StartsSound DEF EvalInit, EvalTyped, Unloaded

LEMMA TypedMeans == ASSUME EvalTyped PROVE MeanOfObserved
<1>1. ASSUME NEW c \in EvalCalls, NEW wf, wf = evcalls[c].answer
      PROVE  /\ wf # NoScore => Total(wf)
             /\ \A i \in DOMAIN wf.dims : Scored(wf.dims[i])
  <2>1. wf \in Workflows
    BY <1>1 DEF EvalTyped, Calls
  <2>2. wf.dims \in Seq(DimensionScores)
    BY <2>1 DEF Workflows, Partial
  <2>3. \A i \in DOMAIN wf.dims : wf.dims[i] \in DimensionScores
    BY <2>2
  <2> QED BY <2>1, <2>3 DEF Workflows, DimensionScores
<1>2. Spoilt(NoScore) = {}
  BY DEF Spoilt, NoScore
<1> QED BY <1>1, <1>2 DEF MeanOfObserved, Total, Spoilt, Scored, Seen, Weighty

\* Whatever configuration is loaded, its budget a number that is not negative, and whatever
\* the artifacts show, every score answered lies between the least and the greatest signal
\* that had data, and a total between the least and the greatest dimension: scoreDimension
\* and globalScore are means.  Only under a configuration with a budget of zero is a score
\* not a number, and then the total is none either.
THEOREM ScoresAreMeans == EvalSpec => []MeanOfObserved
<1>1. EvalInit => EvalTyped
  BY EvalStarts
<1>2. EvalTyped /\ [EvalNext]_evalvars => EvalTyped'
  BY EvalStep
<1>3. EvalTyped => MeanOfObserved
  BY TypedMeans
<1> QED BY <1>1, <1>2, <1>3, PTL DEF EvalSpec
=============================================================================
