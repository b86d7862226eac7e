--------------------------- MODULE TaskBoardProofs --------------------------
(***************************************************************************)
(* Proofs about tasks executed by subagents, for any number of sessions,   *)
(* tasks, agents and requests and for any dependencies: what the end of an *)
(* agent may change, who ends a task that is in progress, and what the     *)
(* cascade of completions owes.                                            *)
(*                                                                         *)
(* No assumption is made on the instance: the history variables crossed    *)
(* and mixed say in the properties themselves which switches and calls     *)
(* they do not survive.                                                    *)
(***************************************************************************)
EXTENDS TaskBoard, FiniteSetTheorems, TLAPS

-----------------------------------------------------------------------------
(* The inductive invariant.  Its parts are predicates on the lists, the    *)
(* map, the agents and the handlers, because a handler changes them before *)
(* it goes on with the tasks still to come (Continue).                     *)

TaskType == [status : Statuses, agentId : Agents \cup {None}]
AgentType == [phase : Phases, outcome : Outcomes, session : Sessions \cup {None}, task : Tasks \cup {None}]

Typed(cur, tk, map, ags, waits) ==
    /\ cur \in Sessions
    /\ tk \in [Sessions -> [Tasks -> TaskType]]
    /\ map \in [Agents -> Tasks \cup {None}]
    /\ ags \in [Agents -> AgentType]
    /\ waits \in [Agents -> Handlers \cup {None}]

\* An agent id is one of an agent spawned for the task.
Belongs(x, s, t, ags) == x # None => ags[x].session = s /\ ags[x].task = t

\* A handler's copy of a task is one of the session in use.
Copied(i, cur, ags) == i.from = cur /\ Belongs(i.was, cur, i.task, ags)

\* The map, the tasks' agent ids and the handlers agree with what the agents were
\* spawned for.
Tied(cur, tk, map, ags, waits) ==
    /\ \A s \in Sessions, t \in Tasks : Belongs(tk[s][t].agentId, s, t, ags)
    /\ \A a \in Agents : map[a] # None => ags[a].session = cur /\ ags[a].task = map[a]
    /\ \A a \in Agents : ags[a].phase = "none" => ags[a].session = None
    /\ \A a \in Agents : ags[a].phase \in {"asked", "unheard"} <=> waits[a] # None
    /\ \A a \in Agents : waits[a] # None =>
          /\ ags[a].session = cur /\ ags[a].task = waits[a].item.task
          /\ Copied(waits[a].item, cur, ags)
          /\ \A i \in waits[a].rest : Copied(i, cur, ags)

\* Someone will end the task, or the agent that should have reported unheard or
\* was stopped in the queue.
Held(s, t, cur, tk, map, ags, waits) ==
    \E a \in Agents :
        /\ ags[a].session = s /\ ags[a].task = t
        /\ \/ waits[a] # None
           \/ ags[a].phase \in Live /\ tk[s][t].agentId = a /\ (s = cur => map[a] = t)
           \/ ags[a].phase \in {"missed", "dropped"}

AllHeld(cur, tk, map, ags, waits, hand) ==
    \A s \in Sessions, t \in Tasks :
        tk[s][t].status = "in_progress" /\ <<s, t>> \notin hand => Held(s, t, cur, tk, map, ags, waits)

Right(cur, tk, map, ags, waits, hand) ==
    Typed(cur, tk, map, ags, waits) /\ Tied(cur, tk, map, ags, waits) /\ AllHeld(cur, tk, map, ags, waits, hand)

BoardInv == Right(current, tasks, agentTaskMap, agents, waiting, touched)

-----------------------------------------------------------------------------
\* A handler that goes on is through ...
Through(by, list, todo, ags, waits) ==
    /\ Startable(by, list, todo) = {}
    /\ tasks' = [tasks EXCEPT ![current] = list] /\ agents' = ags /\ waiting' = waits
    /\ cascading' = (cascading \/ by = "execute")

\* ... or marks the first task it may start and asks an agent for it, and the
\* others remain.
Asks(by, list, todo, ags, waits, i, a, phase, rest, item) ==
    /\ item = Renewed(by, list, i)
    /\ ags[a].phase = "none"
    /\ Startable(by, list, todo) \ {i} \subseteq rest
    /\ tasks' = [tasks EXCEPT ![current] = WithStatus(list, i.task, "in_progress")]
    /\ agents' = [ags EXCEPT ![a] = [phase |-> phase, outcome |-> "none",
                                     session |-> item.from, task |-> item.task]]
    /\ waiting' = [waits EXCEPT ![a] = [by |-> by, item |-> item, rest |-> rest]]
    /\ cascading' = cascading

\* What a handler does when it goes on.
LEMMA ContinueFacts ==
    ASSUME NEW by, NEW list, NEW todo, NEW ags, NEW waits,
           Continue(by, list, todo, ags, waits)
    PROVE  \/ Through(by, list, todo, ags, waits)
           \/ \E i \in Startable(by, list, todo), a \in Agents, phase \in {"asked", "unheard"} :
              \E rest \in SUBSET (todo \ {i}) : \E item : Asks(by, list, todo, ags, waits, i, a, phase, rest, item)
  BY DEF Continue, First, Remaining, Through, Asks

\* The agent id of a task, before and after its status is written.
LEMMA StatusWritten ==
    ASSUME NEW list \in [Tasks -> TaskType], NEW t \in Tasks, NEW status \in Statuses
    PROVE  /\ WithStatus(list, t, status) \in [Tasks -> TaskType]
           /\ \A u \in Tasks : WithStatus(list, t, status)[u].agentId = list[u].agentId
           /\ \A u \in Tasks \ {t} : WithStatus(list, t, status)[u] = list[u]
           /\ WithStatus(list, t, status)[t].status = IF list[t].status = "none" THEN "none" ELSE status
  BY DEF WithStatus, TaskType

LEMMA AgentLinked ==
    ASSUME NEW list \in [Tasks -> TaskType], NEW t \in Tasks, NEW a \in Agents
    PROVE  /\ Linked(list, t, a) \in [Tasks -> TaskType]
           /\ \A u \in Tasks : Linked(list, t, a)[u].status = list[u].status
           /\ \A u \in Tasks \ {t} : Linked(list, t, a)[u] = list[u]
           /\ Linked(list, t, a)[t].agentId = IF list[t].status = "none" THEN list[t].agentId ELSE a
  BY DEF Linked, TaskType

\* Going on keeps everything right: the task that is marked is held by the agent
\* asked for it, whose id nothing refers to yet.
LEMMA ContinueRight ==
    ASSUME NEW by \in {"execute", "cascade"}, NEW list \in [Tasks -> TaskType], NEW todo \in SUBSET Items,
           NEW map, NEW ags, NEW waits, NEW hand,
           current \in Sessions, tasks \in [Sessions -> [Tasks -> TaskType]],
           Right(current, [tasks EXCEPT ![current] = list], map, ags, waits, hand),
           \A i \in todo : Copied(i, current, ags),
           Continue(by, list, todo, ags, waits)
    PROVE  Right(current, tasks', map, agents', waiting', hand)
<1> DEFINE mid == [tasks EXCEPT ![current] = list]
<1>1. /\ mid \in [Sessions -> [Tasks -> TaskType]] /\ mid[current] = list
      /\ \A s \in Sessions \ {current} : mid[s] = tasks[s]
  OBVIOUS
<1>2. Typed(current, mid, map, ags, waits) /\ Tied(current, mid, map, ags, waits) /\ AllHeld(current, mid, map, ags, waits, hand)
  BY DEF Right
<1>4. ASSUME NEW i \in Startable(by, list, todo), NEW a \in Agents, NEW phase \in {"asked", "unheard"},
             NEW rest \in SUBSET todo, NEW item,
             item = Renewed(by, list, i), ags[a].phase = "none",
             tasks' = [tasks EXCEPT ![current] = WithStatus(list, i.task, "in_progress")],
             agents' = [ags EXCEPT ![a] = [phase |-> phase, outcome |-> "none",
                                           session |-> item.from, task |-> item.task]],
             waiting' = [waits EXCEPT ![a] = [by |-> by, item |-> item, rest |-> rest]]
      PROVE  Right(current, tasks', map, agents', waiting', hand)
  <2>1. i \in todo /\ i \in Items /\ i.task \in Tasks
    BY <1>4 DEF Startable, Items
  <2>2. item \in Items /\ item.task = i.task /\ Copied(item, current, ags)
    <3>1. CASE by = "cascade"
      BY <1>4, <2>1, <3>1 DEF Renewed
    <3>2. CASE by # "cascade"
      <4>1. list[i.task].agentId \in Agents \cup {None} /\ Belongs(list[i.task].agentId, current, i.task, ags)
        BY <1>1, <1>2, <2>1 DEF Tied, TaskType
      <4>2. item = [task |-> i.task, from |-> current, was |-> list[i.task].agentId]
        BY <1>4, <3>2 DEF Renewed, Item
      <4> QED BY <2>1, <4>1, <4>2 DEF Items, Copied
    <3> QED BY <3>1, <3>2
  <2>3. PICK h \in Handlers : h = [by |-> by, item |-> item, rest |-> rest]
    <3>1. [by |-> by, item |-> item, rest |-> rest] \in Handlers
      BY <2>2 DEF Handlers
    <3> QED BY <3>1
  <2>4. h # None /\ h.item = item /\ h.rest = rest
    BY <2>3, NoneIsNoHandler
  <2>5. PICK r \in AgentType : r = [phase |-> phase, outcome |-> "none", session |-> current, task |-> i.task]
    <3>1. [phase |-> phase, outcome |-> "none", session |-> current, task |-> i.task] \in AgentType
      BY <1>4, <2>1 DEF AgentType, Phases, Outcomes
    <3> QED BY <3>1
  <2>6. r.phase \in {"asked", "unheard"} /\ r.session = current /\ r.task = i.task
    BY <2>5
  <2>7. agents' = [ags EXCEPT ![a] = r] /\ waiting' = [waits EXCEPT ![a] = h]
    BY <1>4, <2>2, <2>3, <2>5 DEF Copied
  <2>8. agents' \in [Agents -> AgentType] /\ waiting' \in [Agents -> Handlers \cup {None}]
        /\ agents'[a] = r /\ waiting'[a] = h
        /\ \A x \in Agents \ {a} : agents'[x] = ags[x] /\ waiting'[x] = waits[x]
    BY <1>2, <2>7 DEF Typed
  <2> DEFINE marked == WithStatus(list, i.task, "in_progress")
  <2>9. /\ marked \in [Tasks -> TaskType]
        /\ \A u \in Tasks : marked[u].agentId = list[u].agentId
        /\ \A u \in Tasks \ {i.task} : marked[u] = list[u]
    BY <2>1, StatusWritten DEF Statuses
  <2>10. tasks' = [tasks EXCEPT ![current] = marked]
    BY <1>4
  <2> HIDE DEF marked
  <2>11. /\ tasks' \in [Sessions -> [Tasks -> TaskType]] /\ tasks'[current] = marked
         /\ \A s \in Sessions \ {current} : tasks'[s] = mid[s]
    BY <1>1, <2>9, <2>10
  <2>12. \A s \in Sessions, t \in Tasks :
           /\ tasks'[s][t].agentId = mid[s][t].agentId /\ mid[s][t].agentId \in Agents \cup {None}
           /\ <<s, t>> # <<current, i.task>> => tasks'[s][t] = mid[s][t]
    <3> HIDE DEF mid
    <3> QED BY <1>1, <2>9, <2>11 DEF TaskType
  <2> HIDE DEF mid
  <2>13. ASSUME NEW x \in Agents \cup {None}, NEW s \in Sessions, NEW t, Belongs(x, s, t, ags)
         PROVE  Belongs(x, s, t, agents')
    <3>1. ags[a].session = None
      BY <1>2, <1>4 DEF Tied
    <3> QED BY <2>8, <2>13, <3>1, TaskBoardAssumption DEF Belongs
  <2>14. Typed(current, tasks', map, agents', waiting')
    BY <1>2, <2>8, <2>11 DEF Typed
  <2>15. Tied(current, tasks', map, agents', waiting')
    <3>1. \A s \in Sessions, t \in Tasks : Belongs(tasks'[s][t].agentId, s, t, agents')
      BY <1>2, <2>12, <2>13 DEF Tied
    <3>2. \A x \in Agents : map[x] # None => agents'[x].session = current /\ agents'[x].task = map[x]
      BY <1>2, <1>4, <2>8, TaskBoardAssumption DEF Tied
    <3>3. \A x \in Agents : agents'[x].phase = "none" => agents'[x].session = None
      BY <1>2, <2>6, <2>8 DEF Tied
    <3>4. \A x \in Agents : agents'[x].phase \in {"asked", "unheard"} <=> waiting'[x] # None
      BY <1>2, <2>4, <2>6, <2>8 DEF Tied
    <3>5. \A j \in Items : Copied(j, current, ags) => Copied(j, current, agents')
      <4>1. \A j \in Items : j.was \in Agents \cup {None}
        BY DEF Items
      <4> QED BY <2>13, <4>1 DEF Copied
    <3>6. ASSUME NEW x \in Agents, waiting'[x] # None
          PROVE  /\ agents'[x].session = current /\ agents'[x].task = waiting'[x].item.task
                 /\ Copied(waiting'[x].item, current, agents')
                 /\ \A j \in waiting'[x].rest : Copied(j, current, agents')
      <4>1. CASE x = a
        <5>1. \A j \in rest : j \in Items /\ Copied(j, current, ags)
          OBVIOUS
        <5> QED BY <2>2, <2>4, <2>6, <2>8, <3>5, <4>1, <5>1
      <4>2. CASE x # a
        <5>1. waits[x] \in Handlers /\ waits[x] = waiting'[x] /\ agents'[x] = ags[x]
          BY <1>2, <2>8, <3>6, <4>2 DEF Typed
        <5>2. waits[x].item \in Items /\ waits[x].rest \in SUBSET Items
          BY <5>1 DEF Handlers
        <5>3. /\ ags[x].session = current /\ ags[x].task = waits[x].item.task
              /\ Copied(waits[x].item, current, ags)
              /\ \A j \in waits[x].rest : Copied(j, current, ags)
          BY <1>2, <3>6, <5>1 DEF Tied
        <5> QED BY <3>5, <5>1, <5>2, <5>3
      <4> QED BY <4>1, <4>2
    <3> QED BY <3>1, <3>2, <3>3, <3>4, <3>6 DEF Tied
  <2>16. AllHeld(current, tasks', map, agents', waiting', hand)
    <3> SUFFICES ASSUME NEW s \in Sessions, NEW t \in Tasks,
                        tasks'[s][t].status = "in_progress", <<s, t>> \notin hand
                 PROVE  Held(s, t, current, tasks', map, agents', waiting')
      BY DEF AllHeld
    <3>1. CASE s = current /\ t = i.task
      BY <2>4, <2>6, <2>8, <3>1 DEF Held
    <3>2. CASE ~(s = current /\ t = i.task)
      <4>1. tasks'[s][t] = mid[s][t]
        BY <2>12, <3>2
      <4>2. Held(s, t, current, mid, map, ags, waits)
        BY <1>2, <4>1 DEF AllHeld
      <4>3. PICK x \in Agents :
              /\ ags[x].session = s /\ ags[x].task = t
              /\ \/ waits[x] # None
                 \/ ags[x].phase \in Live /\ mid[s][t].agentId = x /\ (s = current => map[x] = t)
                 \/ ags[x].phase \in {"missed", "dropped"}
        BY <4>2 DEF Held
      <4>4. x # a
        BY <1>2, <1>4, <4>3, TaskBoardAssumption DEF Tied
      <4> QED BY <2>8, <4>1, <4>3, <4>4 DEF Held
    <3> QED BY <3>1, <3>2
  <2> QED BY <2>14, <2>15, <2>16 DEF Right
<1>5. CASE Through(by, list, todo, ags, waits)
  BY <1>2, <1>5 DEF Right, Through
<1>6. ASSUME ~Through(by, list, todo, ags, waits)
      PROVE  Right(current, tasks', map, agents', waiting', hand)
  <2>1. PICK i \in Startable(by, list, todo), a \in Agents, phase \in {"asked", "unheard"} :
             \E rest \in SUBSET (todo \ {i}) : \E item : Asks(by, list, todo, ags, waits, i, a, phase, rest, item)
    BY <1>6, ContinueFacts
  <2>2. PICK rest \in SUBSET (todo \ {i}) : \E item : Asks(by, list, todo, ags, waits, i, a, phase, rest, item)
    BY <2>1
  <2>3. PICK item : Asks(by, list, todo, ags, waits, i, a, phase, rest, item)
    BY <2>2
  <2> QED BY <1>4, <2>3 DEF Asks
<1> QED BY <1>5, <1>6

\* Agents go on, end, report or are stopped, tasks lose their status or agent id, and
\* no task in progress loses its agent that way.
Moved(cur, tk, map, ags, hand, tk2, map2, ags2, hand2) ==
    /\ tk2 \in [Sessions -> [Tasks -> TaskType]] /\ map2 \in [Agents -> Tasks \cup {None}]
    /\ ags2 \in [Agents -> AgentType]
    /\ \A s \in Sessions, t \in Tasks : tk2[s][t].agentId \in {tk[s][t].agentId, None}
    /\ \A a \in Agents :
          /\ map2[a] \in {map[a], None}
          /\ ags2[a].session = ags[a].session /\ ags2[a].task = ags[a].task
          /\ \/ ags2[a].phase = ags[a].phase
             \/ ags[a].phase \in Live /\ ags2[a].phase \in Live \cup {"dropped", "missed", "reported"}
    /\ \A s \in Sessions, t \in Tasks : tk2[s][t].status = "in_progress" /\ <<s, t>> \notin hand2 =>
          /\ tk[s][t].status = "in_progress" /\ <<s, t>> \notin hand
          /\ tk2[s][t].agentId = tk[s][t].agentId
          /\ \A a \in Agents :
                /\ ags[a].session = s /\ ags[a].task = t /\ ags[a].phase \in Live
                /\ s = cur => map[a] = t
                => \/ ags2[a].phase \in {"missed", "dropped"}
                   \/ ags2[a].phase \in Live /\ map2[a] = map[a]

\* That keeps everything right.
LEMMA MovesRight ==
    ASSUME NEW cur, NEW tk, NEW map, NEW ags, NEW waits, NEW hand,
           Right(cur, tk, map, ags, waits, hand),
           NEW tk2, NEW map2, NEW ags2, NEW hand2,
           Moved(cur, tk, map, ags, hand, tk2, map2, ags2, hand2)
    PROVE  Right(cur, tk2, map2, ags2, waits, hand2)
<1>0. /\ tk2 \in [Sessions -> [Tasks -> TaskType]] /\ map2 \in [Agents -> Tasks \cup {None}]
      /\ ags2 \in [Agents -> AgentType]
  BY DEF Moved
<1>1. Typed(cur, tk, map, ags, waits) /\ Tied(cur, tk, map, ags, waits) /\ AllHeld(cur, tk, map, ags, waits, hand)
  BY DEF Right
<1>2. Typed(cur, tk2, map2, ags2, waits)
  BY <1>0, <1>1 DEF Typed
<1>3. \A x, s, t : x \in Agents \cup {None} => (Belongs(x, s, t, ags) <=> Belongs(x, s, t, ags2))
  BY DEF Belongs, Moved
<1>4. \A s \in Sessions, t \in Tasks : tk[s][t].agentId \in Agents \cup {None}
  BY <1>1 DEF Typed, TaskType
<1>5. \A j \in Items : Copied(j, cur, ags) => Copied(j, cur, ags2)
  BY <1>3 DEF Copied, Items
<1>6. Tied(cur, tk2, map2, ags2, waits)
  <2>1. \A s \in Sessions, t \in Tasks : Belongs(tk2[s][t].agentId, s, t, ags2)
    <3> TAKE s \in Sessions, t \in Tasks
    <3>1. Belongs(tk[s][t].agentId, s, t, ags)
      BY <1>1 DEF Tied
    <3> QED BY <1>3, <1>4, <3>1 DEF Belongs, Moved
  <2>2. \A a \in Agents : map2[a] # None => ags2[a].session = cur /\ ags2[a].task = map2[a]
    BY <1>1 DEF Tied, Moved
  <2>3. \A a \in Agents : ags2[a].phase = "none" => ags2[a].session = None
    BY <1>1 DEF Tied, Live, Moved
  <2>4. \A a \in Agents : ags2[a].phase \in {"asked", "unheard"} <=> waits[a] # None
    BY <1>1 DEF Tied, Live, Moved
  <2>5. ASSUME NEW a \in Agents, waits[a] # None
        PROVE  /\ ags2[a].session = cur /\ ags2[a].task = waits[a].item.task
               /\ Copied(waits[a].item, cur, ags2)
               /\ \A i \in waits[a].rest : Copied(i, cur, ags2)
    <3>1. waits[a].item \in Items /\ waits[a].rest \in SUBSET Items
      BY <1>1, <2>5 DEF Typed, Handlers
    <3>2. /\ ags[a].session = cur /\ ags[a].task = waits[a].item.task
          /\ Copied(waits[a].item, cur, ags) /\ \A i \in waits[a].rest : Copied(i, cur, ags)
      BY <1>1, <2>5 DEF Tied
    <3> QED BY <1>5, <3>1, <3>2 DEF Moved
  <2> QED BY <2>1, <2>2, <2>3, <2>4, <2>5 DEF Tied
<1>7. AllHeld(cur, tk2, map2, ags2, waits, hand2)
  <2> SUFFICES ASSUME NEW s \in Sessions, NEW t \in Tasks, tk2[s][t].status = "in_progress", <<s, t>> \notin hand2
               PROVE  Held(s, t, cur, tk2, map2, ags2, waits)
    BY DEF AllHeld
  <2>1. Held(s, t, cur, tk, map, ags, waits) /\ tk2[s][t].agentId = tk[s][t].agentId
    BY <1>1 DEF AllHeld, Moved
  <2>2. PICK a \in Agents :
          /\ ags[a].session = s /\ ags[a].task = t
          /\ \/ waits[a] # None
             \/ ags[a].phase \in Live /\ tk[s][t].agentId = a /\ (s = cur => map[a] = t)
             \/ ags[a].phase \in {"missed", "dropped"}
    BY <2>1 DEF Held
  <2>3. CASE waits[a] # None
    BY <2>2, <2>3 DEF Held, Moved
  <2>4. CASE ags[a].phase \in {"missed", "dropped"}
    BY <2>2, <2>4 DEF Held, Live, Moved
  <2>5. CASE ags[a].phase \in Live /\ tk[s][t].agentId = a /\ (s = cur => map[a] = t)
    <3>1. ags2[a].phase \in {"missed", "dropped"} \/ (ags2[a].phase \in Live /\ map2[a] = map[a])
      BY <2>2, <2>5 DEF Moved
    <3> QED BY <2>1, <2>2, <2>5, <3>1 DEF Held, Moved
  <2> QED BY <2>2, <2>3, <2>4, <2>5
<1> QED BY <1>2, <1>6, <1>7 DEF Right

\* The items made of tasks of the session in use are copies of its tasks.
LEMMA ItemsCopied ==
    ASSUME NEW cur \in Sessions, current = cur, NEW list \in [Tasks -> TaskType], NEW ags, NEW S \in SUBSET Tasks,
           \A t \in Tasks : Belongs(list[t].agentId, cur, t, ags)
    PROVE  /\ {Item(list, t) : t \in S} \in SUBSET Items
           /\ \A i \in {Item(list, t) : t \in S} : Copied(i, cur, ags)
<1> SUFFICES ASSUME NEW t \in S PROVE Item(list, t) \in Items /\ Copied(Item(list, t), cur, ags)
  OBVIOUS
<1>1. list[t].agentId \in Agents \cup {None}
  BY DEF TaskType
<1> QED BY <1>1 DEF Item, Items, Copied

\* Initially nothing is in progress.
LEMMA BoardInitInv == BoardInit => BoardInv
<1> SUFFICES ASSUME BoardInit PROVE BoardInv
  OBVIOUS
<1>1. [status |-> "pending", agentId |-> None] \in TaskType
  BY DEF TaskType, Statuses
<1>2. [phase |-> "none", outcome |-> "none", session |-> None, task |-> None] \in AgentType
  BY DEF AgentType, Phases, Outcomes
<1>3. Typed(current, tasks, agentTaskMap, agents, waiting)
  BY <1>1, <1>2 DEF BoardInit, Typed
<1>4. Tied(current, tasks, agentTaskMap, agents, waiting)
  BY DEF BoardInit, Tied, Belongs
<1>5. AllHeld(current, tasks, agentTaskMap, agents, waiting, touched)
  BY DEF BoardInit, AllHeld
<1> QED BY <1>3, <1>4, <1>5 DEF BoardInv, Right

\* TaskExecute starts with the list as it finds it.
LEMMA ExecuteRight ==
    ASSUME BoardInv, NEW B \in Batches, TaskExecute(B)
    PROVE  BoardInv'
<1>1. /\ Typed(current, tasks, agentTaskMap, agents, waiting)
      /\ Right(current, tasks, agentTaskMap, agents, waiting, touched)
      /\ \A t \in Tasks : Belongs(Here[t].agentId, current, t, agents)
  BY DEF BoardInv, Right, Typed, Tied, Here
<1>2. PICK list \in [Tasks -> TaskType] : list = Here
  BY <1>1 DEF Typed, Here
<1>3. [tasks EXCEPT ![current] = list] = tasks
  BY <1>1, <1>2 DEF Typed, Here
<1>4. B \in SUBSET Tasks
  BY TaskBoardAssumption
<1>5. PICK todo \in SUBSET Items : todo = {Item(list, t) : t \in B} /\ \A i \in todo : Copied(i, current, agents)
  <2>1. /\ {Item(list, t) : t \in B} \in SUBSET Items
        /\ \A i \in {Item(list, t) : t \in B} : Copied(i, current, agents)
    BY <1>1, <1>2, <1>4, ItemsCopied DEF Typed
  <2> QED BY <2>1
<1>6. Continue("execute", list, todo, agents, waiting) /\ UNCHANGED <<current, agentTaskMap, touched>>
  BY <1>2, <1>5 DEF TaskExecute
<1>7. Right(current, tasks', agentTaskMap, agents', waiting', touched)
  BY <1>1, <1>3, <1>5, <1>6, ContinueRight DEF Typed
<1> QED BY <1>6, <1>7 DEF BoardInv

\* A reply, whatever it says, before the handler goes on: the task asked for has the
\* agent, or it is no longer in progress.
LEMMA ReplyRight ==
    ASSUME BoardInv, NEW a \in Agents, agents[a].phase \in {"asked", "unheard"},
           NEW t \in Tasks, t = waiting[a].item.task,
           NEW list \in [Tasks -> TaskType], \A u \in Tasks \ {t} : list[u] = Here[u],
           Belongs(list[t].agentId, current, t, agents),
           NEW phase \in {"queued", "running", "failed"},
           NEW map \in [Agents -> Tasks \cup {None}], map[a] \in {agentTaskMap[a], t},
           \A x \in Agents \ {a} : map[x] = agentTaskMap[x],
           list[t].status = "in_progress" => phase \in Live /\ list[t].agentId = a /\ map[a] = t
    PROVE  Right(current, [tasks EXCEPT ![current] = list], map, Phase(a, phase), Answered(a), touched)
<1> DEFINE mid == [tasks EXCEPT ![current] = list]
           ags == Phase(a, phase)
           waits == Answered(a)
<1>1. /\ Typed(current, tasks, agentTaskMap, agents, waiting) /\ Tied(current, tasks, agentTaskMap, agents, waiting)
      /\ AllHeld(current, tasks, agentTaskMap, agents, waiting, touched)
  BY DEF BoardInv, Right
<1>2. waiting[a] # None /\ agents[a].session = current /\ agents[a].task = t
  BY <1>1 DEF Tied
<1>3. /\ mid \in [Sessions -> [Tasks -> TaskType]] /\ mid[current] = list
      /\ \A s \in Sessions \ {current} : mid[s] = tasks[s]
  BY <1>1 DEF Typed
<1>4. /\ ags \in [Agents -> AgentType] /\ ags[a].phase = phase
      /\ \A x \in Agents : ags[x].session = agents[x].session /\ ags[x].task = agents[x].task
      /\ \A x \in Agents \ {a} : ags[x] = agents[x]
  BY <1>1 DEF Typed, AgentType, Phase, Phases
<1>5. /\ waits \in [Agents -> Handlers \cup {None}] /\ waits[a] = None
      /\ \A x \in Agents \ {a} : waits[x] = waiting[x]
  BY <1>1 DEF Typed, Answered
<1> HIDE DEF mid, ags, waits
<1>6. \A s \in Sessions, u \in Tasks : <<s, u>> # <<current, t>> => mid[s][u] = tasks[s][u]
  BY <1>3 DEF Here
<1>7. \A x, s, u : x \in Agents \cup {None} => (Belongs(x, s, u, agents) <=> Belongs(x, s, u, ags))
  BY <1>4 DEF Belongs
<1>8. Typed(current, mid, map, ags, waits)
  BY <1>1, <1>3, <1>4, <1>5 DEF Typed
<1>9. Tied(current, mid, map, ags, waits)
  <2>1. ASSUME NEW s \in Sessions, NEW u \in Tasks PROVE Belongs(mid[s][u].agentId, s, u, ags)
    <3>1. mid[s][u].agentId \in Agents \cup {None}
      BY <1>3 DEF TaskType
    <3>2. Belongs(mid[s][u].agentId, s, u, agents)
      <4>1. CASE s = current /\ u = t
        BY <1>3, <4>1
      <4>2. CASE ~(s = current /\ u = t)
        BY <1>1, <1>6, <4>2 DEF Tied
      <4> QED BY <4>1, <4>2
    <3> QED BY <1>7, <3>1, <3>2
  <2>2. \A x \in Agents : map[x] # None => ags[x].session = current /\ ags[x].task = map[x]
    BY <1>1, <1>2, <1>4 DEF Tied
  <2>3. \A x \in Agents : ags[x].phase = "none" => ags[x].session = None
    BY <1>1, <1>4 DEF Tied
  <2>4. \A x \in Agents : ags[x].phase \in {"asked", "unheard"} <=> waits[x] # None
    BY <1>1, <1>4, <1>5 DEF Tied
  <2>5. ASSUME NEW x \in Agents, waits[x] # None
        PROVE  /\ ags[x].session = current /\ ags[x].task = waits[x].item.task
               /\ Copied(waits[x].item, current, ags)
               /\ \A i \in waits[x].rest : Copied(i, current, ags)
    <3>1. waits[x] = waiting[x]
      BY <1>5, <2>5
    <3>2. waits[x].item \in Items /\ waits[x].rest \in SUBSET Items
      BY <1>8, <2>5 DEF Typed, Handlers
    <3>3. /\ agents[x].session = current /\ agents[x].task = waits[x].item.task
          /\ Copied(waits[x].item, current, agents) /\ \A i \in waits[x].rest : Copied(i, current, agents)
      BY <1>1, <2>5, <3>1 DEF Tied
    <3>4. \A i \in Items : Copied(i, current, agents) => Copied(i, current, ags)
      BY <1>7 DEF Copied, Items
    <3> QED BY <1>4, <3>2, <3>3, <3>4
  <2> QED BY <2>1, <2>2, <2>3, <2>4, <2>5 DEF Tied
<1>10. AllHeld(current, mid, map, ags, waits, touched)
  <2> SUFFICES ASSUME NEW s \in Sessions, NEW u \in Tasks, mid[s][u].status = "in_progress", <<s, u>> \notin touched
               PROVE  Held(s, u, current, mid, map, ags, waits)
    BY DEF AllHeld
  <2>1. CASE s = current /\ u = t
    BY <1>2, <1>3, <1>4, <2>1 DEF Held
  <2>2. CASE ~(s = current /\ u = t)
    <3>1. mid[s][u] = tasks[s][u]
      BY <1>6, <2>2
    <3>2. Held(s, u, current, tasks, agentTaskMap, agents, waiting)
      BY <1>1, <3>1 DEF AllHeld
    <3>3. PICK x \in Agents :
            /\ agents[x].session = s /\ agents[x].task = u
            /\ \/ waiting[x] # None
               \/ agents[x].phase \in Live /\ tasks[s][u].agentId = x /\ (s = current => agentTaskMap[x] = u)
               \/ agents[x].phase \in {"missed", "dropped"}
      BY <3>2 DEF Held
    <3>4. x # a
      BY <1>2, <2>2, <3>3
    <3> QED BY <1>4, <1>5, <3>1, <3>3, <3>4 DEF Held
  <2> QED BY <2>1, <2>2
<1> QED BY <1>8, <1>9, <1>10 DEF Right, mid, ags, waits

\* The agent asked for has its id, and the handler goes on.
LEMMA SpawnReplyRight ==
    ASSUME BoardInv, NEW a \in Agents, NEW phase \in {"queued", "running"}, SpawnReply(a, phase)
    PROVE  BoardInv'
<1>1. /\ Typed(current, tasks, agentTaskMap, agents, waiting) /\ Tied(current, tasks, agentTaskMap, agents, waiting)
      /\ agents[a].phase = "asked"
  BY DEF BoardInv, Right, SpawnReply
<1>2. /\ waiting[a] \in Handlers /\ agents[a].session = current /\ agents[a].task = waiting[a].item.task
      /\ \A i \in waiting[a].rest : Copied(i, current, agents)
  BY <1>1 DEF Typed, Tied
<1>3. PICK t \in Tasks : t = waiting[a].item.task
  BY <1>2 DEF Handlers, Items
<1>4. waiting[a].rest \in SUBSET Items /\ waiting[a].by \in {"execute", "cascade"}
  BY <1>2 DEF Handlers
<1>5. Here \in [Tasks -> TaskType] /\ Belongs(Here[t].agentId, current, t, agents)
  BY <1>1 DEF Typed, Tied, Here
<1>6. PICK list \in [Tasks -> TaskType] :
        /\ list = Linked(Here, t, a)
        /\ \A u \in Tasks \ {t} : list[u] = Here[u]
        /\ list[t].status = Here[t].status
        /\ list[t].agentId = IF Here[t].status = "none" THEN Here[t].agentId ELSE a
  BY <1>5, AgentLinked
<1>7. PICK map \in [Agents -> Tasks \cup {None}] :
        map = [agentTaskMap EXCEPT ![a] = t] /\ map[a] = t /\ \A x \in Agents \ {a} : map[x] = agentTaskMap[x]
  <2>1. agentTaskMap \in [Agents -> Tasks \cup {None}]
    BY <1>1 DEF Typed
  <2>2. [agentTaskMap EXCEPT ![a] = t] \in [Agents -> Tasks \cup {None}]
    BY <2>1
  <2> QED BY <2>1, <2>2
<1>8. Belongs(list[t].agentId, current, t, agents)
  BY <1>2, <1>3, <1>5, <1>6 DEF Belongs
<1>9. Right(current, [tasks EXCEPT ![current] = list], map, Phase(a, phase), Answered(a), touched)
  BY <1>1, <1>3, <1>6, <1>7, <1>8, ReplyRight, ZenonT(40) DEF Live
<1>10. /\ Continue(waiting[a].by, list, waiting[a].rest, Phase(a, phase), Answered(a))
       /\ agentTaskMap' = map /\ UNCHANGED <<current, touched>>
  BY <1>3, <1>6, <1>7 DEF SpawnReply
<1>11. \A i \in waiting[a].rest : Copied(i, current, Phase(a, phase))
  <2>1. \A x \in Agents : Phase(a, phase)[x].session = agents[x].session /\ Phase(a, phase)[x].task = agents[x].task
    BY <1>1 DEF Typed, AgentType, Phase
  <2> QED BY <1>2, <1>4, <2>1 DEF Copied, Belongs, Items
<1>12. Right(current, tasks', map, agents', waiting', touched)
  BY <1>1, <1>4, <1>9, <1>10, <1>11, ContinueRight DEF Typed
<1> QED BY <1>10, <1>12 DEF BoardInv

\* No agent was spawned: the task is pending, and the handler goes on.
LEMMA SpawnFailsRight ==
    ASSUME BoardInv, NEW a \in Agents, SpawnFails(a)
    PROVE  BoardInv'
<1>1. /\ Typed(current, tasks, agentTaskMap, agents, waiting) /\ Tied(current, tasks, agentTaskMap, agents, waiting)
      /\ agents[a].phase \in {"asked", "unheard"}
  BY DEF BoardInv, Right, SpawnFails, Fails
<1>2. /\ waiting[a] \in Handlers /\ Copied(waiting[a].item, current, agents)
      /\ \A i \in waiting[a].rest : Copied(i, current, agents)
  BY <1>1 DEF Typed, Tied
<1>3. PICK t \in Tasks : t = waiting[a].item.task
  BY <1>2 DEF Handlers, Items
<1>4. waiting[a].rest \in SUBSET Items /\ waiting[a].by \in {"execute", "cascade"}
      /\ waiting[a].item.was \in Agents \cup {None}
  BY <1>2 DEF Handlers, Items
<1>5. Here \in [Tasks -> TaskType] /\ Belongs(Here[t].agentId, current, t, agents)
  BY <1>1 DEF Typed, Tied, Here
<1>6. PICK put \in [Tasks -> TaskType] :
        /\ put = WithStatus(Here, t, "pending")
        /\ put[t].agentId = Here[t].agentId /\ put[t].status # "in_progress"
        /\ \A u \in Tasks \ {t} : put[u] = Here[u]
  BY <1>5, StatusWritten DEF Statuses
<1>7. PICK list \in [Tasks -> TaskType] :
        /\ list = Reverted(waiting[a])
        /\ list[t].agentId \in {Here[t].agentId, waiting[a].item.was} /\ list[t].status # "in_progress"
        /\ \A u \in Tasks \ {t} : list[u] = Here[u]
  <2>1. CASE waiting[a].item.was = None
    BY <1>3, <1>6, <2>1 DEF Reverted
  <2>2. CASE waiting[a].item.was # None
    <3>1. waiting[a].item.was \in Agents
      BY <1>4, <2>2
    <3>2. Reverted(waiting[a]) = Linked(put, t, waiting[a].item.was)
      BY <1>3, <1>6, <2>2 DEF Reverted
    <3> QED BY <1>6, <3>1, <3>2, AgentLinked
  <2> QED BY <2>1, <2>2
<1>8. Belongs(list[t].agentId, current, t, agents)
  BY <1>2, <1>3, <1>5, <1>7 DEF Copied
<1>9. Right(current, [tasks EXCEPT ![current] = list], agentTaskMap, Phase(a, "failed"), Answered(a), touched)
  BY <1>1, <1>3, <1>7, <1>8, ReplyRight DEF Typed
<1>10. /\ Continue(waiting[a].by, list, waiting[a].rest, Phase(a, "failed"), Answered(a))
       /\ UNCHANGED <<current, agentTaskMap, touched>>
  BY <1>7 DEF SpawnFails
<1>11. \A i \in waiting[a].rest : Copied(i, current, Phase(a, "failed"))
  <2>1. \A x \in Agents : Phase(a, "failed")[x].session = agents[x].session /\ Phase(a, "failed")[x].task = agents[x].task
    BY <1>1 DEF Typed, AgentType, Phase
  <2> QED BY <1>2, <1>4, <2>1 DEF Copied, Belongs, Items
<1>12. Right(current, tasks', agentTaskMap, agents', waiting', touched)
  BY <1>1, <1>4, <1>9, <1>10, <1>11, ContinueRight DEF Typed
<1> QED BY <1>10, <1>12 DEF BoardInv

\* abort of an agent: it ends, is dropped, or goes on as it did.
LEMMA AgentAborted ==
    ASSUME NEW ags \in [Agents -> AgentType], agents = ags, NEW x \in Agents
    PROVE  /\ Stopped(x) \in [Agents -> AgentType]
           /\ \A y \in Agents :
                /\ Stopped(x)[y].session = ags[y].session /\ Stopped(x)[y].task = ags[y].task
                /\ \/ Stopped(x)[y].phase = ags[y].phase
                   \/ ags[y].phase \in {"queued", "running"} /\ Stopped(x)[y].phase \in {"ended", "dropped"}
<1>1. CASE ags[x].phase = "running"
  <2>1. PICK r : r = [ags[x] EXCEPT !.phase = "ended", !.outcome = "stopped"]
    OBVIOUS
  <2>2. r \in AgentType /\ r.session = ags[x].session /\ r.task = ags[x].task /\ r.phase = "ended"
    BY <2>1 DEF AgentType, Phases, Outcomes
  <2>3. Stopped(x) = [ags EXCEPT ![x] = r]
    BY <1>1, <2>1 DEF Stopped
  <2> QED BY <1>1, <2>2, <2>3
<1>2. CASE ags[x].phase = "queued"
  BY <1>2 DEF Stopped, Phase, AgentType, Phases
<1>3. CASE ags[x].phase \notin {"running", "queued"}
  BY <1>3 DEF Stopped
<1> QED BY <1>1, <1>2, <1>3

\* Agents go on, end or are stopped.
AgentsGo ==
    /\ agents' \in [Agents -> AgentType]
    /\ \A x \in Agents :
         /\ agents'[x].session = agents[x].session /\ agents'[x].task = agents[x].task
         /\ \/ agents'[x].phase = agents[x].phase
            \/ agents[x].phase \in Live /\ agents'[x].phase \in Live \cup {"dropped"}

\* That is what they do by themselves, when they are aborted and when their task is.
LEMMA AgentsGoOn ==
    ASSUME BoardInv, NEW a \in Agents,
           \/ AgentStarts(a) \/ AgentStopped(a)
           \/ \E outcome \in {"completed", "error"} : AgentEnds(a, outcome)
    PROVE  AgentsGo
<1>1. agents \in [Agents -> AgentType]
  BY DEF BoardInv, Right, Typed
<1>2. CASE AgentStarts(a)
  BY <1>1, <1>2 DEF AgentStarts, AgentType, Phases, Live, AgentsGo
<1>3. CASE AgentStopped(a)
  BY <1>1, <1>3, AgentAborted DEF AgentStopped, Live, AgentsGo
<1>4. CASE \E outcome \in {"completed", "error"} : AgentEnds(a, outcome)
  BY <1>1, <1>4 DEF AgentEnds, AgentType, Phases, Outcomes, Live, AgentsGo
<1> QED BY <1>2, <1>3, <1>4

LEMMA ToolsLetAgentsGo ==
    ASSUME BoardInv,
           \/ \E t \in Tasks : TaskStop(t)
           \/ UNCHANGED agents
    PROVE  AgentsGo
<1>1. agents \in [Agents -> AgentType] /\ Here \in [Tasks -> TaskType]
  BY DEF BoardInv, Right, Typed, Here
<1>2. ASSUME NEW t \in Tasks, TaskStop(t)
      PROVE  AgentsGo
  <2>1. Here[t].agentId \in Agents
    BY <1>1, <1>2 DEF TaskStop, TaskType
  <2>2. agents' \in {Stopped(Here[t].agentId), agents}
    BY <1>2 DEF TaskStop
  <2> QED BY <1>1, <2>1, <2>2, AgentAborted DEF Live, AgentsGo
<1>3. CASE UNCHANGED agents
  BY <1>1, <1>3 DEF AgentsGo
<1> QED BY <1>2, <1>3

\* The invariant survives that.
LEMMA AgentMovesRight ==
    ASSUME BoardInv, NEW a \in Agents,
           \/ AgentStarts(a) \/ AgentStopped(a)
           \/ \E outcome \in {"completed", "error"} : AgentEnds(a, outcome)
    PROVE  BoardInv'
<1>1. Typed(current, tasks, agentTaskMap, agents, waiting) /\ Right(current, tasks, agentTaskMap, agents, waiting, touched)
  BY DEF BoardInv, Right
<1>2. UNCHANGED <<current, tasks, agentTaskMap, waiting, touched>>
  BY DEF AgentStarts, AgentStopped, AgentEnds
<1>3. AgentsGo
  BY AgentsGoOn
<1>4. tasks \in [Sessions -> [Tasks -> TaskType]] /\ agentTaskMap \in [Agents -> Tasks \cup {None}]
  BY <1>1 DEF Typed
<1>5. Right(current, tasks, agentTaskMap, agents', waiting, touched)
  <2>1. Moved(current, tasks, agentTaskMap, agents, touched, tasks, agentTaskMap, agents', touched)
    BY <1>3, <1>4 DEF Moved, AgentsGo
  <2> QED BY <1>1, <2>1, MovesRight
<1> QED BY <1>2, <1>5 DEF BoardInv

\* The tools that write a task, and the clearing of those that are completed.
LEMMA ToolsRight ==
    ASSUME BoardInv,
           \/ \E t \in Tasks : TaskStop(t)
           \/ \E t \in Tasks, status \in {"pending", "in_progress", "completed", "deleted"} : TaskUpdate(t, status)
           \/ ClearCompleted
    PROVE  BoardInv'
<1>1. Typed(current, tasks, agentTaskMap, agents, waiting) /\ Right(current, tasks, agentTaskMap, agents, waiting, touched)
  BY DEF BoardInv, Right
<1>2. /\ tasks \in [Sessions -> [Tasks -> TaskType]] /\ agentTaskMap \in [Agents -> Tasks \cup {None}]
      /\ agents \in [Agents -> AgentType] /\ Here \in [Tasks -> TaskType] /\ current \in Sessions
      /\ tasks[current] = Here
  BY <1>1 DEF Typed, Here
<1>3. UNCHANGED <<current, agentTaskMap, waiting>>
  BY DEF TaskStop, TaskUpdate, ClearCompleted
<1>4. AgentsGo
  BY ToolsLetAgentsGo DEF TaskUpdate, ClearCompleted
<1>5. /\ tasks' \in [Sessions -> [Tasks -> TaskType]] /\ touched \subseteq touched'
      /\ \A s \in Sessions, t \in Tasks :
           /\ tasks'[s][t].agentId \in {tasks[s][t].agentId, None}
           /\ tasks'[s][t].status = "in_progress" /\ <<s, t>> \notin touched' => tasks'[s][t] = tasks[s][t]
  <2>1. ASSUME NEW t \in Tasks, TaskStop(t)
        PROVE  <1>5!:
    <3>1. tasks' = [tasks EXCEPT ![current] = WithStatus(Here, t, "completed")] /\ touched' = touched
      BY <1>2, <2>1 DEF TaskStop
    <3>2. /\ WithStatus(Here, t, "completed") \in [Tasks -> TaskType]
          /\ \A u \in Tasks : WithStatus(Here, t, "completed")[u].agentId = Here[u].agentId
          /\ \A u \in Tasks \ {t} : WithStatus(Here, t, "completed")[u] = Here[u]
          /\ WithStatus(Here, t, "completed")[t].status # "in_progress"
      BY <1>2, StatusWritten, ZenonT(40) DEF Statuses
    <3> QED BY <1>2, <3>1, <3>2
  <2>2. ASSUME NEW t \in Tasks, NEW status \in {"pending", "in_progress", "completed", "deleted"}, TaskUpdate(t, status)
        PROVE  <1>5!:
    <3> DEFINE written == IF status = "deleted" THEN [status |-> "none", agentId |-> None]
                          ELSE [tasks[current][t] EXCEPT !.status = status]
    <3>0. written \in TaskType /\ written.agentId \in {tasks[current][t].agentId, None}
      <4>1. CASE status = "deleted"
        BY <4>1 DEF TaskType, Statuses
      <4>2. CASE status # "deleted"
        <5>1. tasks[current][t] \in TaskType
          BY <1>2
        <5> QED BY <4>2, <5>1 DEF TaskType, Statuses
      <4> QED BY <4>1, <4>2
    <3>1. PICK r \in TaskType : r = written /\ r.agentId \in {tasks[current][t].agentId, None}
      BY <3>0
    <3>2. tasks' = [tasks EXCEPT ![current][t] = r] /\ touched' = touched \cup {<<current, t>>}
      BY <2>2, <3>1 DEF TaskUpdate
    <3> QED BY <1>2, <3>1, <3>2
  <2>3. ASSUME ClearCompleted
        PROVE  <1>5!:
    <3>1. PICK gone \in TaskType : gone = [status |-> "none", agentId |-> None]
      BY DEF TaskType, Statuses
    <3>2. /\ tasks' = [tasks EXCEPT ![current] = [t \in Tasks |-> IF Done(Here, t) THEN gone ELSE Here[t]]]
          /\ touched' = touched
      BY <1>2, <2>3, <3>1 DEF ClearCompleted
    <3> QED BY <1>2, <3>1, <3>2
  <2> QED BY <2>1, <2>2, <2>3
<1>6. Right(current, tasks', agentTaskMap, agents', waiting, touched')
  <2>1. Moved(current, tasks, agentTaskMap, agents, touched, tasks', agentTaskMap, agents', touched')
    BY <1>2, <1>4, <1>5 DEF Moved, AgentsGo
  <2> QED BY <1>1, <2>1, MovesRight
<1> QED BY <1>3, <1>6 DEF BoardInv

\* The list when an agent's end is heard of: its task, if the map has it and it is
\* in the list, gets its status.
Heard(a, status, list) ==
    list = IF Known(a) THEN WithStatus(Here, agentTaskMap[a], status) ELSE Here

\* Only the task the agent was spawned for changes.
OnlyOwn(a, tk) ==
    \A s \in Sessions, t \in Tasks : tk[s][t] # tasks[s][t] => s = agents[a].session /\ t = agents[a].task

\* That keeps everything right, before a cascade goes on.
LEMMA ReportRight ==
    ASSUME BoardInv, NEW a \in Agents, agents[a].phase = "ended",
           NEW status \in {"completed", "pending"}, NEW list, Heard(a, status, list),
           NEW tk, tk = [tasks EXCEPT ![current] = list]
    PROVE  /\ Right(current, tk, [agentTaskMap EXCEPT ![a] = None], Reported(a), waiting, touched)
           /\ list \in [Tasks -> TaskType]
           /\ OnlyOwn(a, tk)
           /\ \A x \in Agents : Reported(a)[x].session = agents[x].session /\ Reported(a)[x].task = agents[x].task
<1>1. /\ Typed(current, tasks, agentTaskMap, agents, waiting) /\ Tied(current, tasks, agentTaskMap, agents, waiting)
      /\ Right(current, tasks, agentTaskMap, agents, waiting, touched)
  BY DEF BoardInv, Right
<1>2. /\ tasks \in [Sessions -> [Tasks -> TaskType]] /\ agentTaskMap \in [Agents -> Tasks \cup {None}]
      /\ agents \in [Agents -> AgentType] /\ Here \in [Tasks -> TaskType] /\ current \in Sessions
      /\ tasks[current] = Here
  BY <1>1 DEF Typed, Here
<1>3. Known(a) => agentTaskMap[a] \in Tasks /\ agents[a].session = current /\ agents[a].task = agentTaskMap[a]
  BY <1>1, <1>2 DEF Known, Tied
<1>4. /\ list \in [Tasks -> TaskType]
      /\ \A t \in Tasks : list[t].agentId = Here[t].agentId
      /\ \A t \in Tasks : t # agentTaskMap[a] \/ ~Known(a) => list[t] = Here[t]
      /\ Known(a) => list[agentTaskMap[a]].status # "in_progress"
  <2>1. CASE Known(a)
    <3>1. status \in Statuses /\ status # "in_progress"
      BY DEF Statuses
    <3>2. PICK t \in Tasks : t = agentTaskMap[a]
      BY <1>3, <2>1
    <3>3. /\ WithStatus(Here, t, status) \in [Tasks -> TaskType]
          /\ \A u \in Tasks : WithStatus(Here, t, status)[u].agentId = Here[u].agentId
          /\ \A u \in Tasks \ {t} : WithStatus(Here, t, status)[u] = Here[u]
          /\ WithStatus(Here, t, status)[t].status # "in_progress"
      <4>1. Here \in [Tasks -> TaskType] /\ status \in Statuses
        BY <1>2, <3>1
      <4> QED BY <3>1, <4>1, StatusWritten
    <3>4. list = WithStatus(Here, t, status)
      BY <2>1, <3>2 DEF Heard
    <3> QED BY <2>1, <3>2, <3>3, <3>4
  <2>2. CASE ~Known(a)
    BY <1>2, <2>2 DEF Heard
  <2> QED BY <2>1, <2>2
<1>5. /\ tk \in [Sessions -> [Tasks -> TaskType]] /\ tk[current] = list
      /\ \A s \in Sessions \ {current} : tk[s] = tasks[s]
  BY <1>2, <1>4
<1> DEFINE map == [agentTaskMap EXCEPT ![a] = None]
           ags == Reported(a)
<1>6. /\ map \in [Agents -> Tasks \cup {None}] /\ \A x \in Agents : map[x] \in {agentTaskMap[x], None}
      /\ \A x \in Agents \ {a} : map[x] = agentTaskMap[x]
  BY <1>2
<1>7. /\ ags \in [Agents -> AgentType] /\ \A x \in Agents \ {a} : ags[x] = agents[x]
      /\ \A x \in Agents : ags[x].session = agents[x].session /\ ags[x].task = agents[x].task
      /\ ags[a].phase = IF agents[a].session = current THEN "reported" ELSE "missed"
  BY <1>2 DEF Reported, Phase, AgentType, Phases
<1> HIDE DEF map, ags
<1>8. OnlyOwn(a, tk)
  BY <1>2, <1>3, <1>4, <1>5 DEF OnlyOwn
<1>9. ASSUME NEW s \in Sessions, NEW t \in Tasks, tk[s][t].status = "in_progress", <<s, t>> \notin touched
      PROVE  /\ tasks[s][t].status = "in_progress" /\ tk[s][t].agentId = tasks[s][t].agentId
             /\ \A x \in Agents :
                   /\ agents[x].session = s /\ agents[x].task = t /\ agents[x].phase \in Live
                   /\ s = current => agentTaskMap[x] = t
                   => \/ ags[x].phase \in {"missed", "dropped"}
                      \/ ags[x].phase \in Live /\ map[x] = agentTaskMap[x]
  <2>1. tk[s][t] = tasks[s][t]
    BY <1>2, <1>4, <1>5, <1>9
  <2>2. ASSUME NEW x \in Agents, agents[x].session = s, agents[x].task = t, agents[x].phase \in Live,
               s = current => agentTaskMap[x] = t
        PROVE  \/ ags[x].phase \in {"missed", "dropped"}
               \/ ags[x].phase \in Live /\ map[x] = agentTaskMap[x]
    <3>1. CASE x # a
      BY <1>6, <1>7, <2>2, <3>1
    <3>2. CASE x = a /\ s # current
      BY <1>7, <2>2, <3>2
    <3>3. CASE x = a /\ s = current
      <4>1. t = agentTaskMap[a] /\ Here[t].status = "in_progress"
        BY <1>2, <1>9, <2>1, <2>2, <3>3
      <4>2. Known(a)
        BY <4>1, TaskBoardAssumption DEF Known, Tasks
      <4> QED BY <1>4, <1>5, <1>9, <3>3, <4>1, <4>2
    <3> QED BY <3>1, <3>2, <3>3
  <2> QED BY <1>9, <2>1, <2>2
<1>10. Moved(current, tasks, agentTaskMap, agents, touched, tk, map, ags, touched)
  <2>1. \A s \in Sessions, t \in Tasks : tk[s][t].agentId \in {tasks[s][t].agentId, None}
    BY <1>2, <1>4, <1>5
  <2>2. agents[a].phase \in Live
    BY DEF Live
  <2> QED BY <1>5, <1>6, <1>7, <1>9, <2>1, <2>2 DEF Moved
<1>11. Right(current, tk, map, ags, waiting, touched)
  BY <1>1, <1>10, MovesRight
<1> QED BY <1>4, <1>7, <1>8, <1>11 DEF map, ags

\* subagents:completed and subagents:failed.
LEMMA FailedRight ==
    ASSUME BoardInv, NEW a \in Agents, Failed(a)
    PROVE  BoardInv' /\ OnlyOwn(a, tasks')
<1>1. PICK status \in {"completed", "pending"} : status = IF agents[a].outcome = "stopped" THEN "completed" ELSE "pending"
  OBVIOUS
<1>2. PICK list : list = IF Known(a) THEN WithStatus(Here, agentTaskMap[a], status) ELSE Here
  OBVIOUS
<1>3. tasks \in [Sessions -> [Tasks -> TaskType]] /\ current \in Sessions
  BY DEF BoardInv, Right, Typed
<1>4. tasks' = [tasks EXCEPT ![current] = list]
  BY <1>1, <1>2, <1>3 DEF Failed, Here
<1>5. agents[a].phase = "ended" /\ Heard(a, status, list)
  BY <1>2 DEF Failed, Heard
<1>6. /\ UNCHANGED <<current, waiting, touched>>
      /\ agentTaskMap' = [agentTaskMap EXCEPT ![a] = None] /\ agents' = Reported(a)
  BY DEF Failed, Unmapped
<1>7. PICK tk : tk = [tasks EXCEPT ![current] = list]
  OBVIOUS
<1>8. Right(current, tk, [agentTaskMap EXCEPT ![a] = None], Reported(a), waiting, touched) /\ OnlyOwn(a, tk)
  BY <1>5, <1>7, ReportRight
<1>9. tasks' = tk
  BY <1>4, <1>7
<1> QED BY <1>6, <1>8, <1>9 DEF BoardInv

LEMMA CompletedRight ==
    ASSUME BoardInv, NEW a \in Agents, Completed(a)
    PROVE  BoardInv'
<1> DEFINE map == [agentTaskMap EXCEPT ![a] = None]
<1>1. PICK list : list = IF Known(a) THEN WithStatus(Here, agentTaskMap[a], "completed") ELSE Here
  OBVIOUS
<1>2. tasks \in [Sessions -> [Tasks -> TaskType]] /\ current \in Sessions
  BY DEF BoardInv, Right, Typed
<1>3. agents[a].phase = "ended" /\ UNCHANGED <<current, touched>> /\ agentTaskMap' = map
  BY DEF Completed, Unmapped
<1>4. /\ Right(current, [tasks EXCEPT ![current] = list], map, Reported(a), waiting, touched)
      /\ list \in [Tasks -> TaskType]
  BY <1>1, <1>3, ReportRight DEF Heard
<1>5. CASE ~Known(a)
  <2>1. [tasks EXCEPT ![current] = list] = tasks
    BY <1>1, <1>2, <1>5 DEF Here
  <2>2. tasks' = tasks /\ waiting' = waiting /\ agents' = Reported(a)
    BY <1>5 DEF Completed
  <2> QED BY <1>3, <1>4, <2>1, <2>2 DEF BoardInv
<1>6. CASE Known(a)
  <2>1. PICK S \in SUBSET Tasks : S = IF cascading THEN Freed(list, agentTaskMap[a]) ELSE {}
    <3>1. Freed(list, agentTaskMap[a]) \in SUBSET Tasks
      BY DEF Freed
    <3> QED BY <3>1
  <2>2. \A t \in Tasks : Belongs(list[t].agentId, current, t, Reported(a))
    <3>1. [tasks EXCEPT ![current] = list][current] = list
      BY <1>2
    <3> QED BY <1>2, <1>4, <3>1 DEF Right, Tied
  <2>3. PICK todo \in SUBSET Items : todo = {Item(list, u) : u \in S} /\ \A i \in todo : Copied(i, current, Reported(a))
    <3>1. /\ {Item(list, u) : u \in S} \in SUBSET Items
          /\ \A i \in {Item(list, u) : u \in S} : Copied(i, current, Reported(a))
      BY <1>2, <1>4, <2>2, ItemsCopied
    <3> QED BY <3>1
  <2>4. todo = IF cascading THEN {Item(list, u) : u \in Freed(list, agentTaskMap[a])} ELSE {}
    BY <2>1, <2>3
  <2>5. Continue("cascade", list, todo, Reported(a), waiting)
    BY <1>1, <1>6, <2>4 DEF Completed
  <2>6. Right(current, tasks', map, agents', waiting', touched)
    BY <1>2, <1>4, <2>3, <2>5, ContinueRight
  <2> QED BY <1>3, <2>6 DEF BoardInv
<1> QED BY <1>5, <1>6

\* The agents of a list that are attached again are those its tasks name.
LEMMA ReattachedOwn ==
    ASSUME BoardInv, NEW s \in Sessions, NEW a \in Agents
    PROVE  /\ Reattached(s)[a] \in Tasks \cup {None}
           /\ Reattached(s)[a] # None => agents[a].session = s /\ agents[a].task = Reattached(s)[a]
           /\ \A t \in Tagged(s, a) : Reattached(s)[a] = t
<1>1. \A t \in Tagged(s, a) : t \in Tasks /\ agents[a].session = s /\ agents[a].task = t
  BY TaskBoardAssumption DEF Tagged, BoardInv, Right, Tied, Belongs, Agents
<1>2. CASE Tagged(s, a) = {}
  BY <1>2 DEF Reattached
<1>3. CASE Tagged(s, a) # {}
  <2>1. PICK t \in Tagged(s, a) : TRUE
    BY <1>3
  <2>2. Tagged(s, a) = {t} /\ t \in Int
    BY <1>1, <2>1 DEF Tasks
  <2>3. Max({t}) = t
    BY <2>2 DEF Max
  <2> QED BY <1>1, <1>3, <2>1, <2>2, <2>3 DEF Reattached
<1> QED BY <1>2, <1>3

\* A switch between handlers attaches the agents of the session it goes to.
LEMMA SwitchRight ==
    ASSUME BoardInv, NEW s \in Sessions, SwitchSession(s), ~crossed'
    PROVE  BoardInv'
<1>1. /\ Typed(current, tasks, agentTaskMap, agents, waiting) /\ Tied(current, tasks, agentTaskMap, agents, waiting)
      /\ AllHeld(current, tasks, agentTaskMap, agents, waiting, touched)
  BY DEF BoardInv, Right
<1>2. /\ \A a \in Agents : waiting[a] = None
      /\ s # current /\ current' = s /\ agentTaskMap' = Reattached(s) /\ UNCHANGED <<tasks, agents, waiting, touched>>
  BY DEF SwitchSession
<1>3. PICK map \in [Agents -> Tasks \cup {None}] : map = Reattached(s)
  <2>1. Reattached(s) \in [Agents -> Tasks \cup {None}]
    BY ReattachedOwn DEF Reattached
  <2> QED BY <2>1
<1>4. \A a \in Agents : /\ map[a] # None => agents[a].session = s /\ agents[a].task = map[a]
                        /\ \A t \in Tagged(s, a) : map[a] = t
  BY <1>3, ReattachedOwn
<1>5. Typed(s, tasks, map, agents, waiting)
  BY <1>1 DEF Typed
<1>6. Tied(s, tasks, map, agents, waiting)
  BY <1>1, <1>2, <1>4 DEF Tied
<1>7. AllHeld(s, tasks, map, agents, waiting, touched)
  <2> SUFFICES ASSUME NEW r \in Sessions, NEW t \in Tasks, tasks[r][t].status = "in_progress", <<r, t>> \notin touched
               PROVE  Held(r, t, s, tasks, map, agents, waiting)
    BY DEF AllHeld
  <2>1. PICK a \in Agents :
          /\ agents[a].session = r /\ agents[a].task = t
          /\ \/ agents[a].phase \in Live /\ tasks[r][t].agentId = a
             \/ agents[a].phase \in {"missed", "dropped"}
    BY <1>1, <1>2 DEF AllHeld, Held
  <2>2. r = s /\ tasks[r][t].agentId = a => map[a] = t
    BY <1>4 DEF Tagged
  <2> QED BY <2>1, <2>2 DEF Held
<1> QED BY <1>2, <1>3, <1>5, <1>6, <1>7 DEF BoardInv, Right

\* What a switch has crossed stays so.
LEMMA CrossedStays == [BoardNext]_boardVars /\ crossed => crossed'
  BY DEF BoardNext, boardVars, excuses, Reply, Agent, TaskExecute, SpawnReply, SpawnFails, AgentStarts,
         AgentEnds, Completed, Failed, AgentStopped, TaskStop, TaskUpdate, ClearCompleted, SwitchSession

\* Every step keeps the invariant until a session is switched while a handler waits.
LEMMA BoardNextInv == (~crossed => BoardInv) /\ [BoardNext]_boardVars => (~crossed => BoardInv)'
<1> SUFFICES ASSUME ~crossed => BoardInv, [BoardNext]_boardVars, ~crossed' PROVE BoardInv'
  OBVIOUS
<1>0. BoardInv
  BY CrossedStays
<1>1. CASE UNCHANGED boardVars
  BY <1>0, <1>1 DEF boardVars, BoardInv
<1>2. CASE BoardNext
  BY <1>0, <1>2, ExecuteRight, SpawnReplyRight, SpawnFailsRight, AgentMovesRight, ToolsRight, FailedRight, CompletedRight, SwitchRight
     DEF BoardNext, Reply, Agent
<1> QED BY <1>1, <1>2

LEMMA BoardInvariance == BoardSpec => [](~crossed => BoardInv)
<1> QED BY BoardInitInv, BoardNextInv, PTL DEF BoardSpec

\* A task that is in_progress, and that nobody has set by hand, is being asked for or
\* is one whose agent will report to it, unless the agent reported while another
\* session was current or was stopped in the queue (the listeners, reattachAgents), or
\* a session was switched while a handler waited for a reply.
THEOREM InProgressHasAgent == BoardSpec => []InProgressAccounted
<1>1. (~crossed => BoardInv) => InProgressAccounted
  BY DEF BoardInv, Right, Typed, AllHeld, Held, InProgressAccounted, Here
<1> QED BY <1>1, BoardInvariance, PTL

-----------------------------------------------------------------------------
(* The end of an agent.                                                    *)

\* A handler that goes on leaves the agents there are ...
LEMMA ContinueKeepsAgents ==
    ASSUME NEW by, NEW list, NEW todo, NEW ags \in [Agents -> AgentType], NEW waits,
           Continue(by, list, todo, ags, waits),
           NEW x \in Agents, ags[x].phase # "none"
    PROVE  agents'[x] = ags[x]
<1>1. CASE Through(by, list, todo, ags, waits)
  BY <1>1 DEF Through
<1>2. ASSUME NEW i, NEW a \in Agents, NEW phase, NEW rest, NEW item,
             Asks(by, list, todo, ags, waits, i, a, phase, rest, item)
      PROVE  agents'[x] = ags[x]
  BY <1>2 DEF Asks
<1> QED BY <1>1, <1>2, ContinueFacts

\* ... and changes statuses only to in_progress.
OnlyMarks(tk) ==
    \A s \in Sessions, t \in Tasks :
        tasks'[s][t].status # "in_progress" => tasks'[s][t].status = tk[s][t].status

LEMMA ContinueMarks ==
    ASSUME NEW by, NEW list \in [Tasks -> TaskType], NEW todo \in SUBSET Items, NEW ags, NEW waits, NEW mid,
           mid = [tasks EXCEPT ![current] = list],
           current \in Sessions, tasks \in [Sessions -> [Tasks -> TaskType]],
           Continue(by, list, todo, ags, waits)
    PROVE  OnlyMarks(mid)
<1>1. CASE Through(by, list, todo, ags, waits)
  BY <1>1 DEF Through, OnlyMarks
<1>2. ASSUME NEW i \in Startable(by, list, todo), NEW a \in Agents, NEW phase, NEW rest, NEW item,
             Asks(by, list, todo, ags, waits, i, a, phase, rest, item)
      PROVE  OnlyMarks(mid)
  <2>1. i.task \in Tasks
    BY DEF Startable, Items
  <2>2. PICK marked \in [Tasks -> TaskType] :
          /\ marked = WithStatus(list, i.task, "in_progress")
          /\ \A u \in Tasks : marked[u].status # "in_progress" => marked[u].status = list[u].status
    <3>1. /\ WithStatus(list, i.task, "in_progress") \in [Tasks -> TaskType]
          /\ \A u \in Tasks : WithStatus(list, i.task, "in_progress")[u].status # "in_progress"
                => WithStatus(list, i.task, "in_progress")[u].status = list[u].status
      <4>1. "in_progress" \in Statuses
        BY DEF Statuses
      <4>2. /\ WithStatus(list, i.task, "in_progress") \in [Tasks -> TaskType]
            /\ \A u \in Tasks \ {i.task} : WithStatus(list, i.task, "in_progress")[u] = list[u]
            /\ WithStatus(list, i.task, "in_progress")[i.task].status =
                 IF list[i.task].status = "none" THEN "none" ELSE "in_progress"
        BY <2>1, <4>1, StatusWritten
      <4> QED BY <2>1, <4>2
    <3> QED BY <3>1
  <2>3. tasks' = [tasks EXCEPT ![current] = marked]
    BY <1>2, <2>2 DEF Asks
  <2> QED BY <2>2, <2>3 DEF OnlyMarks
<1> QED BY <1>1, <1>2, ContinueFacts

\* Only the listeners make an agent that has ended one that has reported.
LEMMA ReportsHeard ==
    ASSUME BoardInv, BoardNext, NEW a \in Agents,
           agents[a].phase = "ended", agents'[a].phase \in {"reported", "missed"}
    PROVE  Completed(a) \/ Failed(a)
<1>1. agents \in [Agents -> AgentType] /\ Here \in [Tasks -> TaskType]
  BY DEF BoardInv, Right, Typed, Here
<1>2. ASSUME NEW by, NEW list, NEW todo, NEW ags \in [Agents -> AgentType], NEW waits, ags[a] = agents[a],
             Continue(by, list, todo, ags, waits)
      PROVE  FALSE
  BY <1>2, ContinueKeepsAgents
<1>3. \A B \in Batches : ~TaskExecute(B)
  BY <1>1, <1>2 DEF TaskExecute
<1>4. ASSUME NEW x \in Agents, NEW phase \in Phases \ {"reported", "missed"}, x # a \/ phase = "ended"
      PROVE  Phase(x, phase) \in [Agents -> AgentType] /\ Phase(x, phase)[a].phase = agents[a].phase
             /\ (x # a => Phase(x, phase)[a] = agents[a])
  BY <1>1, <1>4 DEF Phase, AgentType
<1>5. ASSUME NEW x \in Agents, Reply(x) PROVE FALSE
  <2>1. x # a
    BY <1>5 DEF Reply, SpawnReply, SpawnFails, Fails
  <2>2. ASSUME NEW phase \in {"queued", "running"}, SpawnReply(x, phase) PROVE FALSE
    <3>1. phase \in Phases \ {"reported", "missed"}
      BY DEF Phases
    <3> QED BY <1>2, <1>4, <2>1, <2>2, <3>1 DEF SpawnReply
  <2>3. ASSUME SpawnFails(x) PROVE FALSE
    BY <1>2, <1>4, <2>1, <2>3 DEF SpawnFails, Phases
  <2> QED BY <1>5, <2>2, <2>3 DEF Reply
<1>6. ASSUME NEW x \in Agents, AgentStarts(x) \/ AgentStopped(x) \/ \E outcome \in {"completed", "error"} : AgentEnds(x, outcome)
      PROVE  FALSE
  <2>1. CASE AgentStopped(x)
    BY <1>1, <2>1, AgentAborted DEF AgentStopped
  <2>2. CASE AgentStarts(x) \/ \E outcome \in {"completed", "error"} : AgentEnds(x, outcome)
    BY <1>1, <2>2 DEF AgentStarts, AgentEnds
  <2> QED BY <1>6, <2>1, <2>2
<1>7. ASSUME NEW t \in Tasks, TaskStop(t) PROVE FALSE
  <2>1. PICK x \in Agents : x = Here[t].agentId
    BY <1>1, <1>7 DEF TaskStop, TaskType
  <2>2. agents' \in {Stopped(x), agents}
    BY <1>7, <2>1 DEF TaskStop
  <2> QED BY <1>1, <2>2, AgentAborted, SMTT(30), ZenonT(40)
<1>8. ASSUME UNCHANGED agents PROVE FALSE
  BY <1>8
<1>9. ASSUME NEW x \in Agents, x # a, Completed(x) \/ Failed(x) PROVE FALSE
  <2>1. Reported(x) \in [Agents -> AgentType] /\ Reported(x)[a] = agents[a]
    BY <1>1, <1>9 DEF Reported, Phase, AgentType, Phases
  <2>2. CASE Failed(x)
    BY <2>1, <2>2 DEF Failed
  <2>3. CASE Completed(x)
    <3>1. agents' # Reported(x)
      BY <2>1
    <3> QED BY <1>2, <2>1, <2>3, <3>1 DEF Completed
  <2> QED BY <1>9, <2>2, <2>3
<1> QED BY <1>3, <1>5, <1>6, <1>7, <1>8, <1>9 DEF BoardNext, Agent, TaskUpdate, ClearCompleted, SwitchSession

\* What a completion changes for good is the agent's own task: the others are only
\* started.
LEMMA CompletedOwn ==
    ASSUME BoardInv, NEW a \in Agents, Completed(a),
           NEW s \in Sessions, NEW t \in Tasks,
           tasks'[s][t].status # tasks[s][t].status, tasks'[s][t].status # "in_progress"
    PROVE  s = agents[a].session /\ t = agents[a].task
<1>1. PICK list : Heard(a, "completed", list)
  BY DEF Heard
<1>2. PICK mid : mid = [tasks EXCEPT ![current] = list]
  OBVIOUS
<1>3. tasks \in [Sessions -> [Tasks -> TaskType]] /\ current \in Sessions /\ agents[a].phase = "ended"
  BY DEF BoardInv, Right, Typed, Completed
<1>4. OnlyOwn(a, mid) /\ list \in [Tasks -> TaskType] /\ Right(current, mid, [agentTaskMap EXCEPT ![a] = None], Reported(a), waiting, touched)
      /\ \A x \in Agents : Reported(a)[x].session = agents[x].session /\ Reported(a)[x].task = agents[x].task
  BY <1>1, <1>2, <1>3, ReportRight
<1>5. CASE ~Known(a)
  BY <1>5 DEF Completed
<1>6. CASE Known(a)
  <2>1. PICK S \in SUBSET Tasks : S = IF cascading THEN Freed(list, agentTaskMap[a]) ELSE {}
    <3>1. Freed(list, agentTaskMap[a]) \in SUBSET Tasks
      BY DEF Freed
    <3> QED BY <3>1
  <2>2. \A u \in Tasks : Belongs(list[u].agentId, current, u, Reported(a))
    <3>1. mid[current] = list
      BY <1>2, <1>3
    <3> QED BY <1>3, <1>4, <3>1 DEF Right, Tied
  <2>3. PICK todo \in SUBSET Items : todo = {Item(list, u) : u \in S}
    <3>1. {Item(list, u) : u \in S} \in SUBSET Items
      BY <1>3, <1>4, <2>2, ItemsCopied
    <3> QED BY <3>1
  <2>4. todo = IF cascading THEN {Item(list, u) : u \in Freed(list, agentTaskMap[a])} ELSE {}
    BY <2>1, <2>3
  <2>5. Continue("cascade", list, todo, Reported(a), waiting)
    BY <1>1, <1>6, <2>4 DEF Completed, Heard
  <2>6. OnlyMarks(mid)
    <3>1. list \in [Tasks -> TaskType]
      BY <1>4
    <3> QED BY <1>2, <1>3, <2>5, <3>1, ContinueMarks
  <2> QED BY <1>4, <2>6 DEF OnlyOwn, OnlyMarks
<1> QED BY <1>5, <1>6

\* The end of an agent completes or resets no task but the one the agent was spawned
\* for (the comment in session_start; the listeners), until a session is switched while
\* a handler waits for a reply.
THEOREM ReportsOwnTask == BoardSpec => OnlyOwnTask
<1>1. (~crossed => BoardInv) /\ [BoardNext]_boardVars => [\A a \in Agents : ~crossed => ReportsOwn(a)]_boardVars
  <2> SUFFICES ASSUME BoardInv, BoardNext, NEW a \in Agents,
                      agents[a].phase = "ended", agents'[a].phase \in {"reported", "missed"},
                      NEW s \in Sessions, NEW t \in Tasks,
                      tasks'[s][t].status \in {"completed", "pending"}, tasks'[s][t].status # tasks[s][t].status
               PROVE  s = agents[a].session /\ t = agents[a].task
    BY DEF ReportsOwn
  <2>1. CASE Completed(a)
    BY <2>1, CompletedOwn
  <2>2. CASE Failed(a)
    <3>1. OnlyOwn(a, tasks')
      BY <2>2, FailedRight
    <3> QED BY <3>1 DEF OnlyOwn
  <2> QED BY <2>1, <2>2, ReportsHeard
<1> QED BY <1>1, BoardInvariance, PTL DEF BoardSpec, OnlyOwnTask

-----------------------------------------------------------------------------
(* The cascade.                                                            *)

\* Some task of the session waits for this one.
Needed(s, t) == \E u \in Tasks : t \in Deps[s][u]

\* The tasks that excuse the cascade of their session: set by hand, or asked for with
\* others that do not wait for them.  Such a task may be completed before the last of the
\* call is answered, and until then nothing cascades.
Spoilt == touched \cup mixed

Apart(s, list) == \A i, j \in list : i # j /\ Needed(s, i.task) => i.task \in Deps[s][j.task]

Untouched(s, hand) == \A u \in Tasks : <<s, u>> \notin hand

\* The call that asks for a task will be through with its others before an agent of
\* this one can end: they wait for it.
Starting(s, tk, h) ==
    /\ h.by = "execute"
    /\ Apart(s, h.rest)
    /\ Needed(s, h.item.task) =>
          /\ h.item.was = None
          /\ tk[s][h.item.task].status = "in_progress"
          /\ \A j \in h.rest : h.item.task \in Deps[s][j.task]

\* What holds until cascadeConfig is set: no agent works on a task that others wait
\* for, or ever has, and at most one is being asked for it.
Cold(tk, ags, waits, hand) ==
    \A s \in Sessions : Untouched(s, hand) =>
        /\ \A a \in Agents : ags[a].phase \in Live /\ ags[a].session = s => ~Needed(s, ags[a].task)
        /\ \A t \in Tasks : tk[s][t].agentId # None => ~Needed(s, t)
        /\ \A a \in Agents : waits[a] # None /\ ags[a].session = s => Starting(s, tk, waits[a])
        /\ \A a, b \in Agents :
              /\ waits[a] # None /\ ags[a].session = s /\ waits[b] # None /\ ags[b].session = s
              /\ ags[a].task = ags[b].task /\ Needed(s, ags[a].task)
              => a = b

ReadyIn(s, t, tk, ags, fin) ==
    /\ tk[s][t].status = "pending"
    /\ Deps[s][t] # {} /\ Deps[s][t] \subseteq fin[s]
    /\ \A u \in Deps[s][t] : tk[s][u].status = "completed"
    /\ \A a \in Agents : <<ags[a].session, ags[a].task>> # <<s, t>>

\* A cascade has the task on its list.
Listed(s, t, ags, waits) ==
    \E a \in Agents : /\ waits[a] # None /\ waits[a].by = "cascade" /\ ags[a].session = s
                      /\ \E i \in waits[a].rest : i.task = t

\* Every task that is owed its start is on a list, or on the one a handler goes on with.
Owed(cur, tk, ags, waits, fin, hand, list) ==
    \A s \in Sessions, t \in Tasks :
        ReadyIn(s, t, tk, ags, fin) /\ Untouched(s, hand) =>
            Listed(s, t, ags, waits) \/ (s = cur /\ \E i \in list : i.task = t)

CascadeInv ==
    /\ cascading \in BOOLEAN /\ finished \in [Sessions -> SUBSET Tasks]
    /\ cascading \/ Cold(tasks, agents, waiting, Spoilt)
    /\ Owed(current, tasks, agents, waiting, finished, Spoilt, {})

\* The agents that are asked for, and the handlers that wait for them.
Served(ags, waits) ==
    /\ ags \in [Agents -> AgentType] /\ waits \in [Agents -> Handlers \cup {None}]
    /\ \A a \in Agents :
          /\ ags[a].phase = "none" => waits[a] = None /\ ags[a].session = None
          /\ waits[a] # None => ags[a].session = current /\ ags[a].task = waits[a].item.task

\* The agents do not change what they are for, none starts to work, and some handlers
\* have their reply.
LEMMA StillServed ==
    ASSUME BoardInv, NEW ags \in [Agents -> AgentType], NEW waits \in [Agents -> Handlers \cup {None}],
           \A a \in Agents : /\ ags[a].session = agents[a].session /\ ags[a].task = agents[a].task
                             /\ ags[a].phase = "none" => agents[a].phase = "none"
                             /\ waits[a] \in {waiting[a], None}
    PROVE  Served(ags, waits)
  BY DEF BoardInv, Right, Tied, Served

\* A handler that goes on with tasks starts them or keeps them on its list.
LEMMA ContinueOwed ==
    ASSUME NEW by \in {"execute", "cascade"}, NEW list \in [Tasks -> TaskType], NEW todo \in SUBSET Items,
           NEW ags, NEW waits, NEW fin, NEW hand, NEW owed, Served(ags, waits),
           current \in Sessions, tasks \in [Sessions -> [Tasks -> TaskType]],
           \A i \in todo : i.from = current,
           Owed(current, [tasks EXCEPT ![current] = list], ags, waits, fin, hand, owed),
           owed = IF by = "cascade" THEN todo ELSE {},
           Continue(by, list, todo, ags, waits)
    PROVE  Owed(current, tasks', agents', waiting', fin, hand, {})
<1> DEFINE mid == [tasks EXCEPT ![current] = list]
<1>1. mid[current] = list /\ \A s \in Sessions \ {current} : mid[s] = tasks[s]
  OBVIOUS
<1>6. Served(ags, waits)
  OBVIOUS
<1>5. Owed(current, mid, ags, waits, fin, hand, owed)
  OBVIOUS
<1>2. CASE Through(by, list, todo, ags, waits)
  <2>1. owed = {}
    BY <1>2 DEF Through, Startable
  <2> QED BY <1>2, <2>1 DEF Through
<1>3. ASSUME NEW i \in Startable(by, list, todo), NEW a \in Agents, NEW phase \in {"asked", "unheard"},
             NEW rest \in SUBSET (todo \ {i}), NEW item,
             Asks(by, list, todo, ags, waits, i, a, phase, rest, item)
      PROVE  Owed(current, tasks', agents', waiting', fin, hand, {})
  <2>1. i \in todo /\ i.task \in Tasks
    BY DEF Startable, Items
  <2>2. item.task = i.task /\ item.from = current /\ item \in Items
    <3>1. CASE by = "cascade"
      BY <1>3, <2>1, <3>1 DEF Asks, Renewed
    <3>2. CASE by # "cascade"
      BY <1>3, <2>1, <3>2 DEF Asks, Renewed, Item, Items, TaskType
    <3> QED BY <3>1, <3>2
  <2>3. PICK h \in Handlers : h = [by |-> by, item |-> item, rest |-> rest]
    <3>1. [by |-> by, item |-> item, rest |-> rest] \in Handlers
      BY <2>2 DEF Handlers
    <3> QED BY <3>1
  <2>4. h # None /\ h.by = by /\ h.rest = rest
    BY <2>3, NoneIsNoHandler
  <2>5. /\ waiting' \in [Agents -> Handlers \cup {None}] /\ waiting'[a] = h
        /\ \A x \in Agents \ {a} : waiting'[x] = waits[x]
    BY <1>3, <1>6, <2>3 DEF Asks, Served
  <2>6. /\ agents'[a].session = current /\ agents'[a].task = i.task
        /\ \A x \in Agents \ {a} : agents'[x] = ags[x]
        /\ waits[a] = None
    BY <1>3, <1>6, <2>2 DEF Asks, Served
  <2>7. PICK marked \in [Tasks -> TaskType] :
          /\ marked = WithStatus(list, i.task, "in_progress")
          /\ \A u \in Tasks \ {i.task} : marked[u] = list[u]
          /\ marked[i.task].status \in {"none", "in_progress"}
    <3>1. /\ WithStatus(list, i.task, "in_progress") \in [Tasks -> TaskType]
          /\ \A u \in Tasks \ {i.task} : WithStatus(list, i.task, "in_progress")[u] = list[u]
          /\ WithStatus(list, i.task, "in_progress")[i.task].status \in {"none", "in_progress"}
      BY <2>1, StatusWritten DEF Statuses
    <3> QED BY <3>1
  <2>8. tasks' = [tasks EXCEPT ![current] = marked]
    BY <1>3, <2>7 DEF Asks
  <2>9. \A s \in Sessions, t \in Tasks :
          \/ tasks'[s][t] = mid[s][t]
          \/ s = current /\ t = i.task /\ tasks'[s][t].status \in {"none", "in_progress"}
    BY <1>1, <2>7, <2>8
  <2> HIDE DEF mid
  <2> SUFFICES ASSUME NEW s \in Sessions, NEW t \in Tasks,
                      ReadyIn(s, t, tasks', agents', fin), Untouched(s, hand)
               PROVE  Listed(s, t, agents', waiting')
    BY DEF Owed
  <2>10. ~(s = current /\ t = i.task)
    BY <2>6 DEF ReadyIn
  <2>11. ReadyIn(s, t, mid, ags, fin)
    <3>1. Deps[s][t] \subseteq Tasks
      BY TaskBoardAssumption
    <3>2. tasks'[s][t] = mid[s][t] /\ \A u \in Deps[s][t] : tasks'[s][u] = mid[s][u]
      BY <2>9, <2>10, <3>1 DEF ReadyIn
    <3>3. \A x \in Agents : <<ags[x].session, ags[x].task>> # <<s, t>>
      BY <1>3, <1>6, <2>6, TaskBoardAssumption DEF ReadyIn, Asks, Served
    <3>4. Deps[s][t] # {} /\ Deps[s][t] \subseteq fin[s] /\ tasks'[s][t].status = "pending"
          /\ \A u \in Deps[s][t] : tasks'[s][u].status = "completed"
      BY DEF ReadyIn
    <3> QED BY <3>2, <3>3, <3>4 DEF ReadyIn
  <2>12. Listed(s, t, ags, waits) \/ (s = current /\ \E j \in owed : j.task = t)
    BY <1>5, <2>11 DEF Owed
  <2>13. CASE Listed(s, t, ags, waits)
    <3>1. PICK x \in Agents : /\ waits[x] # None /\ waits[x].by = "cascade" /\ ags[x].session = s
                              /\ \E j \in waits[x].rest : j.task = t
      BY <2>13 DEF Listed
    <3>2. x # a
      BY <2>6, <3>1
    <3> QED BY <2>5, <2>6, <3>1, <3>2 DEF Listed
  <2>14. CASE s = current /\ \E j \in owed : j.task = t
    <3>1. PICK j \in owed : j.task = t
      BY <2>14
    <3>2. by = "cascade" /\ j \in todo /\ j # i
      BY <2>10, <2>14, <3>1
    <3>3. j \in rest
      BY <1>3, <3>2 DEF Asks, Startable
    <3> QED BY <2>4, <2>5, <2>6, <2>14, <3>1, <3>2, <3>3 DEF Listed
  <2> QED BY <2>12, <2>13, <2>14
<1>4. ASSUME ~Through(by, list, todo, ags, waits)
      PROVE  Owed(current, tasks', agents', waiting', fin, hand, {})
  <2>1. PICK i \in Startable(by, list, todo), a \in Agents, phase \in {"asked", "unheard"} :
             \E rest \in SUBSET (todo \ {i}) : \E item : Asks(by, list, todo, ags, waits, i, a, phase, rest, item)
    BY <1>4, ContinueFacts
  <2>2. PICK rest \in SUBSET (todo \ {i}) : \E item : Asks(by, list, todo, ags, waits, i, a, phase, rest, item)
    BY <2>1
  <2>3. PICK item : Asks(by, list, todo, ags, waits, i, a, phase, rest, item)
    BY <2>2
  <2> QED BY <1>3, <2>3
<1> QED BY <1>2, <1>4

\* Going on with tasks does not unset cascadeConfig, and until it is set nobody works
\* on a task that others wait for.
LEMMA ContinueCold ==
    ASSUME NEW by \in {"execute", "cascade"}, NEW list \in [Tasks -> TaskType], NEW todo \in SUBSET Items,
           NEW ags, NEW waits, NEW hand, Served(ags, waits),
           current \in Sessions, tasks \in [Sessions -> [Tasks -> TaskType]],
           \A i \in todo : i.from = current,
           NEW mid, mid = [tasks EXCEPT ![current] = list],
           Cold(mid, ags, waits, hand),
           Untouched(current, hand) => (by = "execute" \/ todo = {}) /\ Apart(current, todo),
           Continue(by, list, todo, ags, waits)
    PROVE  Cold(tasks', agents', waiting', hand)
<1>1. mid[current] = list /\ \A s \in Sessions \ {current} : mid[s] = tasks[s]
  OBVIOUS
<1>2. CASE Through(by, list, todo, ags, waits)
  BY <1>2 DEF Through
<1>3. ASSUME NEW i \in Startable(by, list, todo), NEW a \in Agents, NEW phase \in {"asked", "unheard"},
             NEW rest \in SUBSET (todo \ {i}), NEW item,
             Asks(by, list, todo, ags, waits, i, a, phase, rest, item)
      PROVE  Cold(tasks', agents', waiting', hand)
  <2> SUFFICES ASSUME NEW s \in Sessions, Untouched(s, hand)
               PROVE  /\ \A x \in Agents : agents'[x].phase \in Live /\ agents'[x].session = s => ~Needed(s, agents'[x].task)
                      /\ \A t \in Tasks : tasks'[s][t].agentId # None => ~Needed(s, t)
                      /\ \A x \in Agents : waiting'[x] # None /\ agents'[x].session = s => Starting(s, tasks', waiting'[x])
                      /\ \A x, y \in Agents :
                           /\ waiting'[x] # None /\ agents'[x].session = s /\ waiting'[y] # None /\ agents'[y].session = s
                           /\ agents'[x].task = agents'[y].task /\ Needed(s, agents'[x].task)
                           => x = y
    BY DEF Cold
  <2>0. /\ \A x \in Agents : ags[x].phase \in Live /\ ags[x].session = s => ~Needed(s, ags[x].task)
        /\ \A t \in Tasks : mid[s][t].agentId # None => ~Needed(s, t)
        /\ \A x \in Agents : waits[x] # None /\ ags[x].session = s => Starting(s, mid, waits[x])
        /\ \A x, y \in Agents :
             /\ waits[x] # None /\ ags[x].session = s /\ waits[y] # None /\ ags[y].session = s
             /\ ags[x].task = ags[y].task /\ Needed(s, ags[x].task)
             => x = y
    BY DEF Cold
  <2>1. i \in todo /\ i.task \in Tasks
    BY DEF Startable, Items
  <2>2. /\ item.task = i.task /\ item.from = current /\ item \in Items
        /\ by = "execute" => item.was = list[i.task].agentId
    <3>1. CASE by = "cascade"
      BY <1>3, <2>1, <3>1 DEF Asks, Renewed
    <3>2. CASE by # "cascade"
      BY <1>3, <2>1, <3>2 DEF Asks, Renewed, Item, Items, TaskType
    <3> QED BY <3>1, <3>2
  <2>3. PICK h \in Handlers : h = [by |-> by, item |-> item, rest |-> rest]
    <3>1. [by |-> by, item |-> item, rest |-> rest] \in Handlers
      BY <2>2 DEF Handlers
    <3> QED BY <3>1
  <2>4. h # None /\ h.by = by /\ h.rest = rest /\ h.item = item
    BY <2>3, NoneIsNoHandler
  <2>5. /\ waiting' \in [Agents -> Handlers \cup {None}] /\ waiting'[a] = h
        /\ \A x \in Agents \ {a} : waiting'[x] = waits[x]
    BY <1>3, <2>3 DEF Asks, Served
  <2>6. /\ agents'[a].session = current /\ agents'[a].task = i.task /\ agents'[a].phase \notin Live
        /\ \A x \in Agents \ {a} : agents'[x] = ags[x]
    BY <1>3, <2>2 DEF Asks, Served, Live
  <2>7. PICK marked \in [Tasks -> TaskType] :
          /\ marked = WithStatus(list, i.task, "in_progress")
          /\ \A u \in Tasks : marked[u].agentId = list[u].agentId
          /\ \A u \in Tasks \ {i.task} : marked[u] = list[u]
          /\ marked[i.task].status = IF list[i.task].status = "none" THEN "none" ELSE "in_progress"
    <3>1. PICK st \in Statuses : st = "in_progress"
      BY DEF Statuses
    <3>2. PICK t \in Tasks : t = i.task
      BY <2>1
    <3>3. /\ WithStatus(list, t, st) \in [Tasks -> TaskType]
          /\ \A u \in Tasks : WithStatus(list, t, st)[u].agentId = list[u].agentId
          /\ \A u \in Tasks \ {t} : WithStatus(list, t, st)[u] = list[u]
          /\ WithStatus(list, t, st)[t].status = IF list[t].status = "none" THEN "none" ELSE st
      BY StatusWritten
    <3> QED BY <3>1, <3>2, <3>3
  <2>8. tasks' = [tasks EXCEPT ![current] = marked]
    BY <1>3, <2>7 DEF Asks
  <2>9. /\ \A t \in Tasks : tasks'[s][t].agentId = mid[s][t].agentId
        /\ \A t \in Tasks : mid[s][t].status = "in_progress" => tasks'[s][t].status = "in_progress"
    BY <1>1, <2>7, <2>8
  <2>10. s = current => /\ by = "execute" /\ Apart(s, todo) /\ list[i.task].status = "pending"
                        /\ tasks'[s][i.task].status = "in_progress"
    BY <2>1, <2>7, <2>8 DEF Startable
  <2>11. \A x \in Agents : waits[x] # None /\ ags[x].session = s =>
            /\ waits[x].item.task \in Tasks /\ ags[x].task = waits[x].item.task
            /\ Starting(s, tasks', waits[x])
    <3> TAKE x \in Agents
    <3> HAVE waits[x] # None /\ ags[x].session = s
    <3>1. waits[x] \in Handlers /\ ags[x].task = waits[x].item.task
      BY DEF Served
    <3>2. waits[x].item.task \in Tasks
      BY <3>1 DEF Handlers, Items
    <3> QED BY <2>0, <2>9, <3>1, <3>2 DEF Starting
  <2>12. s = current => \A x \in Agents : waits[x] # None /\ ags[x].session = s /\ Needed(s, i.task) => ags[x].task # i.task
    BY <1>1, <2>0, <2>10, <2>11 DEF Starting
  <2>13. s = current => Starting(s, tasks', h)
    <3> SUFFICES ASSUME s = current PROVE Starting(s, tasks', h)
      OBVIOUS
    <3>1. h.by = "execute" /\ Apart(s, h.rest)
      BY <2>4, <2>10 DEF Apart
    <3>2. ASSUME Needed(s, h.item.task)
          PROVE  /\ h.item.was = None
                 /\ tasks'[s][h.item.task].status = "in_progress"
                 /\ \A j \in h.rest : h.item.task \in Deps[s][j.task]
      <4>1. h.item.was = None
        BY <1>1, <2>0, <2>1, <2>2, <2>4, <2>10, <3>2
      <4>2. \A j \in h.rest : h.item.task \in Deps[s][j.task]
        BY <2>1, <2>2, <2>4, <2>10, <3>2 DEF Apart
      <4> QED BY <2>2, <2>4, <2>10, <4>1, <4>2
    <3> QED BY <3>1, <3>2 DEF Starting
  <2>14. \A x \in Agents : agents'[x].phase \in Live /\ agents'[x].session = s => ~Needed(s, agents'[x].task)
    BY <2>0, <2>6
  <2>15. \A t \in Tasks : tasks'[s][t].agentId # None => ~Needed(s, t)
    BY <2>0, <2>9
  <2>16. \A x \in Agents : waiting'[x] # None /\ agents'[x].session = s => Starting(s, tasks', waiting'[x])
    BY <2>5, <2>6, <2>11, <2>13
  <2>17. ASSUME NEW x \in Agents, NEW y \in Agents,
                waiting'[x] # None, agents'[x].session = s, waiting'[y] # None, agents'[y].session = s,
                agents'[x].task = agents'[y].task, Needed(s, agents'[x].task)
         PROVE  x = y
    BY <2>0, <2>5, <2>6, <2>12, <2>17
  <2> QED BY <2>14, <2>15, <2>16, <2>17
<1>4. ASSUME ~Through(by, list, todo, ags, waits)
      PROVE  Cold(tasks', agents', waiting', hand)
  <2>1. PICK i \in Startable(by, list, todo), a \in Agents, phase \in {"asked", "unheard"} :
             \E rest \in SUBSET (todo \ {i}) : \E item : Asks(by, list, todo, ags, waits, i, a, phase, rest, item)
    BY <1>4, ContinueFacts
  <2>2. PICK rest \in SUBSET (todo \ {i}) : \E item : Asks(by, list, todo, ags, waits, i, a, phase, rest, item)
    BY <2>1
  <2>3. PICK item : Asks(by, list, todo, ags, waits, i, a, phase, rest, item)
    BY <2>2
  <2> QED BY <1>3, <2>3
<1> QED BY <1>2, <1>4

\* cascadeConfig is not unset.
LEMMA ContinueCascading ==
    ASSUME cascading \in BOOLEAN, NEW by, NEW list, NEW todo, NEW ags, NEW waits,
           Continue(by, list, todo, ags, waits)
    PROVE  cascading' \in BOOLEAN /\ (cascading => cascading')
  BY ContinueFacts DEF Through, Asks

\* TaskExecute: the tasks of the call keep out of one another's way, or they spoil the
\* session.
LEMMA ExecuteCascade ==
    ASSUME BoardInv, CascadeInv, NEW B \in Batches, TaskExecute(B)
    PROVE  CascadeInv'
<1>1. /\ current \in Sessions /\ tasks \in [Sessions -> [Tasks -> TaskType]]
      /\ agents \in [Agents -> AgentType] /\ waiting \in [Agents -> Handlers \cup {None}]
      /\ \A t \in Tasks : Belongs(Here[t].agentId, current, t, agents)
  BY DEF BoardInv, Right, Typed, Tied, Here
<1>2. PICK list \in [Tasks -> TaskType] : list = Here
  BY <1>1 DEF Here
<1>3. PICK mid : mid = [tasks EXCEPT ![current] = list]
  OBVIOUS
<1>4. mid = tasks
  BY <1>1, <1>2, <1>3 DEF Here
<1>5. B \in SUBSET Tasks
  BY TaskBoardAssumption
<1>6. PICK todo \in SUBSET Items :
        todo = {Item(list, t) : t \in B} /\ \A i \in todo : Copied(i, current, agents)
  <2>1. /\ {Item(list, t) : t \in B} \in SUBSET Items
        /\ \A i \in {Item(list, t) : t \in B} : Copied(i, current, agents)
    BY <1>1, <1>2, <1>5, ItemsCopied
  <2> QED BY <2>1
<1>7. \A i \in todo : i.from = current
  BY <1>6 DEF Copied
<1>14. PICK hand : hand = Spoilt'
  OBVIOUS
<1>15. Spoilt \subseteq hand /\ \A t \in Mixed(B) : <<current, t>> \in hand
  BY <1>14 DEF TaskExecute, Spoilt
<1>8. Untouched(current, hand) => Apart(current, todo)
  <2> SUFFICES ASSUME Untouched(current, hand), NEW i \in todo, NEW j \in todo, i # j, Needed(current, i.task)
               PROVE  i.task \in Deps[current][j.task]
    BY DEF Apart
  <2>1. PICK t \in B, u \in B : i = Item(list, t) /\ j = Item(list, u)
    BY <1>6
  <2>2. t # u /\ i.task = t /\ j.task = u /\ t \in Tasks
    BY <1>5, <2>1 DEF Item
  <2>3. t \notin Mixed(B)
    BY <1>15, <2>2 DEF Untouched
  <2> QED BY <2>2, <2>3 DEF Mixed, Needed
<1>9. Continue("execute", list, todo, agents, waiting) /\ UNCHANGED <<current, finished>>
  BY <1>2, <1>6 DEF TaskExecute
<1>16. \A s \in Sessions : Untouched(s, hand) => Untouched(s, Spoilt)
  BY <1>15 DEF Untouched
<1>10. Served(agents, waiting)
  BY <1>1, StillServed
<1>11. Owed(current, tasks', agents', waiting', finished, hand, {})
  <2>1. PICK owed : owed = {}
    OBVIOUS
  <2>2. Owed(current, [tasks EXCEPT ![current] = list], agents, waiting, finished, hand, owed)
    BY <1>3, <1>4, <1>16, <2>1 DEF CascadeInv, Owed
  <2>3. owed = IF "execute" = "cascade" THEN todo ELSE {}
    BY <2>1
  <2> QED BY <1>1, <1>7, <1>9, <1>10, <2>2, <2>3, ContinueOwed
<1>12. cascading' \in BOOLEAN /\ (cascading => cascading')
  BY <1>9, ContinueCascading DEF CascadeInv
<1>13. cascading' \/ Cold(tasks', agents', waiting', hand)
  <2>1. SUFFICES ASSUME ~cascading' PROVE Cold(tasks', agents', waiting', hand)
    OBVIOUS
  <2>2. Cold(mid, agents, waiting, hand)
    BY <1>4, <1>12, <1>16, <2>1 DEF CascadeInv, Cold
  <2> QED BY <1>1, <1>3, <1>7, <1>8, <1>9, <1>10, <2>2, ContinueCold
<1>17. finished \in [Sessions -> SUBSET Tasks] /\ current' = current /\ finished' = finished
  BY <1>9 DEF CascadeInv
<1> QED BY <1>11, <1>12, <1>13, <1>14, <1>17 DEF CascadeInv

\* A reply, whatever it says: the tasks of the handler's list are those it goes on
\* with, and the task asked for is not owed a start.
LEMMA ReplyOwed ==
    ASSUME BoardInv, Owed(current, tasks, agents, waiting, finished, Spoilt, {}),
           NEW a \in Agents, waiting[a] # None,
           NEW t \in Tasks, t = waiting[a].item.task,
           NEW list \in [Tasks -> TaskType], \A u \in Tasks \ {t} : list[u] = Here[u],
           list[t].status = "completed" => Here[t].status = "completed",
           NEW phase \in {"queued", "running", "failed"},
           NEW mid, mid = [tasks EXCEPT ![current] = list],
           NEW owed, owed = IF waiting[a].by = "cascade" THEN waiting[a].rest ELSE {}
    PROVE  Owed(current, mid, Phase(a, phase), Answered(a), finished, Spoilt, owed)
<1> DEFINE ags == Phase(a, phase)
           waits == Answered(a)
<1>1. /\ current \in Sessions /\ tasks \in [Sessions -> [Tasks -> TaskType]]
      /\ agents \in [Agents -> AgentType] /\ waiting \in [Agents -> Handlers \cup {None}]
      /\ agents[a].session = current /\ agents[a].task = t
  BY DEF BoardInv, Right, Typed, Tied
<1>2. \A x \in Agents : ags[x].session = agents[x].session /\ ags[x].task = agents[x].task
  BY <1>1 DEF Phase, AgentType
<1>3. \A x \in Agents \ {a} : waits[x] = waiting[x]
  BY <1>1 DEF Answered
<1>4. /\ \A s \in Sessions, u \in Tasks : <<s, u>> # <<current, t>> => mid[s][u] = tasks[s][u]
      /\ mid[current][t] = list[t] /\ tasks[current][t] = Here[t]
  BY <1>1 DEF Here
<1> HIDE DEF ags, waits
<1> SUFFICES ASSUME NEW s \in Sessions, NEW u \in Tasks,
                    ReadyIn(s, u, mid, ags, finished), Untouched(s, Spoilt)
             PROVE  Listed(s, u, ags, waits) \/ (s = current /\ \E i \in owed : i.task = u)
  BY DEF Owed, ags, waits
<1>5. <<s, u>> # <<current, t>>
  BY <1>1, <1>2 DEF ReadyIn
<1>6. ReadyIn(s, u, tasks, agents, finished)
  <2>1. Deps[s][u] \subseteq Tasks
    BY TaskBoardAssumption
  <2>2. \A v \in Deps[s][u] : tasks[s][v].status = "completed"
    BY <1>4, <2>1 DEF ReadyIn
  <2> QED BY <1>2, <1>4, <1>5, <2>2 DEF ReadyIn
<1>7. PICK x \in Agents : /\ waiting[x] # None /\ waiting[x].by = "cascade" /\ agents[x].session = s
                          /\ \E i \in waiting[x].rest : i.task = u
  BY <1>6 DEF Owed, Listed
<1>8. CASE x = a
  BY <1>1, <1>7, <1>8
<1>9. CASE x # a
  BY <1>2, <1>3, <1>7, <1>9 DEF Listed
<1> QED BY <1>8, <1>9

\* A reply before cascadeConfig is set: if others wait for the task, it has no agent.
LEMMA ReplyCold ==
    ASSUME BoardInv, Cold(tasks, agents, waiting, Spoilt),
           NEW a \in Agents, waiting[a] # None,
           NEW t \in Tasks, t = waiting[a].item.task,
           NEW list \in [Tasks -> TaskType], \A u \in Tasks \ {t} : list[u] = Here[u],
           NEW phase \in {"queued", "running", "failed"},
           Untouched(current, Spoilt) /\ Needed(current, t) => list[t].agentId = None /\ phase = "failed",
           NEW mid, mid = [tasks EXCEPT ![current] = list]
    PROVE  Cold(mid, Phase(a, phase), Answered(a), Spoilt)
<1> DEFINE ags == Phase(a, phase)
           waits == Answered(a)
<1>1. /\ current \in Sessions /\ tasks \in [Sessions -> [Tasks -> TaskType]]
      /\ agents \in [Agents -> AgentType] /\ waiting \in [Agents -> Handlers \cup {None}]
      /\ agents[a].session = current /\ agents[a].task = t
      /\ \A x \in Agents : waiting[x] # None => agents[x].session = current /\ agents[x].task = waiting[x].item.task
  BY DEF BoardInv, Right, Typed, Tied
<1>2. /\ \A x \in Agents : ags[x].session = agents[x].session /\ ags[x].task = agents[x].task
      /\ \A x \in Agents \ {a} : ags[x] = agents[x]
      /\ ags[a].phase = phase
  BY <1>1 DEF Phase, AgentType
<1>3. /\ \A x \in Agents \ {a} : waits[x] = waiting[x]
      /\ waits[a] = None
  BY <1>1 DEF Answered
<1>4. /\ \A s \in Sessions, u \in Tasks : <<s, u>> # <<current, t>> => mid[s][u] = tasks[s][u]
      /\ mid[current][t] = list[t] /\ tasks[current][t] = Here[t]
  BY <1>1 DEF Here
<1> HIDE DEF ags, waits
<1>5. ASSUME NEW s \in Sessions, Untouched(s, Spoilt)
      PROVE  /\ \A x \in Agents : ags[x].phase \in Live /\ ags[x].session = s => ~Needed(s, ags[x].task)
             /\ \A u \in Tasks : mid[s][u].agentId # None => ~Needed(s, u)
             /\ \A x \in Agents : waits[x] # None /\ ags[x].session = s => Starting(s, mid, waits[x])
             /\ \A x, y \in Agents :
                  /\ waits[x] # None /\ ags[x].session = s /\ waits[y] # None /\ ags[y].session = s
                  /\ ags[x].task = ags[y].task /\ Needed(s, ags[x].task)
                  => x = y
  <2>0. /\ \A x \in Agents : agents[x].phase \in Live /\ agents[x].session = s => ~Needed(s, agents[x].task)
        /\ \A u \in Tasks : tasks[s][u].agentId # None => ~Needed(s, u)
        /\ \A x \in Agents : waiting[x] # None /\ agents[x].session = s => Starting(s, tasks, waiting[x])
        /\ \A x, y \in Agents :
             /\ waiting[x] # None /\ agents[x].session = s /\ waiting[y] # None /\ agents[y].session = s
             /\ agents[x].task = agents[y].task /\ Needed(s, agents[x].task)
             => x = y
    BY <1>5 DEF Cold
  <2>1. \A x \in Agents : ags[x].phase \in Live /\ ags[x].session = s => ~Needed(s, ags[x].task)
    BY <1>1, <1>2, <1>5, <2>0 DEF Live
  <2>2. \A u \in Tasks : mid[s][u].agentId # None => ~Needed(s, u)
    BY <1>4, <1>5, <2>0
  <2>3. ASSUME NEW x \in Agents, waits[x] # None, ags[x].session = s
        PROVE  Starting(s, mid, waits[x])
    <3>1. x # a /\ waits[x] = waiting[x] /\ waiting[x] \in Handlers /\ agents[x].session = s
          /\ agents[x].task = waits[x].item.task
      BY <1>1, <1>2, <1>3, <2>3
    <3>2. Starting(s, tasks, waits[x])
      BY <2>0, <2>3, <3>1
    <3>3. waits[x].item.task \in Tasks
      BY <3>1 DEF Handlers, Items
    <3>4. ASSUME Needed(s, waits[x].item.task) PROVE mid[s][waits[x].item.task] = tasks[s][waits[x].item.task]
      <4>1. <<s, waits[x].item.task>> # <<current, t>>
        BY <1>1, <2>0, <2>3, <3>1, <3>4
      <4> QED BY <1>4, <3>3, <4>1
    <3> QED BY <3>2, <3>4 DEF Starting
  <2>4. ASSUME NEW x \in Agents, NEW y \in Agents,
               waits[x] # None, ags[x].session = s, waits[y] # None, ags[y].session = s,
               ags[x].task = ags[y].task, Needed(s, ags[x].task)
        PROVE  x = y
    BY <1>2, <1>3, <2>0, <2>4
  <2> QED BY <2>1, <2>2, <2>3, <2>4
<1>6. Cold(mid, ags, waits, Spoilt)
  BY <1>5 DEF Cold
<1> QED BY <1>6 DEF ags, waits

\* The handler that waits for a reply goes on with the tasks of its list.
LEMMA HandlerGoesOn ==
    ASSUME BoardInv, NEW a \in Agents, waiting[a] # None, NEW phase \in {"queued", "running", "failed"},
           CascadeInv,
           NEW t \in Tasks, t = waiting[a].item.task,
           NEW list \in [Tasks -> TaskType], \A u \in Tasks \ {t} : list[u] = Here[u],
           list[t].status = "completed" => Here[t].status = "completed",
           Continue(waiting[a].by, list, waiting[a].rest, Phase(a, phase), Answered(a)),
           ~cascading' /\ Untouched(current, Spoilt) /\ Needed(current, t) => list[t].agentId = None /\ phase = "failed",
           UNCHANGED <<current, Spoilt, finished>>
    PROVE  CascadeInv'
<1>1. /\ current \in Sessions /\ tasks \in [Sessions -> [Tasks -> TaskType]]
      /\ agents \in [Agents -> AgentType] /\ waiting \in [Agents -> Handlers \cup {None}]
      /\ waiting[a] \in Handlers
      /\ agents[a].session = current /\ \A i \in waiting[a].rest : Copied(i, current, agents)
  BY DEF BoardInv, Right, Typed, Tied
<1>2. waiting[a].rest \in SUBSET Items /\ waiting[a].by \in {"execute", "cascade"}
      /\ \A i \in waiting[a].rest : i.from = current
  BY <1>1 DEF Handlers, Copied
<1>3. PICK mid : mid = [tasks EXCEPT ![current] = list]
  OBVIOUS
<1>4. Served(Phase(a, phase), Answered(a))
  <2>1. Phase(a, phase) \in [Agents -> AgentType] /\ Answered(a) \in [Agents -> Handlers \cup {None}]
    BY <1>1, ZenonT(40) DEF Phase, Answered, AgentType, Phases
  <2>2. \A x \in Agents : /\ Phase(a, phase)[x].session = agents[x].session /\ Phase(a, phase)[x].task = agents[x].task
                          /\ Phase(a, phase)[x].phase = "none" => agents[x].phase = "none"
                          /\ Answered(a)[x] \in {waiting[x], None}
    BY <1>1 DEF Phase, Answered, AgentType
  <2> QED BY <2>1, <2>2, StillServed
<1>5. PICK owed : owed = IF waiting[a].by = "cascade" THEN waiting[a].rest ELSE {}
  OBVIOUS
<1>6. Owed(current, tasks', agents', waiting', finished, Spoilt, {})
  <2>1. Owed(current, mid, Phase(a, phase), Answered(a), finished, Spoilt, owed)
    BY <1>3, <1>5, ReplyOwed DEF CascadeInv
  <2>2. Owed(current, [tasks EXCEPT ![current] = list], Phase(a, phase), Answered(a), finished, Spoilt, owed)
    BY <1>3, <2>1
  <2> QED BY <1>1, <1>2, <1>4, <1>5, <2>2, ContinueOwed
<1>7. cascading' \in BOOLEAN /\ (cascading => cascading')
  BY ContinueCascading DEF CascadeInv
<1>8. ASSUME ~cascading' PROVE Cold(tasks', agents', waiting', Spoilt)
  <2>1. Cold(tasks, agents, waiting, Spoilt)
    BY <1>7, <1>8 DEF CascadeInv
  <2>2. Cold(mid, Phase(a, phase), Answered(a), Spoilt)
    BY <1>3, <1>8, <2>1, ReplyCold
  <2>3. Untouched(current, Spoilt) =>
          (waiting[a].by = "execute" \/ waiting[a].rest = {}) /\ Apart(current, waiting[a].rest)
    BY <1>1, <2>1 DEF Cold, Starting
  <2> QED BY <1>1, <1>2, <1>3, <1>4, <2>2, <2>3, ContinueCold
<1> QED BY <1>6, <1>7, <1>8 DEF CascadeInv

LEMMA SpawnReplyCascade ==
    ASSUME BoardInv, CascadeInv, NEW a \in Agents, NEW phase \in {"queued", "running"}, SpawnReply(a, phase)
    PROVE  CascadeInv'
<1>1. /\ Typed(current, tasks, agentTaskMap, agents, waiting) /\ Tied(current, tasks, agentTaskMap, agents, waiting)
      /\ agents[a].phase = "asked"
  BY DEF BoardInv, Right, SpawnReply, Spoilt, excuses
<1>2. waiting[a] # None /\ waiting[a] \in Handlers /\ agents[a].session = current
  BY <1>1 DEF Typed, Tied
<1>3. PICK t \in Tasks : t = waiting[a].item.task
  BY <1>2 DEF Handlers, Items
<1>4. Here \in [Tasks -> TaskType] /\ current \in Sessions
  BY <1>1 DEF Typed, Here
<1>5. PICK list \in [Tasks -> TaskType] :
        /\ list = Linked(Here, t, a)
        /\ \A u \in Tasks \ {t} : list[u] = Here[u]
        /\ list[t].status = Here[t].status
  BY <1>4, AgentLinked
<1>6. /\ Continue(waiting[a].by, list, waiting[a].rest, Phase(a, phase), Answered(a))
      /\ UNCHANGED <<current, Spoilt, finished>>
  BY <1>3, <1>5 DEF SpawnReply, Spoilt, excuses
<1>7. ASSUME ~cascading', Untouched(current, Spoilt), Needed(current, t)
      PROVE  FALSE
  <2>1. Cold(tasks, agents, waiting, Spoilt)
    BY <1>6, <1>7, ContinueCascading DEF CascadeInv
  <2>2. Starting(current, tasks, waiting[a])
    BY <1>2, <1>4, <1>7, <2>1 DEF Cold
  <2>3. /\ waiting[a].by = "execute" /\ list[t].status = "in_progress"
        /\ \A j \in waiting[a].rest : t \in Deps[current][j.task]
    BY <1>3, <1>5, <1>7, <2>2 DEF Starting, Here
  <2>4. Startable("execute", list, waiting[a].rest) = {}
    BY <2>3 DEF Startable, Unblocked, Done
  <2>5. cascading'
    BY <1>6, <2>3, <2>4 DEF Continue
  <2> QED BY <1>7, <2>5
<1>8. phase \in {"queued", "running", "failed"}
  OBVIOUS
<1> QED BY <1>2, <1>3, <1>5, <1>6, <1>7, <1>8, HandlerGoesOn

LEMMA SpawnFailsCascade ==
    ASSUME BoardInv, CascadeInv, NEW a \in Agents, SpawnFails(a)
    PROVE  CascadeInv'
<1>1. /\ Typed(current, tasks, agentTaskMap, agents, waiting) /\ Tied(current, tasks, agentTaskMap, agents, waiting)
      /\ agents[a].phase \in {"asked", "unheard"}
  BY DEF BoardInv, Right, SpawnFails, Fails, Spoilt, excuses
<1>2. waiting[a] # None /\ waiting[a] \in Handlers /\ agents[a].session = current
  BY <1>1 DEF Typed, Tied
<1>3. PICK t \in Tasks : t = waiting[a].item.task
  BY <1>2 DEF Handlers, Items
<1>4. Here \in [Tasks -> TaskType] /\ current \in Sessions /\ waiting[a].item.was \in Agents \cup {None}
  BY <1>1, <1>2 DEF Typed, Here, Handlers, Items
<1>5. PICK put \in [Tasks -> TaskType] :
        /\ put = WithStatus(Here, t, "pending")
        /\ put[t].agentId = Here[t].agentId /\ put[t].status # "completed"
        /\ \A u \in Tasks \ {t} : put[u] = Here[u]
  <2>1. PICK st \in Statuses : st = "pending"
    BY DEF Statuses
  <2>2. /\ WithStatus(Here, t, st) \in [Tasks -> TaskType]
        /\ \A u \in Tasks : WithStatus(Here, t, st)[u].agentId = Here[u].agentId
        /\ \A u \in Tasks \ {t} : WithStatus(Here, t, st)[u] = Here[u]
        /\ WithStatus(Here, t, st)[t].status = IF Here[t].status = "none" THEN "none" ELSE st
    BY <1>4, StatusWritten
  <2> QED BY <2>1, <2>2
<1>6. PICK list \in [Tasks -> TaskType] :
        /\ list = Reverted(waiting[a])
        /\ list[t].agentId \in {Here[t].agentId, waiting[a].item.was} /\ list[t].status # "completed"
        /\ \A u \in Tasks \ {t} : list[u] = Here[u]
  <2>1. CASE waiting[a].item.was = None
    BY <1>3, <1>5, <2>1 DEF Reverted
  <2>2. CASE waiting[a].item.was # None
    <3>1. waiting[a].item.was \in Agents
      BY <1>4, <2>2
    <3>2. Reverted(waiting[a]) = Linked(put, t, waiting[a].item.was)
      BY <1>3, <1>5, <2>2 DEF Reverted
    <3> QED BY <1>5, <3>1, <3>2, AgentLinked
  <2> QED BY <2>1, <2>2
<1>7. /\ Continue(waiting[a].by, list, waiting[a].rest, Phase(a, "failed"), Answered(a))
      /\ UNCHANGED <<current, Spoilt, finished>>
  BY <1>6 DEF SpawnFails, Spoilt, excuses
<1>8. ASSUME ~cascading', Untouched(current, Spoilt), Needed(current, t)
      PROVE  list[t].agentId = None
  <2>1. Cold(tasks, agents, waiting, Spoilt)
    BY <1>7, <1>8, ContinueCascading DEF CascadeInv
  <2>2. Starting(current, tasks, waiting[a])
    BY <1>2, <1>4, <1>8, <2>1 DEF Cold
  <2>3. Here[t].agentId = None
    BY <1>4, <1>8, <2>1 DEF Cold, Here
  <2> QED BY <1>3, <1>6, <1>8, <2>2, <2>3 DEF Starting
<1> QED BY <1>2, <1>3, <1>6, <1>7, <1>8, HandlerGoesOn

\* Agents go on, and tasks that others wait for stay as they are until they are tried.
LEMMA MovesCold ==
    ASSUME BoardInv, Cold(tasks, agents, waiting, Spoilt), NEW tk, NEW ags, NEW hand, Spoilt \subseteq hand,
           \A x \in Agents : /\ ags[x].session = agents[x].session /\ ags[x].task = agents[x].task
                             /\ ags[x].phase \in Live => agents[x].phase \in Live,
           \A s \in Sessions, t \in Tasks : Untouched(s, hand) =>
              /\ tk[s][t].agentId \in {tasks[s][t].agentId, None}
              /\ Needed(s, t) /\ tasks[s][t].status = "in_progress" => tk[s][t].status = "in_progress"
    PROVE  Cold(tk, ags, waiting, hand)
<1> SUFFICES ASSUME NEW s \in Sessions, Untouched(s, hand)
             PROVE  /\ \A x \in Agents : ags[x].phase \in Live /\ ags[x].session = s => ~Needed(s, ags[x].task)
                    /\ \A u \in Tasks : tk[s][u].agentId # None => ~Needed(s, u)
                    /\ \A x \in Agents : waiting[x] # None /\ ags[x].session = s => Starting(s, tk, waiting[x])
                    /\ \A x, y \in Agents :
                         /\ waiting[x] # None /\ ags[x].session = s /\ waiting[y] # None /\ ags[y].session = s
                         /\ ags[x].task = ags[y].task /\ Needed(s, ags[x].task)
                         => x = y
  BY DEF Cold
<1>0. /\ \A x \in Agents : agents[x].phase \in Live /\ agents[x].session = s => ~Needed(s, agents[x].task)
      /\ \A u \in Tasks : tasks[s][u].agentId # None => ~Needed(s, u)
      /\ \A x \in Agents : waiting[x] # None /\ agents[x].session = s => Starting(s, tasks, waiting[x])
      /\ \A x, y \in Agents :
           /\ waiting[x] # None /\ agents[x].session = s /\ waiting[y] # None /\ agents[y].session = s
           /\ agents[x].task = agents[y].task /\ Needed(s, agents[x].task)
           => x = y
  <2>1. Untouched(s, Spoilt)
    BY DEF Untouched
  <2> QED BY <2>1 DEF Cold
<1>1. ASSUME NEW x \in Agents, waiting[x] # None, ags[x].session = s
      PROVE  Starting(s, tk, waiting[x])
  <2>1. waiting[x].item.task \in Tasks
    BY <1>1 DEF BoardInv, Right, Typed, Handlers, Items
  <2> QED BY <1>0, <1>1, <2>1 DEF Starting
<1> QED BY <1>0, <1>1

\* The agents and handlers are the same, and only tasks on the list are owed a start that
\* were not.
LEMMA MovesOwed ==
    ASSUME Owed(current, tasks, agents, waiting, finished, Spoilt, {}),
           NEW cur, NEW tk, NEW ags, NEW fin, NEW hand, NEW owed,
           \A x \in Agents : ags[x].session = agents[x].session,
           \A s \in Sessions, t \in Tasks : ReadyIn(s, t, tk, ags, fin) /\ Untouched(s, hand) =>
              \/ ReadyIn(s, t, tasks, agents, finished) /\ Untouched(s, Spoilt)
              \/ s = cur /\ \E i \in owed : i.task = t
    PROVE  Owed(cur, tk, ags, waiting, fin, hand, owed)
  BY DEF Owed, Listed

LEMMA AgentMovesCascade ==
    ASSUME BoardInv, CascadeInv, NEW a \in Agents,
           \/ AgentStarts(a) \/ AgentStopped(a)
           \/ \E outcome \in {"completed", "error"} : AgentEnds(a, outcome)
    PROVE  CascadeInv'
<1>1. UNCHANGED <<current, tasks, waiting, cascading, Spoilt, finished>>
  BY DEF AgentStarts, AgentStopped, AgentEnds, Spoilt, excuses
<1>2. \A x \in Agents : /\ agents'[x].session = agents[x].session /\ agents'[x].task = agents[x].task
                        /\ agents'[x].phase \in Live => agents[x].phase \in Live
  BY AgentsGoOn DEF AgentsGo
<1>3. Owed(current, tasks, agents', waiting, finished, Spoilt, {})
  <2>1. \A s \in Sessions, t \in Tasks : ReadyIn(s, t, tasks, agents', finished) => ReadyIn(s, t, tasks, agents, finished)
    BY <1>2 DEF ReadyIn
  <2> QED BY <1>2, <2>1, MovesOwed DEF CascadeInv
<1>4. Cold(tasks, agents, waiting, Spoilt) => Cold(tasks, agents', waiting, Spoilt)
  BY <1>2, MovesCold
<1> QED BY <1>1, <1>3, <1>4 DEF CascadeInv

\* A task is ended, but not as one its agent completed: nothing is owed for it.
LEMMA EndedOtherwise ==
    ASSUME BoardInv, CascadeInv,
           NEW t \in Tasks, NEW list \in [Tasks -> TaskType], \A u \in Tasks \ {t} : list[u] = Here[u],
           list[t].agentId = Here[t].agentId,
           \/ list[t].status # "pending"
           \/ \E a \in Agents : agents[a].session = current /\ agents[a].task = t,
           \/ Here[t].agentId # None
           \/ \E a \in Agents : agents[a].session = current /\ agents[a].task = t /\ agents[a].phase \in Live,
           \A x \in Agents : /\ agents'[x].session = agents[x].session /\ agents'[x].task = agents[x].task
                             /\ agents'[x].phase \in Live => agents[x].phase \in Live,
           tasks' = [tasks EXCEPT ![current] = list],
           finished' = [finished EXCEPT ![current] = @ \ {t}],
           UNCHANGED <<current, waiting, cascading, Spoilt>>
    PROVE  CascadeInv'
<1>1. current \in Sessions /\ tasks \in [Sessions -> [Tasks -> TaskType]]
      /\ finished \in [Sessions -> SUBSET Tasks]
  BY DEF BoardInv, Right, Typed, CascadeInv
<1>2. /\ finished' \in [Sessions -> SUBSET Tasks] /\ t \notin finished'[current]
      /\ \A s \in Sessions : finished'[s] \subseteq finished[s]
  BY <1>1
<1>3. \A s \in Sessions, u \in Tasks : <<s, u>> # <<current, t>> => tasks'[s][u] = tasks[s][u]
  BY <1>1 DEF Here
<1>4. tasks'[current][t] = list[t] /\ tasks[current][t] = Here[t]
  BY <1>1 DEF Here
<1>5. Owed(current, tasks', agents', waiting, finished', Spoilt, {})
  <2>1. ASSUME NEW s \in Sessions, NEW u \in Tasks, ReadyIn(s, u, tasks', agents', finished')
        PROVE  ReadyIn(s, u, tasks, agents, finished)
    <3>1. <<s, u>> # <<current, t>>
      BY <1>4, <2>1 DEF ReadyIn
    <3>2. Deps[s][u] \subseteq Tasks
      BY TaskBoardAssumption
    <3>3. \A v \in Deps[s][u] : tasks'[s][v] = tasks[s][v]
      BY <1>2, <1>3, <2>1, <3>2 DEF ReadyIn
    <3> QED BY <1>2, <1>3, <2>1, <3>1, <3>3 DEF ReadyIn
  <2>2. \A x \in Agents : agents'[x].session = agents[x].session
    OBVIOUS
  <2> QED BY <2>1, <2>2, MovesOwed DEF CascadeInv
<1>6. ASSUME Cold(tasks, agents, waiting, Spoilt) PROVE Cold(tasks', agents', waiting, Spoilt)
  <2>1. Untouched(current, Spoilt) => ~Needed(current, t)
    BY <1>1, <1>4, <1>6 DEF Cold
  <2>2. \A s \in Sessions, u \in Tasks : Untouched(s, Spoilt) =>
          /\ tasks'[s][u].agentId \in {tasks[s][u].agentId, None}
          /\ Needed(s, u) /\ tasks[s][u].status = "in_progress" => tasks'[s][u].status = "in_progress"
    BY <1>3, <1>4, <2>1
  <2> QED BY <1>6, <2>2, MovesCold
<1> QED BY <1>2, <1>5, <1>6 DEF CascadeInv

LEMMA StopCascade ==
    ASSUME BoardInv, CascadeInv, NEW t \in Tasks, TaskStop(t)
    PROVE  CascadeInv'
<1>1. Here \in [Tasks -> TaskType] /\ tasks[current] = Here /\ current \in Sessions
      /\ tasks \in [Sessions -> [Tasks -> TaskType]]
  BY DEF BoardInv, Right, Typed, Here
<1>2. PICK list \in [Tasks -> TaskType] :
        /\ list = WithStatus(Here, t, "completed")
        /\ list[t].agentId = Here[t].agentId /\ list[t].status # "pending"
        /\ \A u \in Tasks \ {t} : list[u] = Here[u]
  <2>1. PICK st \in Statuses : st = "completed"
    BY DEF Statuses
  <2>2. /\ WithStatus(Here, t, st) \in [Tasks -> TaskType]
        /\ \A u \in Tasks : WithStatus(Here, t, st)[u].agentId = Here[u].agentId
        /\ \A u \in Tasks \ {t} : WithStatus(Here, t, st)[u] = Here[u]
        /\ WithStatus(Here, t, st)[t].status = IF Here[t].status = "none" THEN "none" ELSE st
    BY <1>1, StatusWritten
  <2> QED BY <2>1, <2>2
<1>3. /\ Here[t].agentId # None
      /\ tasks' = [tasks EXCEPT ![current] = list]
      /\ finished' = [finished EXCEPT ![current] = @ \ {t}]
      /\ UNCHANGED <<current, waiting, cascading, Spoilt>>
  BY <1>1, <1>2 DEF TaskStop, Spoilt, excuses
<1>4. \A x \in Agents : /\ agents'[x].session = agents[x].session /\ agents'[x].task = agents[x].task
                        /\ agents'[x].phase \in Live => agents[x].phase \in Live
  BY ToolsLetAgentsGo DEF AgentsGo
<1> QED BY <1>2, <1>3, <1>4, EndedOtherwise

\* A task that is set by hand makes no promise for its list, one that is cleared takes its
\* dependents out of the cascade.
LEMMA ToolsCascade ==
    ASSUME BoardInv, CascadeInv,
           \/ \E t \in Tasks, status \in {"pending", "in_progress", "completed", "deleted"} : TaskUpdate(t, status)
           \/ ClearCompleted
    PROVE  CascadeInv'
<1>1. current \in Sessions /\ tasks \in [Sessions -> [Tasks -> TaskType]]
  BY DEF BoardInv, Right, Typed
<1>2. UNCHANGED <<current, agents, waiting, cascading, finished>>
  BY DEF TaskUpdate, ClearCompleted, Spoilt, excuses
<1>3. /\ \A s \in Sessions \ {current} : tasks'[s] = tasks[s]
      /\ Spoilt \subseteq Spoilt'
  BY <1>1 DEF TaskUpdate, ClearCompleted, Spoilt, excuses
<1>4. ASSUME Untouched(current, Spoilt')
      PROVE  \A t \in Tasks :
               \/ tasks'[current][t] = tasks[current][t] /\ tasks[current][t].status # "completed"
               \/ /\ tasks'[current][t].status = "none" /\ tasks'[current][t].agentId = None
                  /\ tasks[current][t].status = "completed"
  <2>1. ~ \E t \in Tasks, status \in {"pending", "in_progress", "completed", "deleted"} : TaskUpdate(t, status)
    BY <1>4 DEF TaskUpdate, Untouched, Spoilt, excuses
  <2> QED BY <1>1, <2>1 DEF ClearCompleted, Here, Done, Spoilt, excuses
<1>5. Owed(current, tasks', agents, waiting, finished, Spoilt', {})
  <2>1. ASSUME NEW s \in Sessions, NEW u \in Tasks, ReadyIn(s, u, tasks', agents, finished), Untouched(s, Spoilt')
        PROVE  ReadyIn(s, u, tasks, agents, finished) /\ Untouched(s, Spoilt)
    <3>1. Untouched(s, Spoilt)
      BY <1>3, <2>1 DEF Untouched
    <3>2. CASE s # current
      BY <1>3, <2>1, <3>1, <3>2 DEF ReadyIn
    <3>3. CASE s = current
      <4>1. PICK v \in Deps[s][u] : tasks'[s][v].status = "completed"
        BY <2>1 DEF ReadyIn
      <4>2. v \in Tasks
        BY <4>1, TaskBoardAssumption
      <4> QED BY <1>4, <2>1, <3>3, <4>1, <4>2
    <3> QED BY <3>2, <3>3
  <2> QED BY <2>1, MovesOwed DEF CascadeInv
<1>6. ASSUME Cold(tasks, agents, waiting, Spoilt) PROVE Cold(tasks', agents, waiting, Spoilt')
  <2>1. \A s \in Sessions, u \in Tasks : Untouched(s, Spoilt') =>
          /\ tasks'[s][u].agentId \in {tasks[s][u].agentId, None}
          /\ Needed(s, u) /\ tasks[s][u].status = "in_progress" => tasks'[s][u].status = "in_progress"
    BY <1>3, <1>4
  <2> QED BY <1>3, <1>6, <2>1, MovesCold
<1> QED BY <1>2, <1>5, <1>6 DEF CascadeInv

LEMMA SwitchCascade ==
    ASSUME BoardInv, CascadeInv, NEW s \in Sessions, SwitchSession(s)
    PROVE  CascadeInv'
<1>1. UNCHANGED <<tasks, agents, waiting, cascading, Spoilt, finished>>
  BY DEF SwitchSession, Spoilt, excuses
<1>2. Owed(s, tasks, agents, waiting, finished, Spoilt, {})
  BY MovesOwed DEF CascadeInv
<1> QED BY <1>1, <1>2 DEF CascadeInv, SwitchSession, Spoilt, excuses

\* The listeners: the agent's report leaves the agents what they are for.
LEMMA ReportedFacts ==
    ASSUME BoardInv, NEW a \in Agents, agents[a].phase = "ended"
    PROVE  /\ Reported(a) \in [Agents -> AgentType]
           /\ \A x \in Agents : /\ Reported(a)[x].session = agents[x].session /\ Reported(a)[x].task = agents[x].task
                                /\ Reported(a)[x].phase \in Live => agents[x].phase \in Live
                                /\ Reported(a)[x].phase = "none" => agents[x].phase = "none"
           /\ Known(a) => /\ agentTaskMap[a] \in Tasks
                          /\ agents[a].session = current /\ agents[a].task = agentTaskMap[a]
<1>1. agents \in [Agents -> AgentType] /\ agentTaskMap \in [Agents -> Tasks \cup {None}]
  BY DEF BoardInv, Right, Typed
<1>2. Known(a) => agents[a].session = current /\ agents[a].task = agentTaskMap[a]
  BY DEF BoardInv, Right, Tied, Known
<1>3. Known(a) => agentTaskMap[a] \in Tasks
  BY <1>1 DEF Known
<1>4. /\ Reported(a) \in [Agents -> AgentType]
      /\ \A x \in Agents : /\ Reported(a)[x].session = agents[x].session /\ Reported(a)[x].task = agents[x].task
                           /\ Reported(a)[x].phase \in Live => agents[x].phase \in Live
                           /\ Reported(a)[x].phase = "none" => agents[x].phase = "none"
  BY <1>1 DEF Reported, Phase, AgentType, Phases, Live
<1> QED BY <1>2, <1>3, <1>4

\* An agent reports a task that is not on the list.
LEMMA UnknownCascade ==
    ASSUME BoardInv, CascadeInv, NEW a \in Agents, agents[a].phase = "ended",
           agents' = Reported(a), UNCHANGED <<current, tasks, waiting, cascading, Spoilt, finished>>
    PROVE  CascadeInv'
<1>1. \A x \in Agents : /\ Reported(a)[x].session = agents[x].session /\ Reported(a)[x].task = agents[x].task
                        /\ Reported(a)[x].phase \in Live => agents[x].phase \in Live
  BY ReportedFacts
<1>2. Owed(current, tasks, Reported(a), waiting, finished, Spoilt, {})
  <2>1. \A s \in Sessions, t \in Tasks : ReadyIn(s, t, tasks, Reported(a), finished) => ReadyIn(s, t, tasks, agents, finished)
    BY <1>1 DEF ReadyIn
  <2> QED BY <1>1, <2>1, MovesOwed DEF CascadeInv
<1>3. Cold(tasks, agents, waiting, Spoilt) => Cold(tasks, Reported(a), waiting, Spoilt)
  BY <1>1, MovesCold
<1> QED BY <1>2, <1>3 DEF CascadeInv

LEMMA FailedCascade ==
    ASSUME BoardInv, CascadeInv, NEW a \in Agents, Failed(a)
    PROVE  CascadeInv'
<1>1. /\ agents[a].phase = "ended" /\ agents' = Reported(a)
      /\ UNCHANGED <<current, waiting, cascading, Spoilt>>
  BY DEF Failed, Spoilt, excuses
<1>2. CASE ~Known(a)
  BY <1>1, <1>2, UnknownCascade DEF Failed, Spoilt, excuses
<1>3. CASE Known(a)
  <2>1. PICK t \in Tasks : t = agentTaskMap[a] /\ agents[a].session = current /\ agents[a].task = t
    BY <1>1, <1>3, ReportedFacts
  <2>2. Here \in [Tasks -> TaskType] /\ tasks[current] = Here /\ current \in Sessions
        /\ tasks \in [Sessions -> [Tasks -> TaskType]]
    BY DEF BoardInv, Right, Typed, Here
  <2>3. PICK status \in Statuses : status = IF agents[a].outcome = "stopped" THEN "completed" ELSE "pending"
    BY DEF Statuses
  <2>4. PICK list \in [Tasks -> TaskType] :
          /\ list = WithStatus(Here, t, status)
          /\ list[t].agentId = Here[t].agentId
          /\ \A u \in Tasks \ {t} : list[u] = Here[u]
    <3>1. /\ WithStatus(Here, t, status) \in [Tasks -> TaskType]
          /\ \A u \in Tasks : WithStatus(Here, t, status)[u].agentId = Here[u].agentId
          /\ \A u \in Tasks \ {t} : WithStatus(Here, t, status)[u] = Here[u]
          /\ WithStatus(Here, t, status)[t].status = IF Here[t].status = "none" THEN "none" ELSE status
      BY <2>2, StatusWritten
    <3> QED BY <3>1
  <2>5. /\ tasks' = [tasks EXCEPT ![current] = list]
        /\ finished' = [finished EXCEPT ![current] = @ \ {t}]
    BY <1>3, <2>1, <2>2, <2>3, <2>4 DEF Failed, Spoilt, excuses
  <2>6. \A x \in Agents : /\ agents'[x].session = agents[x].session /\ agents'[x].task = agents[x].task
                          /\ agents'[x].phase \in Live => agents[x].phase \in Live
    BY <1>1, ReportedFacts
  <2>7. agents[a].phase \in Live
    BY <1>1 DEF Live
  <2> QED BY <1>1, <2>1, <2>4, <2>5, <2>6, <2>7, EndedOtherwise
<1> QED BY <1>2, <1>3

\* A completion starts or lists all the tasks it sets free: cascadeConfig is set if there
\* are any.
LEMMA CompletedCascade ==
    ASSUME BoardInv, CascadeInv, NEW a \in Agents, Completed(a)
    PROVE  CascadeInv'
<1>1. agents[a].phase = "ended" /\ UNCHANGED <<current, Spoilt>>
  BY DEF Completed, Spoilt, excuses
<1>2. CASE ~Known(a)
  <2>1. agents' = Reported(a) /\ UNCHANGED <<tasks, waiting, cascading, finished>>
    BY <1>2 DEF Completed, Spoilt, excuses
  <2> QED BY <1>1, <2>1, UnknownCascade
<1>3. CASE Known(a)
  <2>1. PICK t \in Tasks : t = agentTaskMap[a] /\ agents[a].session = current /\ agents[a].task = t
    BY <1>1, <1>3, ReportedFacts
  <2>2. /\ Here \in [Tasks -> TaskType] /\ tasks[current] = Here /\ current \in Sessions
        /\ tasks \in [Sessions -> [Tasks -> TaskType]] /\ waiting \in [Agents -> Handlers \cup {None}]
        /\ finished \in [Sessions -> SUBSET Tasks]
    BY DEF BoardInv, Right, Typed, Here, CascadeInv
  <2>3. PICK list \in [Tasks -> TaskType] :
          /\ list = WithStatus(Here, t, "completed")
          /\ \A u \in Tasks : list[u].agentId = Here[u].agentId
          /\ \A u \in Tasks \ {t} : list[u] = Here[u]
    <3>1. PICK st \in Statuses : st = "completed"
      BY DEF Statuses
    <3>2. /\ WithStatus(Here, t, st) \in [Tasks -> TaskType]
          /\ \A u \in Tasks : WithStatus(Here, t, st)[u].agentId = Here[u].agentId
          /\ \A u \in Tasks \ {t} : WithStatus(Here, t, st)[u] = Here[u]
          /\ WithStatus(Here, t, st)[t].status = IF Here[t].status = "none" THEN "none" ELSE st
      BY <2>2, StatusWritten
    <3> QED BY <3>1, <3>2
  <2>4. PICK mid \in [Sessions -> [Tasks -> TaskType]] :
          /\ mid = [tasks EXCEPT ![current] = list]
          /\ mid[current] = list
          /\ \A s \in Sessions, u \in Tasks : <<s, u>> # <<current, t>> => mid[s][u] = tasks[s][u]
    <3>1. PICK mid : mid = [tasks EXCEPT ![current] = list]
      OBVIOUS
    <3>2. mid \in [Sessions -> [Tasks -> TaskType]]
      BY <2>2, <3>1
    <3>3. mid[current] = list
      BY <2>2, <3>1
    <3>4. \A s \in Sessions, u \in Tasks : <<s, u>> # <<current, t>> => mid[s][u] = tasks[s][u]
      <4>1. TAKE s \in Sessions, u \in Tasks
      <4>2. CASE s = current
        BY <2>3, <3>3, <4>2 DEF Here
      <4>3. CASE s # current
        BY <2>2, <3>1, <4>3
      <4> QED BY <4>2, <4>3
    <3> QED BY <3>1, <3>2, <3>3, <3>4, Zenon
  <2>5. PICK ags \in [Agents -> AgentType] :
          /\ ags = Reported(a)
          /\ \A x \in Agents : /\ ags[x].session = agents[x].session /\ ags[x].task = agents[x].task
                               /\ ags[x].phase \in Live => agents[x].phase \in Live
                               /\ ags[x].phase = "none" => agents[x].phase = "none"
    BY <1>1, ReportedFacts
  <2>6. Served(ags, waiting)
    BY <2>2, <2>5, StillServed
  <2>7. PICK S \in SUBSET Tasks : S = IF cascading THEN Freed(list, t) ELSE {}
    <3>1. Freed(list, t) \in SUBSET Tasks
      BY DEF Freed
    <3> QED BY <3>1
  <2>8. PICK todo \in SUBSET Items : todo = {Item(list, u) : u \in S} /\ \A i \in todo : Copied(i, current, ags)
    <3>1. \A u \in Tasks : Belongs(list[u].agentId, current, u, ags)
      <4>1. \A u \in Tasks : Belongs(Here[u].agentId, current, u, agents) /\ Here[u].agentId \in Agents \cup {None}
        BY <2>2 DEF BoardInv, Right, Tied, Here, TaskType
      <4> QED BY <2>3, <2>5, <4>1 DEF Belongs
    <3>2. /\ {Item(list, u) : u \in S} \in SUBSET Items
          /\ \A i \in {Item(list, u) : u \in S} : Copied(i, current, ags)
      BY <2>2, <3>1, ItemsCopied
    <3> QED BY <3>2
  <2>9. \A i \in todo : i.from = current
    BY <2>8 DEF Copied
  <2>10. /\ Continue("cascade", list, todo, ags, waiting)
         /\ finished' = [finished EXCEPT ![current] = @ \cup {t}]
    <3>1. todo = IF cascading THEN {Item(list, u) : u \in Freed(list, t)} ELSE {}
      BY <2>7, <2>8
    <3> QED BY <1>3, <2>1, <2>3, <2>5, <3>1 DEF Completed, Spoilt, excuses
  <2>11. /\ finished' \in [Sessions -> SUBSET Tasks]
         /\ \A s \in Sessions : finished'[s] \subseteq finished[s] \cup (IF s = current THEN {t} ELSE {})
    BY <2>2, <2>10
  <2>12. Cold(tasks, agents, waiting, Spoilt) => (Untouched(current, Spoilt) => ~Needed(current, t))
    BY <1>1, <2>1, <2>2 DEF Cold, Live
  <2>13. Owed(current, mid, ags, waiting, finished', Spoilt, todo)
    <3>1. ASSUME NEW s \in Sessions, NEW u \in Tasks, ReadyIn(s, u, mid, ags, finished'), Untouched(s, Spoilt)
          PROVE  ReadyIn(s, u, tasks, agents, finished) \/ (s = current /\ \E i \in todo : i.task = u)
      <4>0. Deps[s][u] \subseteq Tasks
        BY TaskBoardAssumption
      <4>1. CASE s = current /\ t \in Deps[s][u]
        <5>1. cascading
          BY <2>12, <3>1, <4>1 DEF Needed, CascadeInv
        <5>2. u \in Freed(list, t)
          BY <2>4, <3>1, <4>1 DEF ReadyIn, Freed, Unblocked, Done
        <5>3. Item(list, u) \in todo /\ Item(list, u).task = u
          BY <2>7, <2>8, <5>1, <5>2 DEF Item
        <5> QED BY <4>1, <5>3
      <4>2. CASE ~(s = current /\ t \in Deps[s][u])
        <5>1. <<s, u>> # <<current, t>>
          BY <2>1, <2>5, <3>1 DEF ReadyIn
        <5>2. \A v \in Deps[s][u] : mid[s][v] = tasks[s][v]
          BY <2>4, <4>0, <4>2
        <5>3. Deps[s][u] \subseteq finished[s]
          BY <2>11, <3>1, <4>2 DEF ReadyIn
        <5> QED BY <2>4, <2>5, <3>1, <5>1, <5>2, <5>3 DEF ReadyIn
      <4> QED BY <4>1, <4>2
    <3>2. \A x \in Agents : ags[x].session = agents[x].session
      BY <2>5
    <3> QED BY <3>1, <3>2, MovesOwed DEF CascadeInv
  <2>14. Owed(current, tasks', agents', waiting', finished', Spoilt, {})
    <3>1. PICK fin : fin = finished'
      OBVIOUS
    <3>2. Owed(current, [tasks EXCEPT ![current] = list], ags, waiting, fin, Spoilt, todo)
      BY <2>4, <2>13, <3>1
    <3>3. todo = IF "cascade" = "cascade" THEN todo ELSE {}
      OBVIOUS
    <3>4. Owed(current, tasks', agents', waiting', fin, Spoilt, {})
      BY <2>2, <2>6, <2>9, <2>10, <3>2, <3>3, ContinueOwed
    <3> QED BY <3>1, <3>4
  <2>15. cascading' \in BOOLEAN /\ (cascading => cascading')
    BY <2>10, ContinueCascading DEF CascadeInv
  <2>16. ASSUME ~cascading' PROVE Cold(tasks', agents', waiting', Spoilt)
    <3>1. Cold(tasks, agents, waiting, Spoilt) /\ todo = {}
      BY <2>7, <2>8, <2>15, <2>16 DEF CascadeInv
    <3>2. \A s \in Sessions, u \in Tasks : Untouched(s, Spoilt) =>
            /\ mid[s][u].agentId \in {tasks[s][u].agentId, None}
            /\ Needed(s, u) /\ tasks[s][u].status = "in_progress" => mid[s][u].status = "in_progress"
      BY <2>2, <2>3, <2>4, <2>12, <3>1
    <3>3. Cold(mid, ags, waiting, Spoilt)
      BY <2>5, <3>1, <3>2, MovesCold
    <3>4. Untouched(current, Spoilt) => ("cascade" = "execute" \/ todo = {}) /\ Apart(current, todo)
      BY <3>1 DEF Apart
    <3> QED BY <2>2, <2>4, <2>6, <2>9, <2>10, <3>3, <3>4, ContinueCold
  <2> QED BY <1>1, <2>11, <2>14, <2>15, <2>16 DEF CascadeInv
<1> QED BY <1>2, <1>3

LEMMA CascadeInitInv == BoardInit => CascadeInv
<1> SUFFICES ASSUME BoardInit PROVE CascadeInv
  OBVIOUS
<1>1. Cold(tasks, agents, waiting, Spoilt)
  BY DEF BoardInit, Cold, Live
<1>2. Owed(current, tasks, agents, waiting, finished, Spoilt, {})
  BY DEF BoardInit, Owed, ReadyIn
<1> QED BY <1>1, <1>2 DEF BoardInit, CascadeInv

LEMMA CascadeNextInv ==
    (~crossed => BoardInv /\ CascadeInv) /\ [BoardNext]_boardVars => (~crossed => CascadeInv)'
<1> SUFFICES ASSUME ~crossed => BoardInv /\ CascadeInv, [BoardNext]_boardVars, ~crossed' PROVE CascadeInv'
  OBVIOUS
<1>0. BoardInv /\ CascadeInv
  BY CrossedStays
<1>1. CASE UNCHANGED boardVars
  BY <1>0, <1>1 DEF boardVars, CascadeInv, Spoilt, excuses
<1>2. CASE BoardNext
  BY <1>0, <1>2, ExecuteCascade, SpawnReplyCascade, SpawnFailsCascade, AgentMovesCascade, StopCascade, ToolsCascade,
     FailedCascade, CompletedCascade, SwitchCascade
     DEF BoardNext, Reply, Agent
<1> QED BY <1>1, <1>2

\* A task that agents' completions have set free is never forgotten: a cascade in flight
\* has it on its list (the completed listener), whatever requests go unanswered, until a
\* task of its session is set by hand or is asked for with others that do not wait for it,
\* or a session is switched while a handler waits.
THEOREM CascadesReachAll == BoardSpec => []CascadeOwed
<1>1. (~crossed => CascadeInv) => CascadeOwed
  <2> SUFFICES ASSUME CascadeInv, NEW s \in Sessions, NEW t \in Tasks,
                      Ready(s, t), \A u \in Tasks : <<s, u>> \notin touched \cup mixed
               PROVE  \E a \in Agents : /\ waiting[a] # None /\ agents[a].session = s
                                        /\ \E i \in waiting[a].rest : i.task = t
    BY DEF CascadeOwed
  <2>1. ReadyIn(s, t, tasks, agents, finished) /\ Untouched(s, Spoilt)
    BY DEF Ready, ReadyIn, Done, Untouched, Spoilt
  <2>2. Listed(s, t, agents, waiting)
    BY <2>1 DEF CascadeInv, Owed
  <2> QED BY <2>2 DEF Listed
<1> QED BY <1>1, BoardInvariance, CascadeInitInv, CascadeNextInv, PTL DEF BoardSpec
=============================================================================
