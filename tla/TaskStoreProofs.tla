--------------------------- MODULE TaskStoreProofs --------------------------
(***************************************************************************)
(* Proofs about the task list, for every number of ids and any set of      *)
(* calls, and about the file in which any number of sessions share it.     *)
(*                                                                         *)
(* What the mutations do to a well-formed board: it stays well formed,     *)
(* ids stay fresh, and edges follow their tasks.  From that, the atomic    *)
(* list.  Mutual exclusion holds, whoever dies, until a live session's     *)
(* lock is taken over, and the shared file is that list until then or      *)
(* until it is deleted; the runs lock_torn, two_takeovers, file_deleted    *)
(* and ids_reused show that the code can do these.  The takeover of dead   *)
(* sessions' locks is proved from a retry budget that exceeds the number   *)
(* of deaths.                                                              *)
(***************************************************************************)
EXTENDS TaskStore, TaskList, FiniteSetTheorems, TLAPS

-----------------------------------------------------------------------------
(* The mutations of a board.                                               *)

\* What an id has to be for create not to overwrite a task.
Fresh(b) == \A i \in Live(b) : i < b.nextId

\* A board and the next one: no edge between tasks that stay is lost, and none
\* to a task that goes is kept.
Follows(b, c) ==
    \A i \in Live(b) \cap Live(c) :
        /\ \A j \in Live(b) \cap Live(c) :
              /\ j \in b.tasks[i].blockedBy => j \in c.tasks[i].blockedBy
              /\ j \in b.tasks[i].blocks => j \in c.tasks[i].blocks
        /\ \A j \in Live(b) \ Live(c) :
              j \notin c.tasks[i].blockedBy \cup c.tasks[i].blocks

\* The counter does not go back, and passes over the ids that appear.
Counts(b, c) ==
    /\ b.nextId <= c.nextId
    /\ \A i \in Live(c) \ Live(b) : b.nextId <= i /\ i < c.nextId

Good(b, c) == c \in Board /\ Fresh(c) /\ Follows(b, c) /\ Counts(b, c)

\* create leaves a well-formed board: the new id is below the new counter and
\* the task that gets it overwrites none.
LEMMA CreateGood ==
    ASSUME NEW b \in Board, Fresh(b), b.nextId <= MaxTasks, NEW t \in Types
    PROVE  Good(b, Created(b, t))
<1> DEFINE new == [status |-> "pending", type |-> t, blocks |-> {}, blockedBy |-> {}]
           c == Created(b, t)
<1>1. new \in Task
  BY DEF Task, Statuses
<1>2. b.nextId \in Ids /\ b.nextId + 1 \in 1..(MaxTasks + 1)
  BY TaskOpsAssumption DEF Board, Ids
<1>3. c = [nextId |-> b.nextId + 1, tasks |-> [b.tasks EXCEPT ![b.nextId] = new]]
  BY DEF Created
<1> HIDE DEF new
<1>4. c \in Board
  BY <1>1, <1>2, <1>3 DEF Board
<1>5. \A i \in Ids : i # b.nextId => c.tasks[i] = b.tasks[i]
  BY <1>3 DEF Board
<1>6. \A i \in Live(c) : i \in Live(b) \/ i = b.nextId
  BY <1>5 DEF Live
<1>7. Fresh(c)
  <2> SUFFICES ASSUME NEW i \in Live(c) PROVE i < c.nextId
    BY DEF Fresh
  <2>1. c.nextId = b.nextId + 1
    BY <1>3
  <2>2. b.nextId \in Nat /\ i \in Nat
    BY <1>2 DEF Live, Ids
  <2> QED BY <1>6, <2>1, <2>2 DEF Fresh
<1>8. \A i \in Live(b) : i # b.nextId /\ i \in Ids
  BY <1>2 DEF Fresh, Live, Ids
<1>9. Live(b) \subseteq Live(c)
  BY <1>5, <1>8 DEF Live
<1>10. Follows(b, c)
  BY <1>5, <1>8, <1>9 DEF Follows
<1>11. Counts(b, c)
  <2>1. c.nextId = b.nextId + 1 /\ b.nextId \in Nat
    BY <1>2, <1>3 DEF Ids
  <2> QED BY <1>6, <2>1 DEF Counts
<1> QED BY <1>4, <1>7, <1>10, <1>11 DEF Good

\* A task with other edges is a task.
LEMMA EdgesTyped ==
    ASSUME NEW t \in Task, NEW B \in SUBSET Ids, NEW D \in SUBSET Ids
    PROVE  WithEdges(t, B, D) \in Task
  BY DEF WithEdges, Task

\* Tasks leave the list and the edges to them with it, whatever other edges are
\* cut, as long as those to the tasks that stay are not (delete, clearCompleted).
LEMMA WithoutGood ==
    ASSUME NEW b \in Board, Fresh(b), NEW S \in SUBSET Ids, NEW cut \in SUBSET Ids,
           S \subseteq cut, \A i \in cut : i \in Live(b) => i \in S
    PROVE  Good(b, Without(b, S, cut))
<1> DEFINE c == Without(b, S, cut)
           kept(i) == WithEdges(b.tasks[i], b.tasks[i].blocks \ cut, b.tasks[i].blockedBy \ cut)
<1>1. \A i \in Ids : b.tasks[i] \in Task
  BY DEF Board
<1>2. \A i \in Ids : /\ kept(i) \in Task
                     /\ kept(i).status = b.tasks[i].status
                     /\ kept(i).blocks = b.tasks[i].blocks \ cut
                     /\ kept(i).blockedBy = b.tasks[i].blockedBy \ cut
  <2> SUFFICES ASSUME NEW i \in Ids
               PROVE  /\ kept(i) \in Task
                      /\ kept(i).status = b.tasks[i].status
                      /\ kept(i).blocks = b.tasks[i].blocks \ cut
                      /\ kept(i).blockedBy = b.tasks[i].blockedBy \ cut
    OBVIOUS
  <2>1. b.tasks[i].blocks \ cut \in SUBSET Ids /\ b.tasks[i].blockedBy \ cut \in SUBSET Ids
    BY <1>1 DEF Task
  <2>2. kept(i) \in Task
    BY <1>1, <2>1, EdgesTyped
  <2> QED BY <2>2 DEF WithEdges
<1>3. NoTask \in Task /\ NoTask.status = "none"
  BY DEF NoTask, Task, Types
<1>4. c = [nextId |-> b.nextId,
           tasks |-> [i \in Ids |-> IF i \in S \/ b.tasks[i].status = "none" THEN NoTask ELSE kept(i)]]
  BY DEF Without
<1> HIDE DEF c, kept
<1>5. c \in Board
  <2>1. [i \in Ids |-> IF i \in S \/ b.tasks[i].status = "none" THEN NoTask ELSE kept(i)] \in [Ids -> Task]
    BY <1>2, <1>3
  <2> QED BY <1>4, <2>1 DEF Board
<1>6. c.nextId = b.nextId
  BY <1>4
<1>7. \A i \in Ids : (i \in S \/ b.tasks[i].status = "none") => c.tasks[i] = NoTask
  BY <1>4
<1>8. \A i \in Ids : ~(i \in S \/ b.tasks[i].status = "none") => c.tasks[i] = kept(i)
  BY <1>4
<1>9. \A i \in Live(c) : i \in Live(b) /\ i \notin S
  BY <1>3, <1>7 DEF Live
<1>10. \A i \in Live(b) : i \notin S => i \in Live(c)
  BY <1>2, <1>8 DEF Live
<1>11. \A i \in Live(c) : /\ c.tasks[i].blocks = b.tasks[i].blocks \ cut
                          /\ c.tasks[i].blockedBy = b.tasks[i].blockedBy \ cut
  BY <1>2, <1>8, <1>9 DEF Live
<1>12. Fresh(c)
  BY <1>6, <1>9 DEF Fresh
<1>13. Follows(b, c)
  BY <1>9, <1>10, <1>11 DEF Follows
<1>14. Counts(b, c)
  BY <1>6, <1>9, TaskOpsAssumption DEF Counts, Board
<1>15. Good(b, c)
  BY <1>5, <1>12, <1>13, <1>14 DEF Good
<1> QED BY <1>15 DEF c

\* A call that neither adds nor removes a task and takes no edge away.
LEMMA SameTasksGood ==
    ASSUME NEW b \in Board, Fresh(b), NEW c \in Board, c.nextId = b.nextId,
           \A i \in Ids : /\ c.tasks[i].status = "none" <=> b.tasks[i].status = "none"
                          /\ b.tasks[i].blocks \subseteq c.tasks[i].blocks
                          /\ b.tasks[i].blockedBy \subseteq c.tasks[i].blockedBy
    PROVE  Good(b, c)
<1>1. Live(c) = Live(b)
  BY DEF Live
<1>2. Fresh(c)
  BY <1>1 DEF Fresh
<1>3. Follows(b, c)
  BY <1>1 DEF Follows, Live
<1>4. Counts(b, c)
  BY <1>1, TaskOpsAssumption DEF Counts, Board
<1> QED BY <1>2, <1>3, <1>4 DEF Good

\* Every call that TaskStore offers leaves the board well formed.
LEMMA ApplyGood ==
    ASSUME NEW b \in Board, Fresh(b), NEW c \in Calls, Possible(b, c)
    PROVE  Good(b, Apply(b, c))
<1> USE TaskOpsAssumption
<1>0. \A i \in Ids : b.tasks[i] \in Task
  BY DEF Board
<1>1. CASE c \in [call : {"create"}, type : Types]
  BY <1>1, CreateGood DEF Apply, Possible
<1>2. CASE c \in [call : {"status"}, id : Ids, status : Statuses]
  <2> DEFINE d == [b EXCEPT !.tasks[c.id].status = c.status]
  <2>1. CASE c.id \in Live(b)
    <3>1. Apply(b, c) = d
      BY <1>2, <2>1 DEF Apply
    <3>2. c.id \in Ids /\ c.status \in Statuses /\ c.status # "none"
      BY <1>2 DEF Statuses
    <3>3. [b.tasks[c.id] EXCEPT !.status = c.status] \in Task
      BY <1>0, <3>2 DEF Task
    <3>4. d \in Board /\ d.nextId = b.nextId
      BY <3>2, <3>3 DEF Board
    <3>5. \A i \in Ids : d.tasks[i] = IF i = c.id THEN [b.tasks[i] EXCEPT !.status = c.status] ELSE b.tasks[i]
      BY <3>2 DEF Board
    <3>6. \A i \in Ids : /\ d.tasks[i].status = "none" <=> b.tasks[i].status = "none"
                         /\ b.tasks[i].blocks \subseteq d.tasks[i].blocks
                         /\ b.tasks[i].blockedBy \subseteq d.tasks[i].blockedBy
      BY <1>0, <2>1, <3>2, <3>5 DEF Live, Task
    <3> HIDE DEF d
    <3> QED BY <3>1, <3>4, <3>6, SameTasksGood
  <2>2. CASE c.id \notin Live(b)
    BY <1>2, <2>2, SameTasksGood DEF Apply
  <2> QED BY <2>1, <2>2
<1>3. CASE c \in [call : {"addBlocks", "addBlockedBy"}, id : Ids, targets : SUBSET Ids]
  <2>1. CASE c.id \notin Live(b)
    BY <1>3, <2>1, SameTasksGood DEF Apply
  <2>2. CASE c.id \in Live(b) /\ c.call = "addBlocks"
    <3> DEFINE d == AddedBlocks(b, c.id, c.targets)
    <3> DEFINE out(i) == IF i = c.id THEN c.targets ELSE {}
               in(i) == IF i \in c.targets \cap Live(b) THEN {c.id} ELSE {}
               new(i) == WithEdges(b.tasks[i], b.tasks[i].blocks \cup out(i), b.tasks[i].blockedBy \cup in(i))
    <3>1. \A i \in Ids : new(i) \in Task
      <4> SUFFICES ASSUME NEW i \in Ids PROVE new(i) \in Task
        OBVIOUS
      <4>1. out(i) \in SUBSET Ids /\ in(i) \in SUBSET Ids
        BY <1>3
      <4>2. b.tasks[i].blocks \in SUBSET Ids /\ b.tasks[i].blockedBy \in SUBSET Ids
        BY <1>0 DEF Task
      <4> HIDE DEF out, in
      <4>3. b.tasks[i].blocks \cup out(i) \in SUBSET Ids /\ b.tasks[i].blockedBy \cup in(i) \in SUBSET Ids
        BY <4>1, <4>2
      <4> QED BY <1>0, <4>3, EdgesTyped
    <3>2. d \in Board /\ d.nextId = b.nextId
      BY <3>1 DEF AddedBlocks, Board
    <3>3. \A i \in Ids : /\ d.tasks[i].status = b.tasks[i].status
                         /\ b.tasks[i].blocks \subseteq d.tasks[i].blocks
                         /\ b.tasks[i].blockedBy \subseteq d.tasks[i].blockedBy
      BY <1>0 DEF AddedBlocks, Board, Task, WithEdges
    <3>4. Apply(b, c) = d
      BY <2>2 DEF Apply
    <3> HIDE DEF d
    <3> QED BY <3>2, <3>3, <3>4, SameTasksGood
  <2>3. CASE c.id \in Live(b) /\ c.call = "addBlockedBy"
    <3> DEFINE d == AddedBlockedBy(b, c.id, c.targets)
    <3> DEFINE out(i) == IF i \in c.targets \cap Live(b) THEN {c.id} ELSE {}
               in(i) == IF i = c.id THEN c.targets ELSE {}
               new(i) == WithEdges(b.tasks[i], b.tasks[i].blocks \cup out(i), b.tasks[i].blockedBy \cup in(i))
    <3>1. \A i \in Ids : new(i) \in Task
      <4> SUFFICES ASSUME NEW i \in Ids PROVE new(i) \in Task
        OBVIOUS
      <4>1. out(i) \in SUBSET Ids /\ in(i) \in SUBSET Ids
        BY <1>3
      <4>2. b.tasks[i].blocks \in SUBSET Ids /\ b.tasks[i].blockedBy \in SUBSET Ids
        BY <1>0 DEF Task
      <4> HIDE DEF out, in
      <4>3. b.tasks[i].blocks \cup out(i) \in SUBSET Ids /\ b.tasks[i].blockedBy \cup in(i) \in SUBSET Ids
        BY <4>1, <4>2
      <4> QED BY <1>0, <4>3, EdgesTyped
    <3>2. d \in Board /\ d.nextId = b.nextId
      BY <3>1 DEF AddedBlockedBy, Board
    <3>3. \A i \in Ids : /\ d.tasks[i].status = b.tasks[i].status
                         /\ b.tasks[i].blocks \subseteq d.tasks[i].blocks
                         /\ b.tasks[i].blockedBy \subseteq d.tasks[i].blockedBy
      BY <1>0 DEF AddedBlockedBy, Board, Task, WithEdges
    <3>4. Apply(b, c) = d
      BY <2>3 DEF Apply
    <3> HIDE DEF d
    <3> QED BY <3>2, <3>3, <3>4, SameTasksGood
  <2> QED BY <1>3, <2>1, <2>2, <2>3
<1>4. CASE c \in [call : {"delete"}, id : Ids]
  <2>1. CASE c.id \in Live(b)
    <3>1. Apply(b, c) = Without(b, {c.id}, {c.id})
      BY <1>4, <2>1 DEF Apply
    <3> QED BY <1>4, <3>1, WithoutGood
  <2>2. CASE c.id \notin Live(b)
    BY <1>4, <2>2, SameTasksGood DEF Apply
  <2> QED BY <2>1, <2>2
<1>5. CASE c \in [call : {"clearAll", "clearCompleted"}] /\ c.call = "clearAll"
  <2>1. Apply(b, c) = [b EXCEPT !.tasks = [i \in Ids |-> NoTask]]
    BY <1>5 DEF Apply
  <2>2. Apply(b, c) \in Board
    <3>1. NoTask \in Task
      BY DEF NoTask, Task, Types
    <3> QED BY <2>1, <3>1 DEF Board
  <2>3. Live(Apply(b, c)) = {}
    BY <2>1 DEF Live, NoTask, Board
  <2>4. Apply(b, c).nextId = b.nextId /\ b.nextId <= b.nextId
    BY <2>1 DEF Board
  <2> QED BY <2>2, <2>3, <2>4 DEF Good, Fresh, Follows, Counts
<1>6. CASE c \in [call : {"clearAll", "clearCompleted"}] /\ c.call = "clearCompleted"
  <2>1. Apply(b, c) = ClearedCompleted(b)
    BY <1>6 DEF Apply
  <2>2. CASE Completed(b) = {}
    BY <2>1, <2>2, SameTasksGood DEF ClearedCompleted
  <2>3. CASE Completed(b) # {}
    <3> DEFINE cut == Ids \ (Live(b) \ Completed(b))
    <3>1. Apply(b, c) = Without(b, Completed(b), cut)
      BY <2>1, <2>3 DEF ClearedCompleted
    <3>2. Completed(b) \in SUBSET Ids /\ Completed(b) \subseteq cut
      BY DEF Completed
    <3>3. \A i \in cut : i \in Live(b) => i \in Completed(b)
      OBVIOUS
    <3>4. cut \in SUBSET Ids
      OBVIOUS
    <3> HIDE DEF cut
    <3> QED BY <3>1, <3>2, <3>3, <3>4, WithoutGood
  <2> QED BY <2>2, <2>3
<1> QED BY <1>1, <1>2, <1>3, <1>4, <1>5, <1>6 DEF Calls

-----------------------------------------------------------------------------
(* The atomic list.                                                        *)

Inv == TypeOK /\ Fresh(board)

\* An empty list is well formed.
LEMMA InvInit == Init => Inv
<1> SUFFICES ASSUME Init PROVE Inv
  OBVIOUS
<1>1. NewBoard \in Board
  BY TaskOpsAssumption DEF NewBoard, Board, NoTask, Task, Types
<1>2. Live(NewBoard) = {}
  BY DEF Live, NewBoard, NoTask
<1> QED BY <1>1, <1>2 DEF Init, Inv, TypeOK, Fresh

\* A step keeps the list well formed and treats the edges as it should.
LEMMA StepGood == Inv /\ Next => Good(board, board')
<1> SUFFICES ASSUME Inv, NEW c \in Mutations, Mutate(c) PROVE Good(board, board')
  BY DEF Next
<1> QED BY ApplyGood, TaskOpsAssumption DEF Inv, TypeOK, Mutate

\* Every mutation, and every stutter, keeps the invariant.
LEMMA InvNext == Inv /\ [Next]_board => Inv'
<1> SUFFICES ASSUME Inv, [Next]_board PROVE Inv'
  OBVIOUS
<1>1. CASE Next
  BY <1>1, StepGood DEF Good, Fresh, Inv, TypeOK, Live
<1>2. CASE UNCHANGED board
  BY <1>2 DEF Inv, TypeOK, Fresh, Live
<1> QED BY <1>1, <1>2

\* The stored tasks and the counter keep their form under every mutation.
THEOREM ListTypeCorrect == Spec => []TypeOK
<1>1. Inv => TypeOK
  BY DEF Inv
<1> QED BY <1>1, InvInit, InvNext, PTL DEF Spec

\* The counter never goes back, whatever is deleted or cleared, and a task that
\* appears has an id it passes over: no id is given twice (create).
THEOREM IdsNeverReused == Spec => IdsFresh
<1>1. Inv /\ [Next]_board =>
        [/\ board.nextId <= board'.nextId
         /\ \A i \in Live(board)' \ Live(board) : board.nextId <= i /\ i < board'.nextId]_board
  BY StepGood DEF Good, Counts, Live
<1> QED BY <1>1, InvInit, InvNext, PTL DEF Spec, IdsFresh

\* No mutation loses an edge between tasks that stay or keeps one to a task that
\* goes (delete, update to deleted, clearCompleted, clearAll).
THEOREM EdgesAreKept == Spec => EdgesFollowTasks
<1>1. Inv /\ [Next]_board =>
        [\A i \in Live(board) \cap Live(board)' :
            /\ \A j \in Live(board) \cap Live(board)' :
                  /\ j \in board.tasks[i].blockedBy => j \in board'.tasks[i].blockedBy
                  /\ j \in board.tasks[i].blocks => j \in board'.tasks[i].blocks
            /\ \A j \in Live(board) \ Live(board)' :
                  j \notin board'.tasks[i].blockedBy \cup board'.tasks[i].blocks]_board
  BY StepGood DEF Good, Follows, Live
<1> QED BY <1>1, InvInit, InvNext, PTL DEF Spec, EdgesFollowTasks

-----------------------------------------------------------------------------
(* The shared file.                                                        *)

WellFormed(b) == b \in Board /\ Fresh(b)

-----------------------------------------------------------------------------
(* The inductive invariant, in parts.                                      *)

\* As long as no live session was robbed, the lock names the one session inside.
LockOwned == ~robbed => \A p \in Holders : lock # None /\ lock.by = p

\* Who is about to save has the latest list in memory.
MemoryLatest ==
    ~robbed /\ ~deleted => \A p \in Sessions : pc[p] = "save" => mem[p] = Loaded(p)

\* As long as there never was a file nobody remembers a list.
NoFileNoMemory == ~deleted /\ file = None => \A p \in Sessions : mem[p] = NewBoard

BoardsFormed == (file # None => Fresh(file)) /\ \A p \in Sessions : Fresh(mem[p])

\* A session in withLock has a mutation to make.
CallMade == \A p \in Sessions : pc[p] \notin {"idle", "delete", "dead"} => call[p] \in Mutations

\* A session that tries for the lock has tries left.
TriesLeft == \A p \in Sessions : pc[p] \in {"try", "poll", "steal", "wait"} => tries[p] < MaxTries

\* While everybody lives and tokens come with their locks, no lock looks stale.
Sober ==
    ~TornCreate /\ (\A p \in Sessions : Alive(p)) =>
        /\ ~robbed
        /\ \A p \in Sessions : pc[p] # "steal"
        /\ lock # None => lock.written

SInv ==
    /\ StoreTypeOK /\ TriesLeft /\ LockOwned /\ MemoryLatest
    /\ NoFileNoMemory /\ BoardsFormed /\ CallMade /\ Sober

-----------------------------------------------------------------------------
\* Initially no lock, no file, nobody at work.
LEMMA SInvInit == StoreInit => SInv
<1> SUFFICES ASSUME StoreInit PROVE SInv
  OBVIOUS
<1>1. NewBoard \in Board
  BY TaskOpsAssumption DEF NewBoard, Board, NoTask, Task, Types
<1>2. Fresh(NewBoard)
  BY DEF Live, NewBoard, NoTask, Fresh
<1>3. StoreTypeOK
  <2>1. lock = None /\ file = None /\ mem \in [Sessions -> Board]
    BY <1>1 DEF StoreInit
  <2>2. pc \in [Sessions -> Places] /\ call \in [Sessions -> Mutations \cup {None}]
    BY DEF StoreInit, Places
  <2>3. tries \in [Sessions -> 0..MaxTries] /\ calls \in [Sessions -> 0..MaxCalls]
    BY TaskStoreAssumption DEF StoreInit
  <2>4. contended \in [Sessions -> BOOLEAN] /\ robbed \in BOOLEAN /\ deleted \in BOOLEAN
    BY DEF StoreInit
  <2> QED BY <2>1, <2>2, <2>3, <2>4 DEF StoreTypeOK
<1>4. TriesLeft /\ MemoryLatest /\ NoFileNoMemory /\ BoardsFormed /\ CallMade
  BY <1>2 DEF StoreInit, TriesLeft, MemoryLatest, NoFileNoMemory, BoardsFormed, CallMade
<1>5. LockOwned
  BY DEF StoreInit, LockOwned, Holders, Inside
<1>6. Sober
  BY DEF StoreInit, Sober
<1> QED BY <1>3, <1>4, <1>5, <1>6 DEF SInv

\* Entering withLock keeps the invariant.
LEMMA BeginKeeps ==
    ASSUME SInv, NEW p \in Sessions, NEW c \in Mutations, Begin(p, c)
    PROVE  SInv'
<1> USE TaskStoreAssumption DEF SInv, Inside
<1>1. StoreTypeOK'
  BY DEF StoreTypeOK, Places, TriesLeft, Begin, Goes
<1>2. TriesLeft'
  BY DEF TriesLeft, StoreTypeOK, Begin, Goes
<1>3. LockOwned'
  BY DEF LockOwned, Holders, StoreTypeOK, Begin, Goes
<1>4. MemoryLatest'
  BY DEF MemoryLatest, LockOwned, Holders, StoreTypeOK, Loaded, Begin, Goes
<1>5. NoFileNoMemory'
  BY DEF NoFileNoMemory, StoreTypeOK, Begin, Goes
<1>6. BoardsFormed'
  BY DEF BoardsFormed, StoreTypeOK, Begin, Goes
<1>7. CallMade'
  BY DEF CallMade, StoreTypeOK, Begin, Goes
<1>8. Sober'
  BY DEF Sober, Alive, StoreTypeOK, Begin, Goes
<1> QED BY <1>1, <1>2, <1>3, <1>4, <1>5, <1>6, <1>7, <1>8

\* Creating the lock file, or finding one, keeps the invariant.
LEMMA TryLockKeeps ==
    ASSUME SInv, NEW p \in Sessions, TryLock(p)
    PROVE  SInv'
<1> USE TaskStoreAssumption DEF SInv, Inside
<1> DEFINE mine == [by |-> p, written |-> ~TornCreate]
<1>0. /\ mine \in [by : Sessions, written : BOOLEAN] /\ mine # None
      /\ mine.by = p /\ mine.written = ~TornCreate
  <2>1. mine \in [by : Sessions, written : BOOLEAN] /\ mine.by = p /\ mine.written = ~TornCreate
    OBVIOUS
  <2> HIDE DEF mine
  <2> QED BY <2>1
<1>9. \/ lock = None /\ lock' = mine /\ pc' = [pc EXCEPT ![p] = IF TornCreate THEN "write" ELSE "load"]
      \/ lock # None /\ lock' = lock /\ pc' = [pc EXCEPT ![p] = "poll"]
  BY DEF TryLock, Goes
<1>10. /\ pc[p] = "try" /\ UNCHANGED <<file, mem, call, tries, calls, robbed, deleted>>
       /\ contended' = [contended EXCEPT ![p] = @ \/ HeldByLive]
  BY DEF TryLock
<1> HIDE DEF mine
<1>1. StoreTypeOK'
  BY <1>0, <1>9, <1>10 DEF StoreTypeOK, Places, HeldByLive, Alive
<1>2. TriesLeft'
  BY <1>0, <1>9, <1>10 DEF TriesLeft, StoreTypeOK
<1>3. LockOwned'
  BY <1>0, <1>9, <1>10 DEF LockOwned, Holders, StoreTypeOK
<1>4. MemoryLatest'
  BY <1>0, <1>9, <1>10 DEF MemoryLatest, StoreTypeOK, Loaded
<1>5. NoFileNoMemory'
  BY <1>0, <1>9, <1>10 DEF NoFileNoMemory
<1>6. BoardsFormed'
  BY <1>0, <1>9, <1>10 DEF BoardsFormed
<1>7. CallMade'
  BY <1>0, <1>9, <1>10 DEF CallMade, StoreTypeOK
<1>8. Sober'
  BY <1>0, <1>9, <1>10 DEF Sober, Alive, StoreTypeOK
<1> QED BY <1>1, <1>2, <1>3, <1>4, <1>5, <1>6, <1>7, <1>8

\* The token that is written into the lock file keeps the invariant.
LEMMA WriteTokenKeeps ==
    ASSUME SInv, NEW p \in Sessions, WriteToken(p)
    PROVE  SInv'
<1> USE TaskStoreAssumption DEF SInv, Inside
<1>9. /\ lock' = lock \/ (lock # None /\ lock' = [lock EXCEPT !.written = TRUE])
      /\ pc[p] = "write" /\ pc' = [pc EXCEPT ![p] = "load"]
      /\ UNCHANGED <<file, mem, call, tries, calls, contended, robbed, deleted>>
  BY DEF WriteToken, Goes
<1>0. lock # None => /\ lock' # None /\ lock'.by = lock.by
                     /\ lock.written => lock'.written
                     /\ lock' \in [by : Sessions, written : BOOLEAN]
  <2>1. CASE lock' = lock
    BY <2>1 DEF StoreTypeOK
  <2>2. CASE lock # None /\ lock' = [lock EXCEPT !.written = TRUE]
    <3> DEFINE now == [lock EXCEPT !.written = TRUE]
    <3>1. lock \in [by : Sessions, written : BOOLEAN]
      BY <2>2 DEF StoreTypeOK
    <3>2. now \in [by : Sessions, written : BOOLEAN] /\ now.by = lock.by /\ now.written
      BY <3>1
    <3>3. lock' = now
      BY <2>2
    <3> HIDE DEF now
    <3> QED BY <3>2, <3>3
  <2> QED BY <1>9, <2>1, <2>2
<1>10. lock = None => lock' = None
  BY <1>9
<1>1. StoreTypeOK'
  BY <1>0, <1>9, <1>10 DEF StoreTypeOK, Places
<1>2. TriesLeft'
  BY <1>0, <1>9, <1>10 DEF TriesLeft, StoreTypeOK
<1>3. LockOwned'
  BY <1>0, <1>9, <1>10 DEF LockOwned, Holders, StoreTypeOK
<1>4. MemoryLatest'
  BY <1>0, <1>9, <1>10 DEF MemoryLatest, StoreTypeOK, Loaded
<1>5. NoFileNoMemory'
  BY <1>0, <1>9, <1>10 DEF NoFileNoMemory
<1>6. BoardsFormed'
  BY <1>0, <1>9, <1>10 DEF BoardsFormed
<1>7. CallMade'
  BY <1>0, <1>9, <1>10 DEF CallMade, StoreTypeOK
<1>8. Sober'
  BY <1>0, <1>9, <1>10 DEF Sober, Alive, StoreTypeOK
<1> QED BY <1>1, <1>2, <1>3, <1>4, <1>5, <1>6, <1>7, <1>8

\* Looking at another's lock keeps the invariant.
LEMMA PollKeeps ==
    ASSUME SInv, NEW p \in Sessions, Poll(p)
    PROVE  SInv'
<1> USE TaskStoreAssumption DEF SInv, Inside
<1>1. StoreTypeOK'
  BY DEF StoreTypeOK, Places, TriesLeft, Poll, Goes, Stale, HeldByLive, Alive
<1>2. TriesLeft'
  BY DEF TriesLeft, StoreTypeOK, Poll, Goes, Stale, HeldByLive, Alive
<1>3. LockOwned'
  BY DEF LockOwned, Holders, StoreTypeOK, Poll, Goes, Stale, HeldByLive, Alive
<1>4. MemoryLatest'
  BY DEF MemoryLatest, LockOwned, Holders, StoreTypeOK, Loaded, Poll, Goes, Stale, HeldByLive, Alive
<1>5. NoFileNoMemory'
  BY DEF NoFileNoMemory, StoreTypeOK, Poll, Goes, Stale, HeldByLive, Alive
<1>6. BoardsFormed'
  BY DEF BoardsFormed, StoreTypeOK, Poll, Goes, Stale, HeldByLive, Alive
<1>7. CallMade'
  BY DEF CallMade, StoreTypeOK, Poll, Goes, Stale, HeldByLive, Alive
<1>8. Sober'
  BY DEF Sober, Alive, StoreTypeOK, Poll, Goes, Stale, HeldByLive
<1> QED BY <1>1, <1>2, <1>3, <1>4, <1>5, <1>6, <1>7, <1>8

\* Taking a lock over, from a dead session or from a live one that is robbed.
LEMMA StealKeeps ==
    ASSUME SInv, NEW p \in Sessions, Steal(p)
    PROVE  SInv'
<1> USE TaskStoreAssumption DEF SInv, Inside
<1>1. StoreTypeOK'
  BY DEF StoreTypeOK, Places, TriesLeft, Steal, NextTry, Goes, HeldByLive, Alive
<1>2. TriesLeft'
  BY DEF TriesLeft, StoreTypeOK, Steal, NextTry, Goes, HeldByLive, Alive
<1>3. LockOwned'
  <2>1. PICK place \in {"wait", "try", "idle"} : pc' = [pc EXCEPT ![p] = place]
    BY DEF Steal, NextTry, Goes
  <2>2. Holders' \subseteq Holders
    BY <2>1 DEF Holders, StoreTypeOK
  <2>3. lock' = None /\ (~robbed' => ~robbed /\ ~HeldByLive)
    BY DEF Steal
  <2>4. \A q \in Holders : Alive(q)
    BY DEF Holders, Alive
  <2>5. ~robbed' => Holders = {}
    BY <2>3, <2>4 DEF LockOwned, HeldByLive
  <2> QED BY <2>2, <2>5 DEF LockOwned
<1>4. MemoryLatest'
  BY DEF MemoryLatest, LockOwned, Holders, StoreTypeOK, Loaded, Steal, NextTry, Goes, HeldByLive, Alive
<1>5. NoFileNoMemory'
  BY DEF NoFileNoMemory, StoreTypeOK, Steal, NextTry, Goes, HeldByLive, Alive
<1>6. BoardsFormed'
  BY DEF BoardsFormed, StoreTypeOK, Steal, NextTry, Goes, HeldByLive, Alive
<1>7. CallMade'
  BY DEF CallMade, StoreTypeOK, Steal, NextTry, Goes, HeldByLive, Alive
<1>8. Sober'
  BY DEF Sober, Alive, StoreTypeOK, Steal, NextTry, Goes, HeldByLive
<1> QED BY <1>1, <1>2, <1>3, <1>4, <1>5, <1>6, <1>7, <1>8

\* The busy wait keeps the invariant.
LEMMA WaitKeeps ==
    ASSUME SInv, NEW p \in Sessions, Wait(p)
    PROVE  SInv'
<1> USE TaskStoreAssumption DEF SInv, Inside
<1>1. StoreTypeOK'
  BY DEF StoreTypeOK, Places, TriesLeft, Wait, NextTry, Goes
<1>2. TriesLeft'
  BY DEF TriesLeft, StoreTypeOK, Wait, NextTry, Goes
<1>3. LockOwned'
  BY DEF LockOwned, Holders, StoreTypeOK, Wait, NextTry, Goes
<1>4. MemoryLatest'
  BY DEF MemoryLatest, LockOwned, Holders, StoreTypeOK, Loaded, Wait, NextTry, Goes
<1>5. NoFileNoMemory'
  BY DEF NoFileNoMemory, StoreTypeOK, Wait, NextTry, Goes
<1>6. BoardsFormed'
  BY DEF BoardsFormed, StoreTypeOK, Wait, NextTry, Goes
<1>7. CallMade'
  BY DEF CallMade, StoreTypeOK, Wait, NextTry, Goes
<1>8. Sober'
  BY DEF Sober, Alive, StoreTypeOK, Wait, NextTry, Goes
<1> QED BY <1>1, <1>2, <1>3, <1>4, <1>5, <1>6, <1>7, <1>8

\* Reading the latest list keeps the invariant.
LEMMA LoadKeeps ==
    ASSUME SInv, NEW p \in Sessions, Load(p)
    PROVE  SInv'
<1> USE TaskStoreAssumption DEF SInv, Inside
<1>1. StoreTypeOK'
  BY DEF StoreTypeOK, Places, TriesLeft, Load, Goes, Loaded
<1>2. TriesLeft'
  BY DEF TriesLeft, StoreTypeOK, Load, Goes, Loaded
<1>3. LockOwned'
  BY DEF LockOwned, Holders, StoreTypeOK, Load, Goes, Loaded
<1>4. MemoryLatest'
  BY DEF MemoryLatest, LockOwned, Holders, StoreTypeOK, Loaded, Load, Goes
<1>5. NoFileNoMemory'
  BY DEF NoFileNoMemory, StoreTypeOK, Load, Goes, Loaded
<1>6. BoardsFormed'
  BY DEF BoardsFormed, StoreTypeOK, Load, Goes, Loaded
<1>7. CallMade'
  BY DEF CallMade, StoreTypeOK, Load, Goes, Loaded
<1>8. Sober'
  BY DEF Sober, Alive, StoreTypeOK, Load, Goes, Loaded
<1> QED BY <1>1, <1>2, <1>3, <1>4, <1>5, <1>6, <1>7, <1>8

\* Applying the mutation and writing the list keeps the invariant.
LEMMA SaveKeeps ==
    ASSUME SInv, NEW p \in Sessions, Save(p)
    PROVE  SInv'
<1> USE TaskStoreAssumption DEF SInv, Inside
<1> DEFINE b == IF Possible(mem[p], call[p]) THEN Apply(mem[p], call[p]) ELSE mem[p]
<1>0. WellFormed(b)
  <2>1. call[p] \in Calls
    BY TaskOpsAssumption DEF CallMade, Save
  <2>2. mem[p] \in Board /\ Fresh(mem[p])
    BY DEF StoreTypeOK, BoardsFormed
  <2>3. CASE Possible(mem[p], call[p])
    BY <2>1, <2>2, <2>3, ApplyGood DEF Good, WellFormed
  <2>4. CASE ~Possible(mem[p], call[p])
    BY <2>2, <2>4 DEF WellFormed
  <2> QED BY <2>3, <2>4
<1>9. mem' = [mem EXCEPT ![p] = b] /\ file' = b
  BY DEF Save, StoreTypeOK
<1> HIDE DEF b
<1>10. b # None
  BY <1>0 DEF WellFormed
<1>1. StoreTypeOK'
  BY <1>0, <1>9 DEF Save, Goes, StoreTypeOK, Places, WellFormed
<1>2. TriesLeft'
  BY DEF TriesLeft, StoreTypeOK, Save, Goes
<1>3. LockOwned'
  BY DEF LockOwned, Holders, StoreTypeOK, Save, Goes
<1>4. MemoryLatest'
  BY DEF MemoryLatest, LockOwned, Holders, StoreTypeOK, Loaded, Save, Goes
<1>5. NoFileNoMemory'
  BY <1>9, <1>10 DEF NoFileNoMemory
<1>6. BoardsFormed'
  BY <1>0, <1>9 DEF BoardsFormed, StoreTypeOK, WellFormed
<1>7. CallMade'
  BY DEF CallMade, StoreTypeOK, Save, Goes
<1>8. Sober'
  BY DEF Sober, Alive, StoreTypeOK, Save, Goes
<1> QED BY <1>1, <1>2, <1>3, <1>4, <1>5, <1>6, <1>7, <1>8

\* releaseLock reading the lock file keeps the invariant.
LEMMA CheckLockKeeps ==
    ASSUME SInv, NEW p \in Sessions, CheckLock(p)
    PROVE  SInv'
<1> USE TaskStoreAssumption DEF SInv, Inside
<1>1. StoreTypeOK'
  BY DEF StoreTypeOK, Places, TriesLeft, CheckLock, Goes, Ended, After
<1>2. TriesLeft'
  BY DEF TriesLeft, StoreTypeOK, CheckLock, Goes, Ended, After
<1>3. LockOwned'
  BY DEF LockOwned, Holders, StoreTypeOK, CheckLock, Goes, Ended, After
<1>4. MemoryLatest'
  BY DEF MemoryLatest, LockOwned, Holders, StoreTypeOK, Loaded, CheckLock, Goes, Ended, After
<1>5. NoFileNoMemory'
  BY DEF NoFileNoMemory, StoreTypeOK, CheckLock, Goes, Ended, After
<1>6. BoardsFormed'
  BY DEF BoardsFormed, StoreTypeOK, CheckLock, Goes, Ended, After
<1>7. CallMade'
  BY DEF CallMade, StoreTypeOK, CheckLock, Goes, Ended, After
<1>8. Sober'
  BY DEF Sober, Alive, StoreTypeOK, CheckLock, Goes, Ended, After
<1> QED BY <1>1, <1>2, <1>3, <1>4, <1>5, <1>6, <1>7, <1>8

\* releaseLock removing it keeps the invariant.
LEMMA UnlinkKeeps ==
    ASSUME SInv, NEW p \in Sessions, Unlink(p)
    PROVE  SInv'
<1> USE TaskStoreAssumption DEF SInv, Inside
<1>1. StoreTypeOK'
  BY DEF StoreTypeOK, Places, TriesLeft, Unlink, Goes, Ended, After
<1>2. TriesLeft'
  BY DEF TriesLeft, StoreTypeOK, Unlink, Goes, Ended, After
<1>3. LockOwned'
  BY DEF LockOwned, Holders, StoreTypeOK, Unlink, Goes, Ended, After
<1>4. MemoryLatest'
  BY DEF MemoryLatest, LockOwned, Holders, StoreTypeOK, Loaded, Unlink, Goes, Ended, After
<1>5. NoFileNoMemory'
  BY DEF NoFileNoMemory, StoreTypeOK, Unlink, Goes, Ended, After
<1>6. BoardsFormed'
  BY DEF BoardsFormed, StoreTypeOK, Unlink, Goes, Ended, After
<1>7. CallMade'
  BY DEF CallMade, StoreTypeOK, Unlink, Goes, Ended, After
<1>8. Sober'
  BY DEF Sober, Alive, StoreTypeOK, Unlink, Goes, Ended, After
<1> QED BY <1>1, <1>2, <1>3, <1>4, <1>5, <1>6, <1>7, <1>8

\* Deleting the task file keeps the invariant.
LEMMA DeleteFileKeeps ==
    ASSUME SInv, NEW p \in Sessions, DeleteFile(p)
    PROVE  SInv'
<1> USE TaskStoreAssumption DEF SInv, Inside
<1>1. StoreTypeOK'
  BY DEF StoreTypeOK, Places, TriesLeft, DeleteFile, Goes
<1>2. TriesLeft'
  BY DEF TriesLeft, StoreTypeOK, DeleteFile, Goes
<1>3. LockOwned'
  BY DEF LockOwned, Holders, StoreTypeOK, DeleteFile, Goes
<1>4. MemoryLatest'
  BY DEF MemoryLatest, LockOwned, Holders, StoreTypeOK, Loaded, DeleteFile, Goes
<1>5. NoFileNoMemory'
  BY DEF NoFileNoMemory, StoreTypeOK, DeleteFile, Goes
<1>6. BoardsFormed'
  BY DEF BoardsFormed, StoreTypeOK, DeleteFile, Goes
<1>7. CallMade'
  BY DEF CallMade, StoreTypeOK, DeleteFile, Goes
<1>8. Sober'
  BY DEF Sober, Alive, StoreTypeOK, DeleteFile, Goes
<1> QED BY <1>1, <1>2, <1>3, <1>4, <1>5, <1>6, <1>7, <1>8

\* get, list and snapshot keep the invariant.
LEMMA ReadKeeps ==
    ASSUME SInv, NEW p \in Sessions, Read(p)
    PROVE  SInv'
<1> USE TaskStoreAssumption DEF SInv, Inside
<1>1. StoreTypeOK'
  BY DEF StoreTypeOK, Places, TriesLeft, Read, Loaded
<1>2. TriesLeft'
  BY DEF TriesLeft, StoreTypeOK, Read, Loaded
<1>3. LockOwned'
  BY DEF LockOwned, Holders, StoreTypeOK, Read, Loaded
<1>4. MemoryLatest'
  BY DEF MemoryLatest, LockOwned, Holders, StoreTypeOK, Loaded, Read
<1>5. NoFileNoMemory'
  BY DEF NoFileNoMemory, StoreTypeOK, Read, Loaded
<1>6. BoardsFormed'
  BY DEF BoardsFormed, StoreTypeOK, Read, Loaded
<1>7. CallMade'
  BY DEF CallMade, StoreTypeOK, Read, Loaded
<1>8. Sober'
  BY DEF Sober, Alive, StoreTypeOK, Read, Loaded
<1> QED BY <1>1, <1>2, <1>3, <1>4, <1>5, <1>6, <1>7, <1>8

\* A death keeps the invariant.
LEMMA CrashKeeps ==
    ASSUME SInv, NEW p \in Sessions, Crash(p)
    PROVE  SInv'
<1> USE TaskStoreAssumption DEF SInv, Inside
<1>1. StoreTypeOK'
  BY DEF StoreTypeOK, Places, TriesLeft, Crash, Goes, Alive
<1>2. TriesLeft'
  BY DEF TriesLeft, StoreTypeOK, Crash, Goes, Alive
<1>3. LockOwned'
  BY DEF LockOwned, Holders, StoreTypeOK, Crash, Goes, Alive
<1>4. MemoryLatest'
  BY DEF MemoryLatest, LockOwned, Holders, StoreTypeOK, Loaded, Crash, Goes, Alive
<1>5. NoFileNoMemory'
  BY DEF NoFileNoMemory, StoreTypeOK, Crash, Goes, Alive
<1>6. BoardsFormed'
  BY DEF BoardsFormed, StoreTypeOK, Crash, Goes, Alive
<1>7. CallMade'
  BY DEF CallMade, StoreTypeOK, Crash, Goes, Alive
<1>8. Sober'
  BY DEF Sober, Alive, StoreTypeOK, Crash, Goes
<1> QED BY <1>1, <1>2, <1>3, <1>4, <1>5, <1>6, <1>7, <1>8

-----------------------------------------------------------------------------
\* Every step of every session keeps the invariant.
LEMMA SInvNext == SInv /\ [StoreNext]_storeVars => SInv'
<1> SUFFICES ASSUME SInv, [StoreNext]_storeVars PROVE SInv'
  OBVIOUS
<1>1. CASE UNCHANGED storeVars
  BY <1>1 DEF storeVars, SInv, StoreTypeOK, TriesLeft, LockOwned, Holders, MemoryLatest,
              Loaded, NoFileNoMemory, BoardsFormed, CallMade, Sober, Alive
<1>2. CASE StoreNext
  <2>1. PICK p \in Sessions :
          \/ \E c \in Mutations : Begin(p, c)
          \/ TryLock(p) \/ WriteToken(p) \/ Poll(p) \/ Steal(p) \/ Wait(p)
          \/ Load(p) \/ Save(p) \/ CheckLock(p) \/ Unlink(p) \/ DeleteFile(p)
          \/ Read(p) \/ Crash(p)
    BY <1>2 DEF StoreNext
  <2> QED BY <2>1, BeginKeeps, TryLockKeeps, WriteTokenKeeps, PollKeeps, StealKeeps, WaitKeeps,
             LoadKeeps, SaveKeeps, CheckLockKeeps, UnlinkKeeps, DeleteFileKeeps, ReadKeeps, CrashKeeps
<1> QED BY <1>1, <1>2

-----------------------------------------------------------------------------
\* withLock excludes: however many sessions share the list and wherever they die,
\* at most one is between acquireLock and releaseLock until a live session's lock
\* is taken over; and that takes a death or a lock file without its token.
THEOREM LockExcludes == StoreSpec => []ExclusionKept
<1>1. SInv => ExclusionKept
  BY DEF SInv, LockOwned, Sober, ExclusionKept, MutualExclusion
<1> QED BY <1>1, SInvInit, SInvNext, PTL DEF StoreSpec

\* The instance's operators are the ones of TaskOps.
LEMMA SameOps ==
    /\ List!NewBoard = NewBoard
    /\ \A b, c : List!Apply(b, c) = Apply(b, c)
    /\ \A b, c : List!Possible(b, c) = Possible(b, c)
<1>1. List!NewBoard = NewBoard
  BY DEF List!NewBoard, NewBoard, List!NoTask, NoTask, List!Ids, Ids
<1>2. ASSUME NEW b, NEW c PROVE List!Apply(b, c) = Apply(b, c)
  BY Zenon DEF List!Apply, Apply, List!Created, Created, List!Live, Live, List!AddedBlocks, AddedBlocks,
         List!AddedBlockedBy, AddedBlockedBy, List!Without, Without, List!NoTask, NoTask,
         List!ClearedCompleted, ClearedCompleted, List!Completed, Completed, List!Ids, Ids,
         List!WithEdges, WithEdges
<1>3. ASSUME NEW b, NEW c PROVE List!Possible(b, c) = Possible(b, c)
  BY DEF List!Possible, Possible
<1> QED BY <1>1, <1>2, <1>3

\* The file that the sessions share behaves like one atomic list: whoever dies,
\* every mutation is applied to the latest state and none is lost, until a live
\* session's lock is taken over or the file is deleted.  A behaviour in which neither
\* happens implements the list.
THEOREM SharedListAtomic ==
    StoreSpec => ListWhileKept /\ ([][~robbed' /\ ~deleted']_storeVars => ListSpec)
<1>1. SInv /\ [StoreNext]_storeVars =>
        [robbed' \/ deleted' \/ List!Next \/ UNCHANGED Shared]_storeVars
  <2> SUFFICES ASSUME SInv, [StoreNext]_storeVars, ~robbed', ~deleted', Shared' # Shared
               PROVE  List!Next
    BY DEF storeVars, Shared
  <2>0. file' # file
    BY DEF Shared
  <2>1. PICK p \in Sessions : Save(p)
    BY <2>0 DEF StoreNext, storeVars, Begin, TryLock, WriteToken, Poll, Steal, Wait, Load,
           CheckLock, Unlink, DeleteFile, Read, Crash
  <2>2. ~robbed /\ ~deleted
    BY <2>1 DEF Save
  <2>3. mem[p] = Shared /\ mem[p] \in Board /\ call[p] \in Mutations
    BY <2>1, <2>2 DEF SInv, Save, MemoryLatest, NoFileNoMemory, Loaded, StoreTypeOK, CallMade, Shared
  <2>4. file' = IF Possible(Shared, call[p]) THEN Apply(Shared, call[p]) ELSE Shared
    BY <2>1, <2>3 DEF Save, SInv, StoreTypeOK
  <2>5. file' # None
    <3>1. mem'[p] \in Board
      BY SInvNext DEF SInv, StoreTypeOK
    <3> QED BY <2>1, <3>1, TaskStoreAssumption DEF Save
  <2>6. Shared' = file'
    BY <2>5 DEF Shared
  <2>7. Possible(Shared, call[p]) /\ Shared' = Apply(Shared, call[p])
    BY <2>4, <2>6
  <2> QED BY <2>3, <2>7, SameOps DEF List!Next, List!Mutate
<1>2. StoreInit => List!Init
  BY SameOps DEF StoreInit, List!Init, Shared
<1>3. [robbed' \/ deleted' \/ List!Next \/ UNCHANGED Shared]_storeVars /\ [~robbed' /\ ~deleted']_storeVars
      => [List!Next]_Shared
  BY DEF storeVars, Shared
<1> QED BY <1>1, <1>2, <1>3, SInvInit, SInvNext, PTL DEF StoreSpec, ListWhileKept, ListSpec, List!Spec

-----------------------------------------------------------------------------
(* The takeover of what dead sessions left behind.  A session that never   *)
(* meets a live owner loses a try only to a dead one's lock, and each dead *)
(* session left at most one: the tries are counted against the deaths.     *)

\* The retry budget is larger than the number of sessions that die (the code
\* makes a hundred tries).
Patient == MaxTries > MaxCrashes + 2

Dead == {q \in Sessions : pc[q] = "dead"}
Deaths == Cardinality(Dead)

\* The lock file is a dead session's.
Leftover == IF lock # None /\ pc[lock.by] = "dead" THEN 1 ELSE 0

LockTyped ==
    /\ lock \in {None} \cup [by : Sessions, written : BOOLEAN]
    /\ pc \in [Sessions -> Places]
    /\ tries \in [Sessions -> Nat]
    /\ contended \in [Sessions -> BOOLEAN]

DeathsBounded == IsFiniteSet(Dead) /\ Deaths <= MaxCrashes /\ Leftover <= Deaths

\* The tries of a session that met no live owner, by the place where it is.
TriesPaid ==
    \A p \in Sessions : ~contended[p] =>
        /\ tries[p] <= Deaths + 2
        /\ pc[p] = "try" => tries[p] + Leftover <= Deaths + 2
        /\ pc[p] \in {"poll", "steal"} => tries[p] <= Deaths + 1
        /\ pc[p] = "wait" => tries[p] + Leftover <= Deaths + 1

DInv == LockTyped /\ DeathsBounded /\ TriesPaid

\* Initially nobody is dead and nobody tries.
LEMMA DInvInit == StoreInit => DInv
<1> SUFFICES ASSUME StoreInit PROVE DInv
  OBVIOUS
<1>1. Dead = {}
  BY DEF StoreInit, Dead
<1>2. IsFiniteSet(Dead) /\ Deaths = 0
  BY <1>1, FS_EmptySet DEF Deaths
<1>3. Leftover = 0
  BY DEF StoreInit, Leftover
<1> QED BY <1>2, <1>3, TaskStoreAssumption
     DEF StoreInit, DInv, LockTyped, DeathsBounded, TriesPaid, Places, Inside

\* The counts are numbers, and a lock left behind has a dead owner.
LEMMA DeathCounts ==
    ASSUME DInv PROVE Deaths \in Nat /\ Leftover \in {0, 1}
BY FS_CardinalityType DEF DInv, DeathsBounded, Deaths, Leftover

\* A step in which nobody dies changes neither the dead nor their number.
LEMMA SameDeaths ==
    ASSUME DInv, NEW p \in Sessions, NEW place, place # "dead", pc[p] # "dead",
           pc' = [pc EXCEPT ![p] = place]
    PROVE  Dead' = Dead /\ Deaths' = Deaths
<1>1. Dead' = Dead
  BY DEF DInv, LockTyped, Dead
<1> QED BY <1>1 DEF Deaths

\* Entering withLock: the tries are counted afresh.
LEMMA BeginPays ==
    ASSUME DInv, NEW p \in Sessions, NEW c \in Mutations, Begin(p, c) PROVE DInv'
<1>1. Dead' = Dead /\ Deaths' = Deaths
  BY SameDeaths DEF Begin, Goes
<1>2. Leftover' = Leftover
  BY DEF Begin, Goes, Leftover, DInv, LockTyped
<1> QED BY <1>1, <1>2, DeathCounts DEF DInv, LockTyped, DeathsBounded, TriesPaid, Begin, Goes, Places

\* An attempt at the lock fails at no cost yet, or on a leftover.
LEMMA TryLockPays ==
    ASSUME DInv, NEW p \in Sessions, TryLock(p) PROVE DInv'
<1> DEFINE mine == [by |-> p, written |-> ~TornCreate]
<1>1. mine \in [by : Sessions, written : BOOLEAN] /\ mine.by = p
  BY TaskStoreAssumption
<1>2. \/ lock = None /\ lock' = mine /\ pc' = [pc EXCEPT ![p] = IF TornCreate THEN "write" ELSE "load"]
      \/ lock # None /\ lock' = lock /\ pc' = [pc EXCEPT ![p] = "poll"]
  BY DEF TryLock, Goes
<1>3. pc[p] = "try" /\ tries' = tries /\ contended' = [contended EXCEPT ![p] = @ \/ HeldByLive]
  BY DEF TryLock
<1> HIDE DEF mine
<1>4. Dead' = Dead /\ Deaths' = Deaths
  BY <1>2, <1>3, SameDeaths
<1>5. Leftover' = Leftover
  BY <1>1, <1>2, <1>3 DEF Leftover, DInv, LockTyped
<1>6. LockTyped'
  BY <1>1, <1>2, <1>3 DEF DInv, LockTyped, Places, Inside, HeldByLive, Alive
<1>7. TriesPaid'
  <2>1. lock # None => HeldByLive \/ Leftover = 1
    BY DEF HeldByLive, Alive, Leftover
  <2>2. contended[p] \/ HeldByLive => contended'[p]
    BY <1>3, Zenon DEF DInv, LockTyped
  <2>3. \A q \in Sessions : q # p => contended'[q] = contended[q] /\ pc'[q] = pc[q]
    BY <1>2, <1>3 DEF DInv, LockTyped
  <2>4. pc'[p] \in {"write", "load"} \/ (pc'[p] = "poll" /\ lock # None)
    BY <1>2 DEF DInv, LockTyped
  <2>5. \A q \in Sessions : tries[q] \in Nat
    BY DEF DInv, LockTyped
  <2>6. SUFFICES ASSUME NEW q \in Sessions, ~contended'[q]
        PROVE /\ tries'[q] <= Deaths' + 2
              /\ pc'[q] = "try" => tries'[q] + Leftover' <= Deaths' + 2
              /\ pc'[q] \in {"poll", "steal"} => tries'[q] <= Deaths' + 1
              /\ pc'[q] = "wait" => tries'[q] + Leftover' <= Deaths' + 1
    BY DEF TriesPaid
  <2>7. CASE q = p
    BY <1>3, <1>4, <1>5, <2>1, <2>2, <2>4, <2>5, <2>6, <2>7, DeathCounts DEF DInv, TriesPaid
  <2>8. CASE q # p
    BY <1>3, <1>4, <1>5, <2>3, <2>6, <2>8 DEF DInv, TriesPaid
  <2> QED BY <2>7, <2>8
<1> QED BY <1>4, <1>5, <1>6, <1>7 DEF DInv, DeathsBounded

\* The token does not change whose the lock is.
LEMMA WriteTokenPays ==
    ASSUME DInv, NEW p \in Sessions, WriteToken(p) PROVE DInv'
<1>1. Dead' = Dead /\ Deaths' = Deaths
  BY SameDeaths DEF WriteToken, Goes
<1>2. /\ lock' = lock \/ (lock # None /\ lock' = [lock EXCEPT !.written = TRUE])
      /\ pc[p] = "write" /\ pc' = [pc EXCEPT ![p] = "load"]
      /\ tries' = tries /\ contended' = contended
  BY DEF WriteToken, Goes
<1>3. lock # None => lock' # None /\ lock'.by = lock.by /\ lock' \in [by : Sessions, written : BOOLEAN]
  BY <1>2, TaskStoreAssumption, ZenonT(40) DEF DInv, LockTyped
<1>4. Leftover' = Leftover
  BY <1>2, <1>3 DEF Leftover, DInv, LockTyped
<1>5. LockTyped'
  BY <1>2, <1>3 DEF DInv, LockTyped, Places, Inside
<1>6. TriesPaid'
  BY <1>1, <1>2, <1>4 DEF DInv, LockTyped, TriesPaid
<1> QED BY <1>1, <1>4, <1>5, <1>6 DEF DInv, DeathsBounded

\* A leftover is stale when it names its owner, or at the third poll.
LEMMA PollPays ==
    ASSUME DInv, NEW p \in Sessions, Poll(p) PROVE DInv'
<1>1. Dead' = Dead /\ Deaths' = Deaths
  BY SameDeaths DEF Poll, Goes
<1>2. Leftover' = Leftover
  BY DEF Poll, Goes, Leftover, DInv, LockTyped
<1>3. LockTyped'
  BY DEF Poll, Goes, DInv, LockTyped, Places, Inside, HeldByLive, Alive
<1>4. TriesPaid'
  BY <1>1, <1>2, DeathCounts
     DEF Poll, Goes, Stale, HeldByLive, Alive, DInv, LockTyped, DeathsBounded, TriesPaid, Leftover
<1> QED BY <1>1, <1>2, <1>3, <1>4 DEF DInv, DeathsBounded

\* A steal costs a try and removes the leftover.
LEMMA StealPays ==
    ASSUME DInv, NEW p \in Sessions, Steal(p) PROVE DInv'
<1>1. Dead' = Dead /\ Deaths' = Deaths
  BY SameDeaths DEF Steal, NextTry, Goes
<1>2. Leftover' = 0 /\ (lock = None => Leftover = 0)
  BY DEF Steal, Leftover
<1>3. LockTyped'
  BY DEF Steal, NextTry, Goes, DInv, LockTyped, Places
<1>4. TriesPaid'
  BY <1>1, <1>2, DeathCounts DEF Steal, NextTry, Goes, DInv, LockTyped, TriesPaid
<1> QED BY <1>1, <1>2, <1>3, <1>4, DeathCounts DEF DInv, DeathsBounded

\* The busy wait costs a try.
LEMMA WaitPays ==
    ASSUME DInv, NEW p \in Sessions, Wait(p) PROVE DInv'
<1>1. Dead' = Dead /\ Deaths' = Deaths
  BY SameDeaths DEF Wait, NextTry, Goes
<1>2. Leftover' = Leftover
  BY DEF Wait, NextTry, Goes, Leftover, DInv, LockTyped
<1>3. LockTyped'
  BY DEF Wait, NextTry, Goes, DInv, LockTyped, Places
<1>4. TriesPaid'
  BY <1>1, <1>2, DeathCounts DEF Wait, NextTry, Goes, DInv, LockTyped, TriesPaid
<1> QED BY <1>1, <1>2, <1>3, <1>4 DEF DInv, DeathsBounded

\* Inside withLock and after it no tries are made; a release may remove a
\* leftover of another.
LEMMA WorkPays ==
    ASSUME DInv, NEW p \in Sessions,
           Load(p) \/ Save(p) \/ CheckLock(p) \/ Unlink(p) \/ DeleteFile(p) \/ Read(p)
    PROVE  DInv'
<1>1. PICK place \in {"idle", "save", "check", "unlink", "delete"} :
        /\ pc[p] \in Inside \cup {"delete", "idle"} /\ pc' = [pc EXCEPT ![p] = place]
        /\ lock' = lock \/ lock' = None
        /\ tries' = tries /\ contended' = contended
  <2>1. CASE Read(p)
    BY <2>1 DEF Read, DInv, LockTyped
  <2> QED BY <2>1 DEF Load, Save, CheckLock, Unlink, DeleteFile, Ended, After, Goes, Inside
<1>2. Dead' = Dead /\ Deaths' = Deaths
  BY <1>1, SameDeaths DEF Inside
<1>3. Leftover' \in {0, Leftover}
  BY <1>1 DEF Leftover, DInv, LockTyped, Inside
<1>4. LockTyped'
  BY <1>1 DEF DInv, LockTyped, Places, Inside
<1>5. TriesPaid'
  BY <1>1, <1>2, <1>3, DeathCounts DEF DInv, LockTyped, TriesPaid
<1> QED BY <1>2, <1>3, <1>4, <1>5, DeathCounts DEF DInv, DeathsBounded

\* A death leaves at most one lock behind.
LEMMA CrashPays ==
    ASSUME DInv, NEW p \in Sessions, Crash(p) PROVE DInv'
<1>1. /\ p \notin Dead /\ Dead' = Dead \cup {p} /\ Deaths < MaxCrashes
      /\ pc' = [pc EXCEPT ![p] = "dead"] /\ UNCHANGED <<lock, tries, contended>>
  <2>1. Dead = {q \in Sessions : ~Alive(q)}
    BY DEF Dead, Alive
  <2> QED BY <2>1 DEF Crash, Goes, Alive, Dead, Deaths, DInv, LockTyped
<1>2. IsFiniteSet(Dead') /\ Deaths' = Deaths + 1
  BY <1>1, FS_AddElement DEF DInv, DeathsBounded, Deaths
<1>3. Leftover' \in {0, 1} /\ Leftover' <= Leftover + 1
  BY <1>1 DEF Leftover
<1>4. LockTyped'
  BY <1>1 DEF DInv, LockTyped, Places
<1>5. TriesPaid'
  BY <1>1, <1>2, <1>3, DeathCounts DEF DInv, LockTyped, TriesPaid
<1>6. DeathsBounded'
  BY <1>1, <1>2, <1>3, DeathCounts, TaskStoreAssumption DEF DInv, DeathsBounded
<1> QED BY <1>4, <1>5, <1>6 DEF DInv

\* Every step of every session keeps the count.
LEMMA DInvNext == DInv /\ [StoreNext]_storeVars => DInv'
<1> SUFFICES ASSUME DInv, [StoreNext]_storeVars PROVE DInv'
  OBVIOUS
<1>1. CASE UNCHANGED storeVars
  BY <1>1 DEF storeVars, DInv, LockTyped, DeathsBounded, TriesPaid, Dead, Deaths, Leftover
<1>2. CASE StoreNext
  <2>1. PICK p \in Sessions :
          \/ \E c \in Mutations : Begin(p, c)
          \/ TryLock(p) \/ WriteToken(p) \/ Poll(p) \/ Steal(p) \/ Wait(p)
          \/ Load(p) \/ Save(p) \/ CheckLock(p) \/ Unlink(p) \/ DeleteFile(p)
          \/ Read(p) \/ Crash(p)
    BY <1>2 DEF StoreNext
  <2> QED BY <2>1, BeginPays, TryLockPays, WriteTokenPays, PollPays, StealPays, WaitPays, WorkPays, CrashPays
<1> QED BY <1>1, <1>2

\* acquireLock throws only because of a session that lives: whoever died, wherever
\* it died, also between creating the lock file and writing its token, and while
\* others steal and release, what it left is taken over within the retry budget.
THEOREM DeadSessionsDoNotBlock == ASSUME Patient PROVE StoreSpec => []DeadLockTakenOver
<1>1. DInv => DeadLockTakenOver
  <2> SUFFICES ASSUME DInv, NEW p \in Sessions, tries[p] = MaxTries, ~contended[p] PROVE FALSE
    BY DEF DeadLockTakenOver
  <2> QED BY DeathCounts, TaskStoreAssumption DEF DInv, DeathsBounded, TriesPaid, Patient
<1> QED BY <1>1, DInvInit, DInvNext, PTL DEF StoreSpec
=============================================================================
