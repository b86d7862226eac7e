------------------------------- MODULE TaskOps ------------------------------
(***************************************************************************)
(* What each mutation of TaskStore (src/pi-tasks/src/task-store.ts) does   *)
(* to the stored tasks.                                                    *)
(*                                                                         *)
(* Of a task only its status, its type and its dependency edges are kept;  *)
(* subjects, owners and metadata are payload that no operation reads.      *)
(***************************************************************************)
EXTENDS Naturals

CONSTANTS
    MaxTasks,   \* bound: ids handed out
    Mutations   \* the calls the sessions make

Ids == 1..MaxTasks
Statuses == {"pending", "in_progress", "completed"}
Types == {"plan", "intent"}

\* The calls: create, update of the status (to "deleted" too), update that adds
\* edges, delete, clearAll, clearCompleted.
Calls ==
    [call : {"create"}, type : Types]
      \cup [call : {"status"}, id : Ids, status : Statuses]
      \cup [call : {"addBlocks", "addBlockedBy"}, id : Ids, targets : SUBSET Ids]
      \cup [call : {"delete"}, id : Ids]
      \cup [call : {"clearAll", "clearCompleted"}]

ASSUME TaskOpsAssumption == MaxTasks \in Nat /\ Mutations \subseteq Calls

\* "none" is an id without a task.
Task == [status : Statuses \cup {"none"}, type : Types, blocks : SUBSET Ids, blockedBy : SUBSET Ids]
NoTask == [status |-> "none", type |-> "plan", blocks |-> {}, blockedBy |-> {}]

\* TaskStoreData.
Board == [nextId : 1..(MaxTasks + 1), tasks : [Ids -> Task]]
NewBoard == [nextId |-> 1, tasks |-> [i \in Ids |-> NoTask]]

Live(b) == {i \in Ids : b.tasks[i].status # "none"}

-----------------------------------------------------------------------------
\* create: the next id, pending, no edges.
Created(b, type) ==
    [nextId |-> b.nextId + 1,
     tasks |-> [b.tasks EXCEPT ![b.nextId] = [status |-> "pending", type |-> type,
                                              blocks |-> {}, blockedBy |-> {}]]]

\* The task with other edges.
WithEdges(t, blocks, blockedBy) ==
    [status |-> t.status, type |-> t.type, blocks |-> blocks, blockedBy |-> blockedBy]

\* Mutant: the newest task hands its id back.
WithoutRecounted(b, S, cut) ==
    [nextId |-> IF b.nextId - 1 \in S THEN b.nextId - 1 ELSE b.nextId,
     tasks |-> [i \in Ids |->
        IF i \in S \/ b.tasks[i].status = "none" THEN NoTask
        ELSE WithEdges(b.tasks[i], b.tasks[i].blocks \ cut, b.tasks[i].blockedBy \ cut)]]

\* Tasks leave the list, and the edges of the others to the ids in `cut' go.
Without(b, S, cut) ==
    [nextId |-> b.nextId,
     tasks |-> [i \in Ids |->
        IF i \in S \/ b.tasks[i].status = "none" THEN NoTask
        ELSE WithEdges(b.tasks[i], b.tasks[i].blocks \ cut, b.tasks[i].blockedBy \ cut)]]

\* update with addBlocks: the edge is kept on the task whether or not the target
\* exists; the opposite edge only on a target that does.
AddedBlocks(b, id, targets) ==
    [b EXCEPT !.tasks = [i \in Ids |->
        WithEdges(b.tasks[i],
                  b.tasks[i].blocks \cup (IF i = id THEN targets ELSE {}),
                  b.tasks[i].blockedBy \cup (IF i \in targets \cap Live(b) THEN {id} ELSE {}))]]

AddedBlockedBy(b, id, targets) ==
    [b EXCEPT !.tasks = [i \in Ids |->
        WithEdges(b.tasks[i],
                  b.tasks[i].blocks \cup (IF i \in targets \cap Live(b) THEN {id} ELSE {}),
                  b.tasks[i].blockedBy \cup (IF i = id THEN targets ELSE {}))]]

Completed(b) == {i \in Ids : b.tasks[i].status = "completed"}

\* Mutant: clearCompleted cuts the edges to every task that is not pending.
ClearedCompletedTooMuch(b) ==
    IF Completed(b) = {} THEN b
    ELSE Without(b, Completed(b), {i \in Ids : b.tasks[i].status # "pending"})

\* clearCompleted: when it removed something, edges to ids that are not in the
\* list are cut, also those to ids that never were.
ClearedCompleted(b) ==
    IF Completed(b) = {} THEN b
    ELSE Without(b, Completed(b), Ids \ (Live(b) \ Completed(b)))

\* One mutation; a call on an id without a task changes nothing.
Apply(b, c) ==
    CASE c.call = "create" -> Created(b, c.type)
      [] c.call = "status" -> IF c.id \in Live(b) THEN [b EXCEPT !.tasks[c.id].status = c.status] ELSE b
      [] c.call = "addBlocks" -> IF c.id \in Live(b) THEN AddedBlocks(b, c.id, c.targets) ELSE b
      [] c.call = "addBlockedBy" -> IF c.id \in Live(b) THEN AddedBlockedBy(b, c.id, c.targets) ELSE b
      [] c.call = "delete" -> IF c.id \in Live(b) THEN Without(b, {c.id}, {c.id}) ELSE b
      [] c.call = "clearAll" -> [b EXCEPT !.tasks = [i \in Ids |-> NoTask]]
      [] c.call = "clearCompleted" -> ClearedCompleted(b)

\* Bound: creations stop when the ids run out.
Possible(b, c) == c.call = "create" => b.nextId <= MaxTasks
=============================================================================
