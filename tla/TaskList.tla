------------------------------ MODULE TaskList ------------------------------
(***************************************************************************)
(* The task list of pi-tasks as one atomic object: what a session sees     *)
(* when it has the list for itself.  TaskStore shows when the file that    *)
(* several sessions share behaves like it.                                 *)
(***************************************************************************)
EXTENDS TaskOps

VARIABLE board

Init == board = NewBoard

Mutate(c) == Possible(board, c) /\ board' = Apply(board, c)

Next == \E c \in Mutations : Mutate(c)

Spec == Init /\ [][Next]_board

-----------------------------------------------------------------------------
TypeOK == board \in Board

\* No id is given twice ("IDs stay monotonic"): the counter never goes back, whatever
\* is deleted or cleared, and the ids that appear are those it passes over (create).
IdsFresh ==
    [][/\ board.nextId <= board'.nextId
       /\ \A i \in Live(board)' \ Live(board) : board.nextId <= i /\ i < board'.nextId]_board

\* The edges of a task follow the tasks they point at: an edge to a task that
\* stays is never lost, whatever else is deleted, cleared or completed, and an
\* edge to a task that goes away goes with it (delete, clearCompleted).
EdgesFollowTasks ==
    [][\A i \in Live(board) \cap Live(board)' :
          /\ \A j \in Live(board) \cap Live(board)' :
                /\ j \in board.tasks[i].blockedBy => j \in board'.tasks[i].blockedBy
                /\ j \in board.tasks[i].blocks => j \in board'.tasks[i].blocks
          /\ \A j \in Live(board) \ Live(board)' :
                j \notin board'.tasks[i].blockedBy \cup board'.tasks[i].blocks]_board

=============================================================================
