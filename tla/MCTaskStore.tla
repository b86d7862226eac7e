----------------------------- MODULE MCTaskStore ----------------------------
(***************************************************************************)
(* Instances of TaskStore for TLC.                                         *)
(***************************************************************************)
EXTENDS TaskStore, TLC

create == [call |-> "create", type |-> "plan"]
status(id, s) == [call |-> "status", id |-> id, status |-> s]

\* Sessions that add, finish and clear.
TeamCalls == {create, status(1, "completed"), [call |-> "clearCompleted"]}
CreateCalls == {create}
ClearCalls == {create, [call |-> "clearAll"]}

Perms == Permutations(Sessions)
=============================================================================
