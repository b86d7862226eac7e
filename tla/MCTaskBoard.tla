---------------------------- MODULE MCTaskBoard -----------------------------
(***************************************************************************)
(* Instances of TaskBoard for TLC.                                         *)
(***************************************************************************)
EXTENDS TaskBoard, TLC

CONSTANTS s1, s2

\* In the first session 2 waits for 1 and 3 for both; in the second both wait for 1.
JoinAndFork ==
    (s1 :> <<{}, {1}, {1, 2}>>) @@ (s2 :> <<{}, {1}, {1}>>)

\* One task at a time, or two.
Calls == {{1}, {2}, {3}, {1, 2}, {2, 3}}
=============================================================================
