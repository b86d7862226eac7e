---------------------------- MODULE MCWaitForAll ----------------------------
(***************************************************************************)
(* Instances of WaitForAll for TLC.                                        *)
(***************************************************************************)
EXTENDS WaitForAll

BackgroundOptions ==
    {[NoOptions EXCEPT !.mode = "background"],
     [NoOptions EXCEPT !.mode = "background", !.worktree = TRUE]}
=============================================================================
