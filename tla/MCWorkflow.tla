----------------------------- MODULE MCWorkflow -----------------------------
(***************************************************************************)
(* Workflows for TLC: the runtime, and the view of one run.  part says     *)
(* which of the two a behaviour is about; the other rests.                 *)
(***************************************************************************)
EXTENDS WorkflowRun, WorkflowView

VARIABLE part

MCPayloads == { [label |-> "a", kind |-> "plain"], [label |-> "b", kind |-> "checked"],
                [label |-> "a", kind |-> "resume"], [label |-> "c", kind |-> "bad"],
                [label |-> "n", kind |-> "load"] }

\* Titles by their words: one is a prefix of the other.
MCTitles == {<<"s">>, <<"s", "d">>}

WorkflowInit == part \in {"run", "view"} /\ Init /\ ViewInit /\ (part = "run" => declared = <<>>)

WorkflowNext ==
    \/ part = "run" /\ Next /\ UNCHANGED <<part, viewvars>>
    \/ part = "view" /\ ViewNext /\ UNCHANGED <<part, wvars>>

WorkflowSpec == WorkflowInit /\ [][WorkflowNext]_<<part, wvars, viewvars>> /\ Fairness
=============================================================================
