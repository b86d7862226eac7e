------------------------------- MODULE MCDesk -------------------------------
(***************************************************************************)
(* What surrounds a session's tasks, for TLC: their countdowns and         *)
(* reminders, the mailbox and the sidebar.  They share no state of these   *)
(* models, so a behaviour is about one of them: part says which, and the   *)
(* others rest.  Where the actions of one component fall into groups that  *)
(* do not meet, a part has one group.                                      *)
(***************************************************************************)
EXTENDS TaskTurns, Mailbox, SidebarPanel

VARIABLE part

DeskInit ==
    /\ part \in {"lingering", "prompting", "planning", "waking", "screen", "rows", "marks"}
    /\ TurnsInit /\ MailboxInit /\ PanelInit
    /\ part \notin {"lingering", "prompting"} => clearing = FreshClearing("never")
    /\ part \notin {"screen", "rows", "marks"} => autohide /\ panel.enabled /\ panel.fullHeight

TurnsPart ==
    \/ part = "lingering" /\ ListLife
    \/ part = "prompting" /\ Prompting
MailPart ==
    \/ part \in {"planning", "waking"} /\ MailNext
    \/ part = "planning" /\ PlanNext
    \/ part = "waking" /\ WakeNext
PanelPart ==
    \/ part = "screen" /\ ScreenNext
    \/ part = "rows" /\ RowsNext
    \/ part = "marks" /\ MarksNext

DeskNext ==
    \/ TurnsPart /\ UNCHANGED <<part, mailvars, panelvars>>
    \/ MailPart /\ UNCHANGED <<part, turnvars, panelvars>>
    \/ PanelPart /\ UNCHANGED <<part, turnvars, mailvars>>

DeskSpec == DeskInit /\ [][DeskNext]_<<part, turnvars, mailvars, panelvars>>
=============================================================================
