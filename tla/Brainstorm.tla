----------------------------- MODULE Brainstorm -----------------------------
(***************************************************************************)
(* pi-orchestrator/src/brainstorming/state.ts: the machine of a            *)
(* brainstorming session, one action per event.  An event that its phase   *)
(* does not allow is refused; some of them have changed the context by     *)
(* then.                                                                   *)
(***************************************************************************)
EXTENDS Integers, FiniteSets

CONSTANTS
  ApproachIds,
  SectionIds,
  MaxCount     \* bound: questions asked, revisions

ASSUME BrainstormAssumption == MaxCount \in Nat

VARIABLES
  bphase,      \* context.phase
  known,       \* context.projectContext and intentSpec are there
  counts,      \* questionsAsked, revisionCount
  proposed,    \* the ids of context.approaches; {} when there are none
  chosen,      \* the one marked recommended by SELECT_APPROACH, or "none"
  sections     \* context.designSections: approved, and the approach they were written for

brainvars == <<bphase, known, counts, proposed, chosen, sections>>

BrainPhases == {"exploring", "clarifying", "proposing", "designing", "approved", "rejected", "cancelled"}
NoSection == [there |-> FALSE, approved |-> FALSE, of |-> "none"]

BrainstormInit ==
  /\ bphase = "exploring"
  /\ known = [project |-> FALSE, spec |-> FALSE] /\ counts = [asked |-> 0, revised |-> 0]
  /\ proposed = {} /\ chosen = "none"
  /\ sections = [s \in SectionIds |-> NoSection]

\* Mutant: a session is designed without being asked what to choose.
VALID_TRANSITIONS_SHORT ==
  [p \in BrainPhases |->
     CASE p = "exploring" -> {"clarifying", "cancelled"}
       [] p = "clarifying" -> {"proposing", "designing", "exploring", "cancelled"}
       [] p = "proposing" -> {"designing", "clarifying", "cancelled"}
       [] p = "designing" -> {"approved", "clarifying", "cancelled"}
       [] p = "approved" -> {"cancelled"}
       [] OTHER -> {}]

VALID_TRANSITIONS ==
  [p \in BrainPhases |->
     CASE p = "exploring" -> {"clarifying", "cancelled"}
       [] p = "clarifying" -> {"proposing", "exploring", "cancelled"}
       [] p = "proposing" -> {"designing", "clarifying", "cancelled"}
       [] p = "designing" -> {"approved", "clarifying", "cancelled"}
       [] p = "approved" -> {"cancelled"}
       [] OTHER -> {}]

(* transitionTo: refused, the phase stays.                                 *)
transitionTo(target) == bphase' = IF target \in VALID_TRANSITIONS[bphase] THEN target ELSE bphase

(* The context is noted whatever the phase; the machine goes back to       *)
(* clarifying from any later phase but approved.                           *)
handleContextFound ==
  /\ known' = [known EXCEPT !.project = TRUE] /\ transitionTo("clarifying")
  /\ UNCHANGED <<counts, proposed, chosen, sections>>

handleAskQuestion(answered) ==
  /\ bphase = "clarifying" /\ counts.asked < MaxCount
  /\ counts' = [counts EXCEPT !.asked = @ + (IF answered THEN 0 ELSE 1)]
  /\ UNCHANGED <<bphase, known, proposed, chosen, sections>>

handleAnswerQuestion ==
  /\ known' = [known EXCEPT !.spec = TRUE]
  /\ UNCHANGED <<bphase, counts, proposed, chosen, sections>>

handleProposeApproaches(as) ==
  /\ bphase \in {"clarifying", "proposing"}
  /\ proposed' = as /\ chosen' = "none"
  /\ IF bphase = "clarifying" THEN transitionTo("proposing") ELSE UNCHANGED bphase
  /\ UNCHANGED <<known, counts, sections>>

handleSelectApproach(a) ==
  /\ bphase = "proposing" /\ a \in proposed
  /\ chosen' = a /\ transitionTo("designing")
  /\ UNCHANGED <<known, counts, proposed, sections>>

(* A section presented again stays as it is.                               *)
handlePresentSection(s) ==
  /\ bphase = "designing"
  /\ sections' = [sections EXCEPT ![s] =
       IF @.there THEN @ ELSE [there |-> TRUE, approved |-> FALSE, of |-> chosen]]
  /\ UNCHANGED <<bphase, known, counts, proposed, chosen>>

allApproved(ss) == \A s \in SectionIds : ss[s].there => ss[s].approved

(* In any phase: the last approval makes the design approved, where that   *)
(* phase can follow.                                                       *)
handleApproveSection(s) ==
  /\ sections[s].there
  /\ sections' = [sections EXCEPT ![s].approved = TRUE]
  /\ IF allApproved(sections') THEN transitionTo("approved") ELSE UNCHANGED bphase
  /\ UNCHANGED <<known, counts, proposed, chosen>>

(* In any phase: an approved design stays approved.                        *)
handleReviseSection(s) ==
  /\ sections[s].there /\ counts.revised < MaxCount
  /\ sections' = [sections EXCEPT ![s].approved = FALSE]
  /\ counts' = [counts EXCEPT !.revised = @ + 1]
  /\ UNCHANGED <<bphase, known, proposed, chosen>>

handleUserReviewComplete(approved) ==
  /\ transitionTo(IF approved THEN "approved" ELSE "designing")
  /\ UNCHANGED <<known, counts, proposed, chosen, sections>>

handleCancel == bphase' = "cancelled" /\ UNCHANGED <<known, counts, proposed, chosen, sections>>

BrainstormNext ==
  \/ handleContextFound \/ handleAnswerQuestion \/ handleCancel
  \/ \E b \in BOOLEAN : handleAskQuestion(b) \/ handleUserReviewComplete(b)
  \/ \E as \in SUBSET ApproachIds : handleProposeApproaches(as)
  \/ \E a \in ApproachIds : handleSelectApproach(a)
  \/ \E s \in SectionIds :
       handlePresentSection(s) \/ handleApproveSection(s) \/ handleReviseSection(s)

BrainstormSpec == BrainstormInit /\ [][BrainstormNext]_brainvars

-----------------------------------------------------------------------------
(* A phase is earned by those before it, whatever events come and in which *)
(* order: a design begins with proposals and is approved only as a design, *)
(* nothing but the search comes before the project is known, and a         *)
(* cancelled session stays cancelled.                                      *)
PhasesEarned ==
  [][/\ bphase' \in {"designing", "approved"} /\ bphase # bphase' => bphase \in {"proposing", "designing"}
     /\ bphase' \notin {"exploring", "cancelled"} => known'.project
     /\ bphase = "cancelled" => bphase' = "cancelled"]_brainvars

(* An approved design has no section that is not approved.  Not kept:      *)
(* REVISE_SECTION after the approval leaves the phase (handleReviseSection)*)
ApprovedWhole == bphase = "approved" => allApproved(sections)

(* The sections of a design were written for the approach chosen.          *)
SectionsOfChoice == \A s \in SectionIds : sections[s].there => sections[s].of = chosen
=============================================================================
