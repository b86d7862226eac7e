------------------------------ MODULE FleetList -----------------------------
(***************************************************************************)
(* The list of agents and workflow runs below the editor.  Its rows are    *)
(* computed anew from the manager's records at every use, the selection is *)
(* an index into them, and a timer drops the rows whose linger is over;    *)
(* keys go to the list, to the editor, or to the overlay the list opened.  *)
(***************************************************************************)
EXTENDS Integers, Sequences, FiniteSets

CONSTANTS
    FleetAgents,    \* ids of top-level agents
    FleetRuns,      \* ids of workflow runs
    MAX_AGENT_ROWS, \* rows shown at once
    MaxCtx          \* bound on the sessions (UI contexts)

ASSUME FleetAssumption ==
    /\ FleetAgents \subseteq Nat \ {0} /\ FleetRuns \subseteq Nat \ {0}
    /\ IsFiniteSet(FleetAgents) /\ IsFiniteSet(FleetRuns)
    /\ MAX_AGENT_ROWS \in Nat \ {0}

VARIABLES
    members,    \* id -> "none" | "queued" | "active" | "lingers" | "over"
    launched,   \* the ids present: runs, then agents, by startedAt
    fleet,      \* the list's fields
    overlays    \* ids whose overlay is up: its promise is pending

fleetvars == <<members, launched, fleet, overlays>>

FleetIds == FleetAgents \cup FleetRuns
Nobody == 0

FleetInit ==
    /\ members = [i \in FleetIds |-> "none"]
    /\ launched = <<>>
    /\ fleet = [ui |-> 0, enabled |-> TRUE, on |-> FALSE, sel |-> 0, viewing |-> Nobody,
                widget |-> FALSE, timer |-> FALSE, ctx |-> 0]
    /\ overlays = {}

\* workflows() and agentRecords(): live ones, lingering ones and the one viewed.
\* An agent without a session (queued) has no row.
Shown(f, i) ==
    \/ members[i] \in {"active", "lingers"}
    \/ i \in FleetAgents /\ i = f.viewing /\ members[i] = "over"
roster(f) ==
    LET at == {p \in DOMAIN launched : Shown(f, launched[p])}
    IN  [k \in 1..Cardinality(at) |-> launched[CHOOSE p \in at : Cardinality({q \in at : q <= p}) = k]]
Rows(f) == Len(roster(f))

clampSelection(f) == [f EXCEPT !.sel = IF @ > Rows(f) THEN Rows(f) ELSE @]

updateFleet(f) ==
    IF f.ui = 0 THEN f
    ELSE IF f.enabled /\ Rows(f) > 0
         THEN [clampSelection(f) EXCEPT !.widget = TRUE, !.timer = TRUE]
         ELSE [f EXCEPT !.widget = FALSE, !.timer = FALSE, !.on = FALSE, !.sel = 0]

deactivate(f) == updateFleet([f EXCEPT !.on = FALSE, !.sel = 0])

-----------------------------------------------------------------------------
(* What the list watches *)

\* startedAt is renewed when an agent starts and when it is resumed: its row is the
\* last one then.  A run's row comes before those of the agents.
Others(i) ==
    LET at == {p \in DOMAIN launched : launched[p] = i}
        old == CHOOSE p \in at : TRUE
    IN  IF at = {} THEN launched
        ELSE [p \in 1..(Len(launched) - 1) |-> IF p < old THEN launched[p] ELSE launched[p + 1]]
Launch(i) ==
    LET o    == Others(i)
        last == IF i \in FleetAgents THEN Len(o) ELSE Cardinality({p \in DOMAIN o : o[p] \in FleetRuns})
    IN  launched' = SubSeq(o, 1, last) \o <<i>> \o SubSeq(o, last + 1, Len(o))

\* A member is made (a queued agent has no session yet) or gets its session.
Spawned(i, st) ==
    /\ members[i] = "none" \/ (members[i] = "queued" /\ st = "active")
    /\ i \in FleetRuns => st = "active"
    /\ members' = [members EXCEPT ![i] = st] /\ Launch(i)
    /\ fleet' = [fleet EXCEPT !.timer = TRUE]
    /\ UNCHANGED overlays

\* onStart, onAgentFinished and the other places that refresh the list.
Refresh == fleet' = updateFleet(fleet) /\ UNCHANGED <<members, launched, overlays>>

Finished(i) ==
    /\ members[i] = "active"
    /\ members' = [members EXCEPT ![i] = "lingers"]
    /\ UNCHANGED <<launched, fleet, overlays>>

\* FINISHED_LINGER_MS pass; a record is evicted later, also while it is viewed.
LingerOver(i) ==
    /\ members[i] = "lingers"
    /\ members' = [members EXCEPT ![i] = "over"]
    /\ UNCHANGED <<launched, fleet, overlays>>
Evicted(i) ==
    /\ members[i] = "over"
    /\ members' = [members EXCEPT ![i] = "none"] /\ launched' = Others(i)
    /\ UNCHANGED <<fleet, overlays>>
Resumed(i) ==
    /\ i \in FleetAgents /\ members[i] \in {"lingers", "over"}
    /\ members' = [members EXCEPT ![i] = "active"] /\ Launch(i)
    /\ fleet' = [fleet EXCEPT !.timer = TRUE]
    /\ UNCHANGED overlays

TickFleet == fleet.timer /\ Refresh

-----------------------------------------------------------------------------
(* Keys *)

\* Enter: the row at the selection now, not the one that was drawn.
openSelected ==
    LET rows == roster(fleet)
    IN IF fleet.sel \notin 1..Len(rows)
       THEN fleet' = deactivate(fleet) /\ UNCHANGED overlays
       ELSE /\ fleet' = [fleet EXCEPT !.viewing = rows[fleet.sel]]
            /\ overlays' = overlays \cup {rows[fleet.sel]}

\* The list is deaf while an overlay is up; a key with a focus elsewhere, or any
\* other key, ends the navigation.
handleKey(key) ==
    /\ fleet.enabled /\ fleet.ui # 0 /\ fleet.viewing = Nobody
    /\ IF ~fleet.on
       THEN /\ key = "down" /\ Rows(fleet) > 0
            /\ fleet' = updateFleet([fleet EXCEPT !.on = TRUE, !.sel = 0])
            /\ UNCHANGED overlays
       ELSE CASE key = "down" ->
                   /\ fleet' = updateFleet([fleet EXCEPT !.sel = IF @ < Rows(fleet) THEN @ + 1
                                                             ELSE Rows(fleet)])
                   /\ UNCHANGED overlays
              [] key = "up" ->
                   /\ fleet' = IF fleet.sel = 0 THEN deactivate(fleet)
                               ELSE updateFleet([fleet EXCEPT !.sel = @ - 1])
                   /\ UNCHANGED overlays
              [] key = "enter" -> openSelected
              [] OTHER -> fleet' = deactivate(fleet) /\ UNCHANGED overlays
    /\ UNCHANGED <<members, launched>>

\* An overlay closes, by its user or because the list closed it: back to the row of
\* the one that was viewed, if it is still there.
clearViewer(o) ==
    LET rows == roster(fleet)
        at   == {k \in 1..Len(rows) : rows[k] = fleet.viewing}
        back == IF at = {} THEN fleet ELSE [fleet EXCEPT !.sel = CHOOSE k \in at : TRUE]
    IN /\ o \in overlays
       /\ overlays' = overlays \ {o}
       /\ fleet' = updateFleet([back EXCEPT !.viewing = Nobody])
       /\ UNCHANGED <<members, launched>>

-----------------------------------------------------------------------------
(* Life of the list *)

setEnabled(b) ==
    /\ b # fleet.enabled
    /\ fleet' = updateFleet([fleet EXCEPT !.enabled = b, !.on = @ /\ b])
    /\ UNCHANGED <<members, launched, overlays>>

\* A session is started from the editor, so with no overlay holding the keys.
setUICtx ==
    /\ fleet.ui = 0 /\ fleet.ctx < MaxCtx /\ overlays = {}
    /\ fleet' = [fleet EXCEPT !.ui = 1, !.ctx = @ + 1, !.widget = FALSE]
    /\ UNCHANGED <<members, launched, overlays>>

\* session_shutdown: an agent's overlay is closed by the list, and its promise finds
\* no UI; a run's overlay is the extension's and ends when its user ends it.
dispose ==
    /\ fleet.ui # 0
    /\ fleet' = [fleet EXCEPT !.ui = 0, !.timer = FALSE, !.widget = FALSE, !.on = FALSE,
                              !.viewing = Nobody]
    /\ members' = [i \in FleetIds |-> "none"] /\ launched' = <<>>
    /\ overlays' = overlays \cap FleetRuns

FleetNext ==
    \/ \E i \in FleetIds :
          \/ \E st \in {"queued", "active"} : Spawned(i, st)
          \/ Finished(i) \/ LingerOver(i) \/ Evicted(i) \/ Resumed(i)
    \/ Refresh \/ TickFleet
    \/ \E key \in {"down", "up", "enter", "other"} : handleKey(key)
    \/ \E o \in overlays : clearViewer(o)
    \/ \E b \in BOOLEAN : setEnabled(b)
    \/ setUICtx \/ dispose

FleetSpec == FleetInit /\ [][FleetNext]_fleetvars

-----------------------------------------------------------------------------
\* Mutant: the window starts one row early.
DrawnRowsEarly ==
    LET n       == Rows(fleet)
        sel     == IF fleet.sel < n THEN fleet.sel ELSE n
        visible == IF n < MAX_AGENT_ROWS THEN n ELSE MAX_AGENT_ROWS
        selRow  == IF sel > 0 THEN sel - 1 ELSE 0
        start   == IF selRow < visible THEN 0 ELSE selRow - visible
    IN [first |-> start + 1, last |-> start + visible, sel |-> sel]

\* The window of rows around the selection that renderBar draws.
DrawnRows ==
    LET n       == Rows(fleet)
        sel     == IF fleet.sel < n THEN fleet.sel ELSE n
        visible == IF n < MAX_AGENT_ROWS THEN n ELSE MAX_AGENT_ROWS
        selRow  == IF sel > 0 THEN sel - 1 ELSE 0
        start   == IF selRow < visible THEN 0 ELSE selRow - visible + 1
    IN [first |-> start + 1, last |-> start + visible, sel |-> sel]

-----------------------------------------------------------------------------
\* The selected row is among the drawn ones, also when rows have dropped out since
\* the last update, no row past the end is drawn, and the list leaves the keys to an
\* overlay exactly while it has one up in a session that is on.
SelectionDrawn ==
    /\ LET d == DrawnRows
       IN fleet.widget /\ Rows(fleet) > 0 =>
            d.last <= Rows(fleet) /\ (d.sel > 0 => d.sel \in d.first..d.last)
    /\ fleet.ui # 0 => overlays = {fleet.viewing} \ {Nobody}
=============================================================================
