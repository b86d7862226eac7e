---------------------------- MODULE SidebarPanel ----------------------------
(***************************************************************************)
(* pi-sidebar/extensions/sidebar.ts, sidebar/tasks.ts and                  *)
(* sidebar-event-tool.ts: the overlay, the tasks it shows (those of the    *)
(* task board and of the mailbox in one list), its commands and shortcuts, *)
(* and the events with which other extensions mark it.                     *)
(***************************************************************************)
EXTENDS Integers, Sequences, FiniteSets, SequencesExt

CONSTANTS
  RowIds,     \* task ids, which both files hand out
  MaxRows,    \* PI_SIDEBAR_TASKS_MAX
  LogMax,     \* SIDEBAR_EVENT_LOG_MAX
  MaxBadges   \* bound: badges kept

ASSUME PanelAssumption == IsFiniteSet(RowIds) /\ {MaxRows, LogMax, MaxBadges} \subseteq Nat

VARIABLES
  files,      \* the tasks in the two files, by what their rows show, or "none"
  panel,      \* SidebarState: enabled, collapsed, fullHeight, isStreaming
  autohide,   \* PI_SIDEBAR_AUTOHIDE_WORKING
  overlay,    \* component, handle, and the options and visibility the host has
  rows,       \* state.tasks.rows, from the last refresh
  marks,      \* highlightedId, badges, eventLog
  selected    \* the last selection: the row's id, its file, the file the note names

panelvars == <<files, panel, autohide, overlay, rows, marks, selected>>

Nowhere == "none"
NoRow == [id |-> Nowhere, from |-> Nowhere, status |-> Nowhere]
\* What loadTasksState shows of a task: "blocked" is pending behind an open blocker.
RowStatuses == {"intent", "pending", "blocked", "in_progress", "completed"}

shouldHideSidebar(p) == ~p.enabled \/ (autohide /\ p.isStreaming)

(* sidebarOverlayOptions, as far as it depends on the state: the width     *)
(* (rail, panel, panel and gutter) and whether rows are reserved below.    *)
sidebarOverlayOptions(p) ==
  [width |-> IF p.collapsed THEN "rail" ELSE IF p.fullHeight THEN "gutter" ELSE "panel",
   floating |-> ~p.fullHeight]

PanelInit ==
  /\ files = [board |-> [i \in RowIds |-> Nowhere], mailbox |-> [i \in RowIds |-> Nowhere]]
  /\ panel \in [enabled : BOOLEAN, collapsed : {FALSE}, fullHeight : BOOLEAN, isStreaming : {FALSE}]
  /\ autohide \in BOOLEAN
  /\ overlay = [component |-> FALSE, handle |-> FALSE, hidden |-> FALSE,
                options |-> sidebarOverlayOptions(panel)]
  /\ rows = <<>> /\ marks = [highlighted |-> Nowhere, badges |-> <<>>, log |-> <<>>]
  /\ selected = [row |-> NoRow, named |-> Nowhere]

-----------------------------------------------------------------------------
(* loadTasksState: the tasks of the board, and those of the mailbox whose  *)
(* id the board does not use; cut at MaxRows.                              *)
RowsOf(f, ids) ==
  SetToSeq({[id |-> i, from |-> f, status |-> files[f][i]] : i \in ids})
loadTasksState ==
  LET board == {i \in RowIds : files.board[i] # Nowhere}
      mail == {i \in RowIds : files.mailbox[i] # Nowhere} \ board
      all == RowsOf("board", board) \o RowsOf("mailbox", mail)
  IN SubSeq(all, 1, IF Len(all) < MaxRows THEN Len(all) ELSE MaxRows)

refreshTasks == rows' = loadTasksState

\* Mutant: the host keeps the options it was given when the overlay was opened.
applyVisibilityOnce(p, o) ==
  overlay' = [o EXCEPT !.hidden = IF o.handle THEN shouldHideSidebar(p) ELSE @]

(* applyVisibility: the options are copied into the object the host holds. *)
applyVisibility(p, o) ==
  overlay' = [o EXCEPT !.options = sidebarOverlayOptions(p),
                       !.hidden = IF o.handle THEN shouldHideSidebar(p) ELSE @]

(* startSidebar: once, until the overlay is disposed of.                   *)
startSidebar(o) == IF o.component THEN o ELSE [o EXCEPT !.component = TRUE, !.handle = TRUE]

SessionStart ==
  /\ ~overlay.handle
  /\ panel' = panel
  /\ IF overlay.component THEN UNCHANGED <<overlay, rows>>
     ELSE applyVisibility(panel, startSidebar(overlay)) /\ refreshTasks
  /\ UNCHANGED <<files, autohide, marks, selected>>

(* The handle is hidden for good; the host may dispose of the component.   *)
SessionShutdown(disposed) ==
  /\ overlay.handle
  /\ overlay' = [overlay EXCEPT !.handle = FALSE, !.hidden = TRUE, !.component = ~disposed]
  /\ UNCHANGED <<files, panel, autohide, rows, marks, selected>>

TurnStart ==
  /\ panel' = [panel EXCEPT !.isStreaming = TRUE]
  /\ applyVisibility(panel', overlay)
  /\ UNCHANGED <<files, autohide, rows, marks, selected>>

TurnEnd ==
  /\ panel' = [panel EXCEPT !.isStreaming = FALSE]
  /\ refreshTasks /\ applyVisibility(panel', overlay)
  /\ UNCHANGED <<files, autohide, marks, selected>>

setSidebarCollapsed(p, c) == [p EXCEPT !.enabled = TRUE, !.collapsed = c]
toggleSidebarCollapsed(p) == setSidebarCollapsed(p, p.enabled /\ ~p.collapsed)

Actions == {"on", "off", "collapse", "expand", "full", "floating", "toggle"}

(* The command and the shortcut, which open the sidebar first.             *)
sidebarCommand(action) ==
  /\ panel' = CASE action \in {"on", "expand"} -> setSidebarCollapsed(panel, FALSE)
                [] action = "off" -> [panel EXCEPT !.enabled = FALSE]
                [] action = "collapse" -> setSidebarCollapsed(panel, TRUE)
                [] action = "full" -> [panel EXCEPT !.fullHeight = TRUE]
                [] action = "floating" -> [panel EXCEPT !.fullHeight = FALSE]
                [] action = "toggle" -> toggleSidebarCollapsed(panel)
  /\ IF overlay.component THEN UNCHANGED rows ELSE refreshTasks
  /\ applyVisibility(panel', startSidebar(overlay))
  /\ UNCHANGED <<files, autohide, marks, selected>>

RefreshTimer ==
  /\ overlay.component /\ refreshTasks
  /\ UNCHANGED <<files, panel, autohide, overlay, marks, selected>>

(* pickTopTaskId: the first row of the most urgent kind.                   *)
Urgency == <<"in_progress", "intent", "pending", "blocked">>
pickTopTaskId ==
  LET of(s) == {k \in 1..Len(rows) : rows[k].status = s}
      wanted == {u \in 1..Len(Urgency) : of(Urgency[u]) # {}}
  IN IF wanted = {} THEN rows[1] ELSE rows[Min(of(Urgency[Min(wanted)]))]

(* buildSelectionNoteFor: an id that the mailbox holds is the mailbox's.   *)
buildSelectionNoteFor(id) == IF files.mailbox[id] # Nowhere THEN "mailbox" ELSE "board"

SelectTask ==
  /\ rows # <<>>
  /\ selected' = [row |-> pickTopTaskId, named |-> buildSelectionNoteFor(pickTopTaskId.id)]
  /\ UNCHANGED <<files, panel, autohide, overlay, rows, marks>>

(* The tools of either side write their file.                              *)
FileChanges(f, i, status) ==
  /\ (f = "board" => status # "intent")
  /\ files' = [files EXCEPT ![f][i] = status]
  /\ UNCHANGED <<panel, autohide, overlay, rows, marks, selected>>

(* sidebar:event.                                                          *)
sidebarEvent(action, target) ==
  /\ action = "badge" => Len(marks.badges) < MaxBadges
  /\ marks' = CASE action \in {"show", "highlight"} -> [marks EXCEPT !.highlighted = target]
                [] action = "badge" -> [marks EXCEPT !.badges = Append(@, target)]
                [] action = "log" ->
                     [marks EXCEPT !.log = LET l == Append(@, target)
                                           IN IF Len(l) > LogMax THEN Tail(l) ELSE l]
                [] action = "toast" -> marks
                [] action = "clear" /\ target = Nowhere ->
                     [marks EXCEPT !.highlighted = Nowhere, !.badges = <<>>]
                [] OTHER ->
                     [marks EXCEPT !.highlighted = IF @ = target THEN Nowhere ELSE @,
                                   !.badges = SelectSeq(@, LAMBDA b : b # target)]
  /\ UNCHANGED <<files, panel, autohide, overlay, rows, selected>>

Events == {"show", "highlight", "badge", "log", "toast", "clear"}

(* The overlay, the list, and the marks: nothing ties the three together   *)
(* but the refreshes of the list.                                          *)
ScreenNext ==
  \/ SessionStart \/ TurnStart \/ TurnEnd
  \/ \E disposed \in BOOLEAN : SessionShutdown(disposed)
  \/ \E action \in Actions : sidebarCommand(action)

RowsNext ==
  \/ SessionStart \/ TurnEnd \/ RefreshTimer \/ SelectTask
  \/ \E f \in {"board", "mailbox"}, i \in RowIds, status \in RowStatuses : FileChanges(f, i, status)

MarksNext == \E action \in Events, target \in RowIds \cup {Nowhere} : sidebarEvent(action, target)

PanelNext == ScreenNext \/ RowsNext \/ MarksNext

PanelSpec == PanelInit /\ [][PanelNext]_panelvars

-----------------------------------------------------------------------------
(* The note of a selection names the file that the selected row came from. *)
(* Not kept: an id in both files is named as the mailbox's while the row   *)
(* is the board's (notes.ts).                                              *)
SurfaceNamed == selected.row # NoRow => selected.named = selected.row.from

(* A row of the mailbox is never announced as the board's: the agent would *)
(* ask the board for an id it does not hold.                               *)
MailFound == selected.row.from = "mailbox" => selected.named = "mailbox"

(* While the overlay is open, the host has the options and the visibility  *)
(* that follow from the state, through sessions, turns and commands.       *)
OverlayCurrent ==
  overlay.handle =>
    /\ overlay.options = sidebarOverlayOptions(panel)
    /\ overlay.hidden = shouldHideSidebar(panel)

(* The overlay that is open follows the state, and the agent is never sent *)
(* to the board for a task that the user selected from the mailbox         *)
(* (applyVisibility, buildSelectionNoteFor).  That the rows are up to date *)
(* or that the note names the row's file is not claimed: see SurfaceNamed. *)
PanelTrue == OverlayCurrent /\ MailFound
=============================================================================
