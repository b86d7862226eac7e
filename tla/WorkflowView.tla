---------------------------- MODULE WorkflowView ----------------------------
(***************************************************************************)
(* What the user sees of a workflow run while it goes on: the append-only  *)
(* progress log, its collapse into rows, the phase groups of the tree      *)
(* (workflow/progress.ts) and the keys of the dialog                       *)
(* (ui/workflow-dialog.ts), which acts on the row selected in a tree that  *)
(* changes under it.                                                       *)
(***************************************************************************)
EXTENDS Integers, Sequences, FiniteSets, SequencesExt

CONSTANTS
    Titles,        \* titles of phases, as sequences of words
    MaxAgents,     \* bound: agents of the run
    MaxLog         \* bound: entries of the log

VARIABLES
    progress,      \* the log: phase and agent entries in emission order
    declared,      \* titles of meta.phases
    active,        \* the run is running or paused
    dialog         \* [phase, agent, level, filter]

viewvars == <<progress, declared, active, dialog>>

NoPhase == -1
\* skipped is a kind of error; queued is a start without a startedAt.
Terminal == {"done", "failed", "skipped"}

-----------------------------------------------------------------------------
(* progress.ts                                                             *)

AgentEntries(log) == {k \in 1..Len(log) : log[k].type = "agent"}
LastOf(log, i) == CHOOSE k \in AgentEntries(log) :
                     log[k].index = i /\ \A l \in AgentEntries(log) : log[l].index = i => l <= k

\* The rows, by index: the last entry of an index wins.
collapse(log) ==
    LET seen == {log[k].index : k \in AgentEntries(log)}
    IN  [i \in seen |-> log[LastOf(log, i)]]

phaseTitle(log, p) ==
    LET ks == {k \in 1..Len(log) : log[k].type = "phase" /\ log[k].index = p}
    IN  IF ks = {} THEN <<"Phase">> ELSE log[CHOOSE k \in ks : \A l \in ks : l <= k].title

\* The members of a set of numbers, the smallest first.
Ascending(S) == [k \in 1..Cardinality(S) |-> CHOOSE x \in S : Cardinality({y \in S : y <= x}) = k]

displayState(entry, workflowActive) ==
    IF entry.state \in Terminal THEN entry.state
    ELSE IF ~workflowActive THEN "interrupted"
    ELSE IF entry.state = "queued" THEN "queued" ELSE "running"

\* Agents by phase, in phase order; one without a phase counts to phase 0.
\* Nothing when no agent has a phase.
groupByPhase(log) ==
    LET rows   == collapse(log)
        of(i)  == IF rows[i].phase = NoPhase THEN 0 ELSE rows[i].phase
        phases == {of(i) : i \in DOMAIN rows}
        group(p) == [title |-> phaseTitle(log, p), agents |-> {i \in DOMAIN rows : of(i) = p}]
        order == Ascending(phases)
    IN  IF \A i \in DOMAIN rows : rows[i].phase = NoPhase THEN <<>>
        ELSE [k \in 1..Len(order) |-> group(order[k])]

\* Equal, or one the beginning of the other.
TitlesMatch(a, b) == IsPrefix(a, b) \/ IsPrefix(b, a)

\* Each declared title takes the first observed group it matches that no
\* earlier title took; the groups nobody took follow.
\* Mutant: a group may be taken by two declared titles.
mergePhasesTwice(titles, observed) ==
    LET match(k) == {g \in 1..Len(observed) : TitlesMatch(observed[g].title, titles[k])}
        first(k) == IF match(k) = {} THEN 0 ELSE CHOOSE g \in match(k) : \A x \in match(k) : g <= x
        taken    == {first(k) : k \in 1..Len(titles)}
    IN  [k \in 1..Len(titles) |-> IF first(k) = 0 THEN [title |-> titles[k], agents |-> {}] ELSE observed[first(k)]]
        \o SelectSeq(observed, LAMBDA g : \A k \in taken \ {0} : observed[k] # g)
firstFree(observed, title, taken) ==
    LET free == {g \in 1..Len(observed) : TitlesMatch(observed[g].title, title) /\ ~Contains(taken, g)}
    IN  IF free = {} THEN 0 ELSE CHOOSE g \in free : \A x \in free : g <= x
takenBy(titles, observed) ==
    LET takes[k \in 0..Len(titles)] ==
            IF k = 0 THEN <<>> ELSE Append(takes[k - 1], firstFree(observed, titles[k], takes[k - 1]))
    IN  takes[Len(titles)]
mergePhases(titles, observed) ==
    LET took == takenBy(titles, observed)
        rest == Ascending({g \in 1..Len(observed) : ~Contains(took, g)})
    IN  [k \in 1..Len(titles) |-> IF took[k] = 0 THEN [title |-> titles[k], agents |-> {}] ELSE observed[took[k]]]
        \o [k \in 1..Len(rest) |-> observed[rest[k]]]

buildPhaseGroups(log, titles) ==
    LET merged == mergePhases(titles, groupByPhase(log))
        all    == DOMAIN collapse(log)
        rest   == [title |-> <<"Agents">>, agents |-> all]
    IN  IF all # {} /\ \A k \in 1..Len(merged) : merged[k].agents = {} THEN Append(merged, rest) ELSE merged

-----------------------------------------------------------------------------
(* The dialog.                                                             *)

Filters == <<"all", "running", "queued", "done", "failed", "skipped", "interrupted">>

clampIndex(k, n) == IF n = 0 THEN 0 ELSE IF k < 0 THEN 0 ELSE IF k >= n THEN n - 1 ELSE k

\* The view the keys act on, derived anew at every key.
resolveWorkflowDialog ==
    LET groups  == buildPhaseGroups(progress, declared)
        phase   == clampIndex(dialog.phase, Len(groups))
        rows    == collapse(progress)
        all     == IF groups = <<>> THEN {} ELSE groups[phase + 1].agents
        visible == {i \in all : dialog.filter = "all" \/ displayState(rows[i], active) = dialog.filter}
        order   == Ascending(visible)
        agent   == clampIndex(dialog.agent, Len(order))
    IN  [ groups |-> Len(groups), phase |-> phase, visible |-> order, agent |-> agent,
          entry |-> IF order = <<>> THEN <<>> ELSE <<rows[order[agent + 1]]>> ]

\* Which of skip and retry the selected row can take.
agentActions(entry) ==
    IF entry = <<>> \/ ~active THEN {}
    ELSE CASE displayState(entry[1], active) = "running" -> {"skip", "retry"}
           [] displayState(entry[1], active) = "queued"  -> {"skip"}
           [] OTHER -> {}

\* The dialog as it opens; closing it forgets where it was.
FreshDialog == [phase |-> 0, agent |-> 0, level |-> "phases", filter |-> "all"]

nextFilter(f) ==
    LET k == CHOOSE k \in 1..Len(Filters) : Filters[k] = f
    IN  Filters[IF k = Len(Filters) THEN 1 ELSE k + 1]

AgentEntry(i, p, s) == [type |-> "agent", index |-> i, phase |-> p, state |-> s]

\* What the caller does with an action of the dialog: kill stops the run, a
\* skipped row settles, a retried one queues again.
Act(key, entry) ==
    /\ active' = (active /\ key # "kill")
    /\ progress' = CASE key = "skip"  -> Append(progress, AgentEntry(entry[1].index, entry[1].phase, "skipped"))
                     [] key = "retry" -> Append(progress, AgentEntry(entry[1].index, entry[1].phase, "queued"))
                     [] OTHER         -> progress
    /\ UNCHANGED dialog

Show(d) == dialog' = d /\ UNCHANGED <<progress, active>>

Keys == {"escape", "up", "down", "enter", "filter", "kill", "skip", "retry"}

handleWorkflowDialogKey(key, view) ==
    \/ /\ key = "escape"
       /\ IF dialog.level = "agent" THEN Show([dialog EXCEPT !.level = "phases"]) ELSE Show(FreshDialog)
    \/ /\ key \in {"up", "down"}
       /\ LET step == IF key = "down" THEN 1 ELSE -1
              next == clampIndex(view.phase + step, view.groups)
          IN  IF dialog.level = "agent"
              THEN Show([dialog EXCEPT !.agent = clampIndex(view.agent + step, Len(view.visible))])
              ELSE Show(IF next = view.phase THEN dialog ELSE [dialog EXCEPT !.phase = next, !.agent = 0])
    \/ /\ key = "enter" /\ dialog.level = "phases" /\ view.visible # <<>>
       /\ Show([dialog EXCEPT !.level = "agent"])
    \/ /\ key = "filter" /\ dialog.level = "phases"
       /\ Show([dialog EXCEPT !.filter = nextFilter(@), !.agent = 0])
    \/ /\ key = "kill" /\ active
       /\ Act(key, view.entry)
    \/ /\ key \in agentActions(view.entry) /\ Len(progress) < MaxLog
       /\ Act(key, view.entry)

-----------------------------------------------------------------------------
(* The run and the user.                                                   *)

ViewInit ==
    /\ progress = <<>> /\ active = TRUE
    /\ declared \in {<<>>} \cup {<<t>> : t \in Titles} \cup {<<t, u>> : t, u \in Titles}
    /\ dialog = FreshDialog

\* The worker defines phases in order of first use; the host emits a row when
\* a call is taken, again when it starts, settles or is retried.
Emit ==
    /\ active /\ Len(progress) < MaxLog
    /\ LET rows   == collapse(progress)
           phases == Cardinality({k \in 1..Len(progress) : progress[k].type = "phase"})
       IN  \/ \E t \in Titles :
                progress' = Append(progress, [type |-> "phase", index |-> phases, title |-> t])
           \/ /\ Cardinality(DOMAIN rows) < MaxAgents
              /\ \E p \in {NoPhase} \cup 0..(phases - 1) :
                   progress' = Append(progress, AgentEntry(Cardinality(DOMAIN rows), p, "queued"))
           \/ \E i \in DOMAIN rows, s \in {"started", "done", "failed"} :
                /\ rows[i].state = IF s = "started" THEN "queued" ELSE "started"
                /\ progress' = Append(progress, AgentEntry(i, rows[i].phase, s))
    /\ UNCHANGED <<declared, active, dialog>>

RunEnds == active /\ active' = FALSE /\ UNCHANGED <<progress, declared, dialog>>

Press == /\ \E key \in Keys : handleWorkflowDialogKey(key, resolveWorkflowDialog)
         /\ UNCHANGED declared

ViewNext == Emit \/ RunEnds \/ Press
ViewSpec == ViewInit /\ [][ViewNext]_viewvars

-----------------------------------------------------------------------------
(* Every agent of the log is a row of exactly one group of the tree,       *)
(* however phases were declared, named and used: none is hidden from skip  *)
(* and retry, none is counted twice (mergePhases, buildPhaseGroups).       *)
EveryAgentShown ==
    LET groups == buildPhaseGroups(progress, declared)
    IN  \A i \in DOMAIN collapse(progress) :
          Cardinality({k \in 1..Len(groups) : i \in groups[k].agents}) = 1
=============================================================================
