--------------------------- MODULE MCAgentManager ---------------------------
(***************************************************************************)
(* Instances of AgentManager for TLC.                                      *)
(***************************************************************************)
EXTENDS AgentManager, TLC

opt(mode, owner) == [NoOptions EXCEPT !.mode = mode, !.owner = owner]

\* Both pools, with copies that are stopped and copies that fail.
CopyOptions ==
    {opt("background", "none"),
     [opt("background", "none") EXCEPT !.worktree = TRUE],
     [opt("blocking", "none") EXCEPT !.worktree = TRUE]}

\* Callers that wait, directories that disappear, signals aborted at the call,
\* scheduled spawns that bypass the queue; the limits change.
LimitOptions ==
    {[opt("background", "none") EXCEPT !.bypassQueue = TRUE],
     [opt("background", "none") EXCEPT !.cwd = TRUE],
     [opt("blocking", "none") EXCEPT !.cwd = TRUE],
     [opt("blocking", "none") EXCEPT !.aborted = TRUE]}

\* Parents and their children, and a workflow's agent.
NestedOptions ==
    {opt("background", "none"), opt("blocking", "none"), opt("background", "agent"),
     opt("blocking", "agent"), opt("blocking", "workflow"), opt("detached", "none")}

\* All of them, one kind of session at a time (a state constraint): the agents of
\* a behaviour draw their options from one of the three sets, and the limits
\* change in the second kind.
AllOptions == CopyOptions \cup LimitOptions \cup NestedOptions

OneKind ==
    LET used == {rec[a].opt : a \in {b \in Agents : rec[b].status # "none"}}
    IN \/ used \subseteq CopyOptions /\ maxConcurrent = 1 /\ maxConcurrentForeground = 1
       \/ used \subseteq LimitOptions
       \/ used \subseteq NestedOptions /\ maxConcurrent = 1 /\ maxConcurrentForeground = 1

\* Top-level agents that are resumed, callers that wait, and a parent that waits
\* for its child.
RestOptions ==
    {opt("background", "none"), [opt("blocking", "none") EXCEPT !.worktree = TRUE], opt("blocking", "agent")}

Perms == Permutations(Agents)
=============================================================================
