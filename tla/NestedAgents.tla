---------------------------- MODULE NestedAgents ----------------------------
(***************************************************************************)
(* The tools a subagent gets for agents of its own: starting, resuming,    *)
(* reading and steering the children it owns, down to a depth limit.  The  *)
(* main session sees only the agents it started itself, so what a child    *)
(* spends is folded into the records of its ancestors.                     *)
(***************************************************************************)
EXTENDS Integers, FiniteSets, FiniteSetsExt

CONSTANTS
    Kids,               \* ids of agents, in the order of their start
    MaxSubagentDepth,   \* maxSubagentDepth: the main session is at depth 0
    KidTypes,           \* agent types
    Allowed,            \* the types allowed_subagents names
    MaxSpend            \* bound on the turns of the runs of one kind of an agent

ASSUME KidsAreNumbers == Kids \subseteq Nat \ {0} /\ IsFiniteSet(Kids) /\ Allowed \subseteq KidTypes

VARIABLES
    kids,       \* id -> the agent's record and the state of its run
    kcalls,     \* calls of a parent that wait for a child: [by, on, for]
    kspend      \* id -> turns charged to the agent's runs, by kind of run

kidvars == <<kids, kcalls, kspend>>

Main == 0
NoKid == [parent |-> Main, status |-> "none", inMap |-> FALSE, session |-> FALSE,
          run |-> "none", signal |-> FALSE, steers |-> 0, total |-> 0]

KidsInit ==
    /\ kids = [a \in Kids |-> NoKid]
    /\ kcalls = {}
    /\ kspend = [a \in Kids |-> [first |-> 0, again |-> 0]]

Unused(a) == kids[a].status = "none" /\ \A b \in Kids : b < a => kids[b].status # "none"
Child(p) == [NoKid EXCEPT !.parent = p, !.status = "running", !.inMap = TRUE, !.run = "first"]

-----------------------------------------------------------------------------
(* Ancestors *)

\* The ids the callback of a spawn walks from its parent up: it stops at the main
\* session and at the first record that has left the map.
ancestors[a \in Kids \cup {Main}] ==
    IF a = Main \/ ~kids[a].inMap THEN {} ELSE {a} \cup ancestors[kids[a].parent]
kidDepth[a \in Kids \cup {Main}] == IF a = Main THEN 0 ELSE 1 + kidDepth[kids[a].parent]

\* Mutant: only the parent's record is charged.
chargedOnce(c) == {kids[c].parent} \cap {a \in Kids : kids[a].inMap}
charged(c) == ancestors[kids[c].parent]

-----------------------------------------------------------------------------
(* The manager, as the tools use it *)

\* abort: a resumed run has no controller on the record, so the signal misses it.
kidAbort(k, S) ==
    [a \in Kids |->
        IF a \in S /\ k[a].inMap /\ k[a].status = "running"
        THEN [k[a] EXCEPT !.status = "stopped", !.signal = @ \/ k[a].run = "first"]
        ELSE k[a]]
abortOwnedChildren(k, p) == kidAbort(k, {c \in Kids : k[c].parent = p})

\* The main session starts an agent.
StartTop(a) ==
    /\ Unused(a)
    /\ kids' = [kids EXCEPT ![a] = Child(Main)]
    /\ UNCHANGED <<kcalls, kspend>>

\* onSessionCreated: the steers that waited for the session go to it.
KidSession(a) ==
    /\ kids[a].run = "first" /\ ~kids[a].session /\ ~kids[a].signal
    /\ kids' = [kids EXCEPT ![a].session = TRUE, ![a].steers = 0]
    /\ UNCHANGED <<kcalls, kspend>>

\* An assistant message of a run: an aborted run may still report one.  The resume
\* of a nested agent passes no callback, so its ancestors do not hear of it.
KidTurn(a) ==
    LET kind == kids[a].run
        also == IF kind = "first" THEN charged(a) ELSE {}
    IN /\ kind # "none" /\ kids[a].session
       /\ kspend[a][kind] < MaxSpend
       /\ kids' = [x \in Kids |-> IF x \in also \cup {a} THEN [kids[x] EXCEPT !.total = @ + 1] ELSE kids[x]]
       /\ kspend' = [kspend EXCEPT ![a][kind] = @ + 1]
       /\ UNCHANGED kcalls

\* A run settles, before its session is made or after: an abort's status stays over a
\* first run and not over an inline resume; the calls that wait for it return.
KidEnds(a, result) ==
    /\ kids[a].run # "none"
    /\ result = "completed" => kids[a].session
    /\ ~\E c \in kcalls : c.by = a
    /\ kids' = abortOwnedChildren(
                [kids EXCEPT ![a].run = "none", ![a].signal = FALSE,
                             ![a].status = IF kids[a].run = "first" /\ @ = "stopped" THEN @ ELSE result], a)
    /\ kcalls' = {c \in kcalls : c.on # a}
    /\ UNCHANGED kspend

\* The user stops an agent of the main session; its waits end at once.
StopTop(a) ==
    /\ kids[a].status = "running" /\ kids[a].parent = Main
    /\ kids' = kidAbort(kids, {a})
    /\ kcalls' = {c \in kcalls : ~(c.by = a /\ c.for = "wait" /\ kids[a].run = "first")}
    /\ UNCHANGED kspend

\* The signal of a stopped parent's call: a child it spawned is aborted, a resumed
\* run gets the signal itself, a wait ends.
SignalReaches(c) ==
    LET on == kids[c.on] IN
    /\ c \in kcalls /\ kids[c.by].signal
    /\ c.for = "wait" \/ ~on.signal
    /\ kids' = CASE c.for = "spawn" -> kidAbort(kids, {c.on})
                 [] c.for = "resume" -> [kids EXCEPT ![c.on].signal = TRUE]
                 [] c.for = "wait" -> kids
    /\ kids' # kids \/ c.for = "wait"
    /\ kcalls' = IF c.for = "wait" THEN kcalls \ {c} ELSE kcalls
    /\ UNCHANGED kspend

\* removeRecord, from the timer or at a session boundary.
KidEvicted(a) ==
    /\ kids[a].inMap /\ kids[a].status # "running"
    /\ kids' = [kids EXCEPT ![a].inMap = FALSE, ![a].session = FALSE]
    /\ UNCHANGED <<kcalls, kspend>>

-----------------------------------------------------------------------------
(* The tools of an agent.  At the depth limit it has none. *)

HasTools(p) ==
    /\ kids[p].run # "none" /\ kids[p].session /\ ~kids[p].signal
    /\ kidDepth[p] < MaxSubagentDepth
ownsRecord(p, c) == kids[c].inMap /\ kids[c].parent = p

\* Agent: a type that the files, read anew, enable and the allowlist names; the call
\* waits for the child unless it asks for the background.
NestedAgent(p, c, ty, enabled, background) ==
    /\ HasTools(p) /\ Unused(c)
    /\ ty \in enabled /\ ty \in Allowed
    /\ kids' = [kids EXCEPT ![c] = Child(p)]
    /\ kcalls' = IF background THEN kcalls ELSE kcalls \cup {[by |-> p, on |-> c, for |-> "spawn"]}
    /\ UNCHANGED kspend

\* Agent with resume: inline.  The session refuses a second prompt while it streams,
\* which fails the resume but settles it like any other.
NestedResume(p, c) ==
    /\ HasTools(p) /\ ownsRecord(p, c) /\ kids[c].session
    /\ kspend[c].again < MaxSpend
    /\ IF kids[c].run = "none"
       THEN /\ kids' = [kids EXCEPT ![c].status = "running", ![c].run = "again"]
            /\ kcalls' = kcalls \cup {[by |-> p, on |-> c, for |-> "resume"]}
       ELSE /\ kids' = abortOwnedChildren([kids EXCEPT ![c].status = "error"], c)
            /\ UNCHANGED kcalls
    /\ UNCHANGED kspend

\* get_subagent_result with wait: the promise is that of the spawn, so the wait for
\* an inline resume ends at once.
NestedWait(p, c) ==
    /\ HasTools(p) /\ ownsRecord(p, c)
    /\ kids[c].status = "running" /\ kids[c].run = "first"
    /\ kcalls' = kcalls \cup {[by |-> p, on |-> c, for |-> "wait"]}
    /\ UNCHANGED <<kids, kspend>>

\* steer_subagent: queued while the child has no session; a session takes it itself.
NestedSteer(p, c) ==
    /\ HasTools(p) /\ ownsRecord(p, c) /\ kids[c].status = "running"
    /\ ~kids[c].session /\ kids[c].steers < MaxSpend
    /\ kids' = [kids EXCEPT ![c].steers = @ + 1]
    /\ UNCHANGED <<kcalls, kspend>>

KidsNext ==
    \/ \E a \in Kids : StartTop(a) \/ KidSession(a) \/ KidTurn(a) \/ StopTop(a) \/ KidEvicted(a)
    \/ \E a \in Kids, result \in {"completed", "error"} : KidEnds(a, result)
    \/ \E c \in kcalls : SignalReaches(c)
    \/ \E p, c \in Kids : NestedResume(p, c) \/ NestedWait(p, c) \/ NestedSteer(p, c)
    \/ \E p, c \in Kids, ty \in KidTypes, enabled \in SUBSET KidTypes, background \in BOOLEAN :
        NestedAgent(p, c, ty, enabled, background)

KidsSpec == KidsInit /\ [][KidsNext]_kidvars

-----------------------------------------------------------------------------
(* Properties *)

\* The agents above one by their parents, itself included; whether their records are
\* still in the map does not matter.
lineage[a \in Kids \cup {Main}] == IF a = Main THEN {} ELSE {a} \cup lineage[kids[a].parent]
Family(a) == {b \in Kids : a \in lineage[b]}
HasChild(p) == \E c \in Kids : kids[c].parent = p
Complete(a) == \A b \in Family(a) : HasChild(b) => kids[b].inMap
spent(f, S) == MapThenSumSet(LAMBDA b : f[b], S)

\* onAssistantUsage: while the records between them are kept, the record of an agent
\* carries what it and all its descendants spent in the runs they were spawned for.
RunsFolded ==
    \A a \in Kids : Complete(a) =>
        kids[a].total = kspend[a].again + spent([b \in Kids |-> kspend[b].first], Family(a))

\* What the comment on the callback says: nested spend is folded into every
\* ancestor's record, the spend of a resumed child too.
SpendFolded ==
    \A a \in Kids : Complete(a) =>
        kids[a].total = spent([b \in Kids |-> kspend[b].first + kspend[b].again], Family(a))
=============================================================================
