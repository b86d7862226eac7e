----------------------------- MODULE AgentNames -----------------------------
(***************************************************************************)
(* The names of top-level agents: handles derived from the type, aliases   *)
(* given by the model, tombstones that keep the names of evicted agents,   *)
(* and `@name message` typed at the prompt, which steers, resumes, reopens *)
(* or starts an agent.                                                     *)
(*                                                                         *)
(* A name is a sequence of words: <<"explore">>, <<"explore", "2">>.  A    *)
(* conversation is the number of the record that began it; a record that   *)
(* reopens a tombstone continues the conversation under a new id.  Only    *)
(* the direct mode of mentions is here, and agents without names (children *)
(* of agents and of workflows) are left out.                               *)
(***************************************************************************)
EXTENDS Integers, Sequences, FiniteSets

CONSTANTS
    AgentTypes,     \* the slugs of the registered types, handleBase(type)
    GivenNames,     \* the slugs of the names the model gives, handleBase(name)
    MaxStones,      \* MAX_TOMBSTONES
    MaxIds,         \* bound on the records ever made
    MaxEnds         \* bound on the runs that end

VARIABLES
    crew,       \* id -> record, for every id handed out
    stones,     \* tombstones: the ids of the evicted records they were made from
    onDisk,     \* conversations whose session file exists
    ends,       \* runs that have ended: the clock of completedAt
    starts      \* runs that have started: the clock of startedAt

namevars == <<crew, stones, onDisk, ends, starts>>

NoName == <<>>
Suffix == <<"1", "2", "3", "4", "5", "6", "7", "8", "9">>
RESERVED_HANDLES == {<<"main">>}

NamesInit == crew = <<>> /\ stones = {} /\ onDisk = {} /\ ends = 0 /\ starts = 0

Records == {i \in DOMAIN crew : crew[i].here}
NamesOf(i) == {crew[i].handle, crew[i].alias} \ {NoName}
Active(i) == crew[i].status = "running"

\* Mutant: the names of evicted agents are free.
takenHandlesLive == UNION {NamesOf(i) : i \in Records}

takenHandles == UNION {NamesOf(i) : i \in Records \cup stones}

\* base, else base-2, base-3, ...: the first that is neither taken nor reserved.
form(base, n) == IF n = 1 THEN base ELSE Append(base, Suffix[n])
free(base, taken) == {n \in 1..Len(Suffix) : form(base, n) \notin taken \cup RESERVED_HANDLES}
assignHandle(base, taken) ==
    form(base, CHOOSE n \in free(base, taken) : \A k \in free(base, taken) : n <= k)

NewRecord(type, handle, alias, conv) ==
    [type |-> type, handle |-> handle, alias |-> alias, conv |-> conv, here |-> TRUE,
     status |-> "running", session |-> FALSE, file |-> FALSE, read |-> FALSE, at |-> 0,
     since |-> starts + 1]

\* spawn of a top-level agent: the alias comes from the same names as the handle,
\* and is chosen after the handle is taken.  Bound: the suffixes suffice.
spawn(type, name) ==
    LET handle == assignHandle(type, takenHandles)
        alias  == IF name = NoName THEN NoName
                  ELSE assignHandle(name, takenHandles \cup {handle})
    IN /\ Len(crew) < MaxIds
       /\ free(type, takenHandles) # {}
       /\ name # NoName => free(name, takenHandles \cup {handle}) # {}
       /\ crew' = Append(crew, NewRecord(type, handle, alias, Len(crew) + 1))
       /\ starts' = starts + 1
       /\ UNCHANGED <<stones, onDisk, ends>>

\* spawn with reclaim: the names of the tombstone are used as they are.
respawn(i) ==
    /\ Len(crew) < MaxIds
    /\ crew' = Append(crew, NewRecord(crew[i].type, crew[i].handle, crew[i].alias, crew[i].conv))
    /\ starts' = starts + 1
    /\ UNCHANGED <<stones, onDisk, ends>>

\* The runner has made the session, with a transcript on disk or in memory.
SessionMade(i, saved) ==
    /\ i \in Records /\ Active(i) /\ ~crew[i].session
    /\ crew' = [crew EXCEPT ![i].session = TRUE, ![i].file = saved]
    /\ onDisk' = IF saved THEN onDisk \cup {crew[i].conv} ELSE onDisk
    /\ UNCHANGED <<stones, ends, starts>>

\* A run ends, also before its session was made.
RunOver(i) ==
    /\ i \in Records /\ Active(i) /\ ends < MaxEnds
    /\ ends' = ends + 1
    /\ crew' = [crew EXCEPT ![i].status = "done", ![i].at = ends + 1]
    /\ UNCHANGED <<stones, onDisk, starts>>

\* get_subagent_result marks the result as read.
ResultRead(i) ==
    /\ i \in Records /\ ~Active(i) /\ ~crew[i].read
    /\ crew' = [crew EXCEPT ![i].read = TRUE]
    /\ UNCHANGED <<stones, onDisk, ends, starts>>

-----------------------------------------------------------------------------
(* Eviction *)

\* The tombstones with those of the evicted records: one per handle, the later
\* one wins, and the oldest are dropped above the limit.
tombstone(gone) ==
    LET kept   == {i \in gone : crew[i].handle # NoName /\ crew[i].file}
        latest == {i \in kept : \A j \in kept : crew[j].handle = crew[i].handle => j <= i}
        all    == {i \in stones : \A j \in latest : crew[j].handle # crew[i].handle} \cup latest
    IN {i \in all : Cardinality({j \in all : crew[j].at > crew[i].at}) < MaxStones}

\* What is left of the records: an evicted one is remembered by its tombstone only.
Forgotten == [NewRecord(NoName, NoName, NoName, 0) EXCEPT !.here = FALSE, !.since = 0]
Leave(gone, kept) ==
    /\ crew' = [i \in DOMAIN crew |->
                  IF i \in kept THEN [crew[i] EXCEPT !.here = FALSE]
                  ELSE IF i \in Records \ gone THEN crew[i] ELSE Forgotten]
    /\ stones' = kept
    /\ UNCHANGED <<onDisk, ends, starts>>

\* The sweep of the timer: the records that ended before the cutoff.
cleanup(cutoff) ==
    LET gone == {i \in Records : ~Active(i) /\ crew[i].at < cutoff}
    IN /\ gone # {}
       /\ Leave(gone, tombstone(gone))

\* session_start and session_before_switch: no name survives but those of the
\* records that stay.
clearCompleted(skipUnconsumed) ==
    Leave({i \in Records : ~Active(i) /\ (skipUnconsumed => crew[i].read)}, {})

FileGone(c) ==
    /\ c \in onDisk /\ onDisk' = onDisk \ {c}
    /\ UNCHANGED <<crew, stones, ends, starts>>

-----------------------------------------------------------------------------
(* Mentions *)

\* The live record that answers a name: a running one, else the last started.
liveAnswer(name) ==
    LET named  == {i \in Records : name \in NamesOf(i)}
        active == {i \in named : Active(i)}
    IN IF active # {} THEN {CHOOSE i \in active : \A j \in active : i <= j}
       ELSE {i \in named : \A j \in named : crew[j].since <= crew[i].since}

\* A live record with a name is steered or resumed; without a session it never got
\* far enough, and its type is started afresh under another name.
toLive(i, name) ==
    CASE Active(i) ->
           crew' = [crew EXCEPT ![i].read = FALSE] /\ UNCHANGED <<stones, onDisk, ends, starts>>
      [] ~Active(i) /\ crew[i].session ->
           /\ crew' = [crew EXCEPT ![i].status = "running", ![i].read = FALSE, ![i].since = starts + 1]
           /\ starts' = starts + 1
           /\ UNCHANGED <<stones, onDisk, ends>>
      [] OTHER -> name \in AgentTypes /\ spawn(name, NoName)

toTombstone(i) ==
    IF crew[i].conv \in onDisk THEN respawn(i)
    ELSE Leave({}, stones \ {i})

mentionName(name) ==
    LET live == liveAnswer(name)
        dead == {i \in stones : name \in NamesOf(i)}
    IN CASE live # {}                -> \E i \in live : toLive(i, name)
         [] live = {} /\ dead # {}   -> \E i \in dead : toTombstone(i)
         [] OTHER                    -> name \in AgentTypes /\ spawn(name, NoName)

mentionId(i) ==
    \/ i \in Records /\ toLive(i, NoName)
    \/ i \in stones /\ toTombstone(i)

AllNames == UNION {NamesOf(i) : i \in DOMAIN crew} \cup AgentTypes

NamesNext ==
    \/ \E type \in AgentTypes, name \in GivenNames \cup {NoName} : spawn(type, name)
    \/ \E i \in DOMAIN crew :
          \/ \E saved \in BOOLEAN : SessionMade(i, saved)
          \/ RunOver(i) \/ ResultRead(i) \/ mentionId(i) \/ FileGone(i)
    \/ \E cutoff \in 1..(ends + 1) : cleanup(cutoff)
    \/ \E skip \in BOOLEAN : clearCompleted(skip)
    \/ \E name \in AllNames : mentionName(name)

NamesSpec == NamesInit /\ [][NamesNext]_namevars

-----------------------------------------------------------------------------
\* A name belongs to one conversation: no agent, present or evicted and still in
\* reach, bears a name of an agent of another conversation, through spawns, given
\* names, evictions, reopenings and session boundaries, so a message typed to a
\* name never reaches an agent the user did not mean.
NamesApart ==
    \A i, j \in Records \cup stones :
        crew[i].conv # crew[j].conv => NamesOf(i) \cap NamesOf(j) = {}

\* What the comments of resolveMention say: at most one agent answers a name, and a
\* conversation whose record still exists is not reopened.  Violated by the id of
\* an evicted agent whose conversation runs again.
OneAnswer ==
    \A i, j \in Records : i # j => NamesOf(i) \cap NamesOf(j) = {}
=============================================================================
