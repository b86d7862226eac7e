------------------------------ MODULE TaskStore -----------------------------
(***************************************************************************)
(* Several pi sessions on one task file (src/pi-tasks/src/task-store.ts):  *)
(* the lock file, the stale-lock takeover, and the load-apply-save of      *)
(* every mutation.  Each session is a process of its own, so every call to *)
(* the file system is a step, and a session may die between two of them.   *)
(*                                                                         *)
(* The rename that ends save() is atomic, so the file is a value; a        *)
(* session that dies before it leaves the file as it was.                  *)
(***************************************************************************)
EXTENDS FiniteSets, TaskOps

CONSTANTS
    Sessions,      \* the processes
    None,
    MaxTries,      \* LOCK_MAX_RETRIES
    MaxCalls,      \* bound: mutations of one session
    MaxCrashes,    \* bound: sessions that die
    TornCreate,    \* the lock file can be seen between its creation and its token
    SessionScope   \* taskScope is a session scope: an emptied file is deleted

ASSUME TaskStoreAssumption ==
    /\ MaxTries \in Nat \ {0} /\ MaxCalls \in Nat /\ MaxCrashes \in Nat
    /\ TornCreate \in BOOLEAN /\ SessionScope \in BOOLEAN
    /\ None \notin Sessions \cup Board \cup [by : Sessions, written : BOOLEAN]

VARIABLES
    lock,     \* the lock file: who created it, and whether its token is written
    file,     \* the task file, or None
    mem,      \* each session's nextId and tasks
    pc,       \* where each session is
    call,     \* the mutation it makes
    tries,    \* i of acquireLock
    calls,    \* mutations begun
    contended, \* history: a live session held the lock during the attempt
    robbed,    \* history: a live session's lock was taken over
    deleted    \* history: the task file was deleted

storeVars == <<lock, file, mem, pc, call, tries, calls, contended, robbed, deleted>>

Inside == {"load", "save", "check", "unlink"}
Places == {"idle", "try", "write", "poll", "steal", "wait", "delete", "dead"} \cup Inside

Alive(p) == pc[p] # "dead"
Holders == {p \in Sessions : pc[p] \in Inside \cup {"write"}}

StoreTypeOK ==
    /\ lock \in {None} \cup [by : Sessions, written : BOOLEAN]
    /\ file \in {None} \cup Board
    /\ mem \in [Sessions -> Board]
    /\ pc \in [Sessions -> Places]
    /\ call \in [Sessions -> Mutations \cup {None}]
    /\ tries \in [Sessions -> 0..MaxTries]
    /\ calls \in [Sessions -> 0..MaxCalls]
    /\ contended \in [Sessions -> BOOLEAN]
    /\ robbed \in BOOLEAN /\ deleted \in BOOLEAN

StoreInit ==
    /\ lock = None
    /\ file = None
    /\ mem = [p \in Sessions |-> NewBoard]
    /\ pc = [p \in Sessions |-> "idle"]
    /\ call = [p \in Sessions |-> None]
    /\ tries = [p \in Sessions |-> 0]
    /\ calls = [p \in Sessions |-> 0]
    /\ contended = [p \in Sessions |-> FALSE]
    /\ robbed = FALSE /\ deleted = FALSE

Goes(p, place) == pc' = [pc EXCEPT ![p] = place]

\* load: a missing file leaves the memory as it is.
Loaded(p) == IF file = None THEN mem[p] ELSE file

-----------------------------------------------------------------------------
\* withLock is entered with a mutation.
Begin(p, c) ==
    /\ pc[p] = "idle" /\ calls[p] < MaxCalls
    /\ Possible(Loaded(p), c)
    /\ call' = [call EXCEPT ![p] = c]
    /\ calls' = [calls EXCEPT ![p] = @ + 1]
    /\ tries' = [tries EXCEPT ![p] = 0]
    /\ contended' = [contended EXCEPT ![p] = FALSE]
    /\ Goes(p, "try")
    /\ UNCHANGED <<lock, file, mem, robbed, deleted>>

\* What the history variable remembers of an attempt.
HeldByLive == lock # None /\ Alive(lock.by)

\* writeFileSync(lockPath, token, { flag: "wx" }): the file is created only if
\* there is none, and its token is written after that.
TryLock(p) ==
    /\ pc[p] = "try"
    /\ IF lock = None
       THEN /\ lock' = [by |-> p, written |-> ~TornCreate]
            /\ Goes(p, IF TornCreate THEN "write" ELSE "load")
       ELSE Goes(p, "poll") /\ UNCHANGED lock
    /\ contended' = [contended EXCEPT ![p] = @ \/ HeldByLive]
    /\ UNCHANGED <<file, mem, call, tries, calls, robbed, deleted>>

\* The token goes into the file that was created, even if that was unlinked.
WriteToken(p) ==
    /\ pc[p] = "write"
    /\ lock' = IF lock # None /\ lock.by = p THEN [lock EXCEPT !.written = TRUE] ELSE lock
    /\ Goes(p, "load")
    /\ UNCHANGED <<file, mem, call, tries, calls, contended, robbed, deleted>>

\* Mutant: after two polls any lock counts as abandoned.
StaleAfterPolls(p) == ~Alive(lock.by) \/ tries[p] >= 2

\* Mutant: a lock without a token is never taken over.
StaleIfDead(p) == lock.written /\ ~Alive(lock.by)

\* The lock names a dead process, or nobody after two polls.
Stale(p) == IF lock.written THEN ~Alive(lock.by) ELSE tries[p] >= 2

Poll(p) ==
    /\ pc[p] = "poll"
    /\ Goes(p, IF lock # None /\ Stale(p) THEN "steal" ELSE "wait")
    /\ contended' = [contended EXCEPT ![p] = @ \/ HeldByLive]
    /\ UNCHANGED <<lock, file, mem, call, tries, calls, robbed, deleted>>

\* The loop counter; at its limit acquireLock throws.
NextTry(p) ==
    IF tries[p] + 1 < MaxTries
    THEN tries' = [tries EXCEPT ![p] = @ + 1] /\ Goes(p, "try") /\ UNCHANGED call
    ELSE /\ tries' = [tries EXCEPT ![p] = @ + 1] /\ Goes(p, "idle")
         /\ call' = [call EXCEPT ![p] = None]

\* Mutant: who took a stale lock over goes on as if it had it.
StealEnters(p) ==
    /\ pc[p] = "steal"
    /\ Goes(p, IF lock = None THEN "wait" ELSE "load") /\ UNCHANGED <<tries, call>>
    /\ lock' = None
    /\ robbed' = (robbed \/ HeldByLive)
    /\ UNCHANGED <<file, mem, calls, contended, deleted>>

\* unlinkSync(lockPath): whatever file is there now.  If it is gone, the error
\* is ignored and the session waits.
Steal(p) ==
    /\ pc[p] = "steal"
    /\ IF lock = None THEN Goes(p, "wait") /\ UNCHANGED <<tries, call>> ELSE NextTry(p)
    /\ lock' = None
    /\ robbed' = (robbed \/ HeldByLive)
    /\ UNCHANGED <<file, mem, calls, contended, deleted>>

\* The busy wait of 50 ms.  Timing assumption: a live session writes its token
\* in less.
Wait(p) ==
    /\ pc[p] = "wait"
    /\ \A q \in Sessions : pc[q] # "write"
    /\ NextTry(p)
    /\ UNCHANGED <<lock, file, mem, calls, contended, robbed, deleted>>

\* Mutant: the latest state is not read again under the lock.
LoadSkipped(p) ==
    /\ pc[p] = "load"
    /\ Goes(p, "save")
    /\ UNCHANGED <<lock, file, mem, call, tries, calls, contended, robbed, deleted>>

Load(p) ==
    /\ pc[p] = "load"
    /\ mem' = [mem EXCEPT ![p] = Loaded(p)]
    /\ Goes(p, "save")
    /\ UNCHANGED <<lock, file, call, tries, calls, contended, robbed, deleted>>

\* The mutation and save().  Bound: no ids left, nothing to create.
Save(p) ==
    /\ pc[p] = "save"
    /\ mem' = [mem EXCEPT ![p] = IF Possible(@, call[p]) THEN Apply(@, call[p]) ELSE @]
    /\ file' = mem'[p]
    /\ Goes(p, "check")
    /\ UNCHANGED <<lock, call, tries, calls, contended, robbed, deleted>>

\* Where withLock's caller goes on: a clear that emptied the list is followed by
\* deleteFileIfEmpty under a session scope.
After(p) ==
    IF SessionScope /\ call[p].call \in {"clearAll", "clearCompleted"} /\ Live(mem[p]) = {}
    THEN "delete" ELSE "idle"

Ended(p) == Goes(p, After(p)) /\ call' = [call EXCEPT ![p] = None]

\* releaseLock reads the file ...
CheckLock(p) ==
    /\ pc[p] = "check"
    /\ IF lock # None /\ lock.by = p /\ lock.written THEN Goes(p, "unlink") /\ UNCHANGED call ELSE Ended(p)
    /\ UNCHANGED <<lock, file, mem, tries, calls, contended, robbed, deleted>>

\* ... and unlinks it.
Unlink(p) ==
    /\ pc[p] = "unlink"
    /\ lock' = None
    /\ Ended(p)
    /\ UNCHANGED <<file, mem, tries, calls, contended, robbed, deleted>>

\* deleteFileIfEmpty: no lock, and the list is looked at in memory only.
DeleteFile(p) ==
    /\ pc[p] = "delete"
    /\ file' = None
    /\ deleted' = TRUE
    /\ Goes(p, "idle")
    /\ UNCHANGED <<lock, mem, call, tries, calls, contended, robbed>>

\* get, list, snapshot: read without the lock.
Read(p) ==
    /\ pc[p] = "idle" /\ mem[p] # Loaded(p)
    /\ mem' = [mem EXCEPT ![p] = Loaded(p)]
    /\ UNCHANGED <<lock, file, pc, call, tries, calls, contended, robbed, deleted>>

Crash(p) ==
    /\ Alive(p) /\ Cardinality({q \in Sessions : ~Alive(q)}) < MaxCrashes
    /\ Goes(p, "dead")
    /\ UNCHANGED <<lock, file, mem, call, tries, calls, contended, robbed, deleted>>

StoreNext ==
    \E p \in Sessions :
        \/ \E c \in Mutations : Begin(p, c)
        \/ TryLock(p) \/ WriteToken(p) \/ Poll(p) \/ Steal(p) \/ Wait(p)
        \/ Load(p) \/ Save(p) \/ CheckLock(p) \/ Unlink(p) \/ DeleteFile(p)
        \/ Read(p) \/ Crash(p)

StoreSpec == StoreInit /\ [][StoreNext]_storeVars

-----------------------------------------------------------------------------
\* "concurrent access is safe when multiple sessions share a task list": two
\* live sessions are never inside withLock at the same time.
MutualExclusion == \A p, q \in Holders : p = q

\* withLock excludes as long as no live session's lock was taken over, whoever
\* died where; and that happens only where a session died or a lock file was seen
\* before its token was in it.
ExclusionKept ==
    /\ ~robbed => MutualExclusion
    /\ robbed => TornCreate \/ \E p \in Sessions : ~Alive(p)

\* Every mutation is applied to the latest list and none is lost: the file goes
\* through the steps of the atomic list of TaskList.
Shared == IF file = None THEN NewBoard ELSE file

List == INSTANCE TaskList WITH board <- Shared

ListSpec == List!Spec

\* The same over deaths, takeovers and lock files without a token, until a live
\* session's lock is taken over or the file is deleted.
ListWhileKept == [][robbed' \/ deleted' \/ List!Next \/ UNCHANGED Shared]_storeVars

\* acquireLock throws only because of a session that lives: what a dead one left
\* behind is taken over within the retry budget (without it "every later mutation
\* would block for the full retry budget and then throw").
DeadLockTakenOver ==
    \A p \in Sessions : tries[p] = MaxTries => contended[p]

\* "Delete the backing file (if file-backed and empty)": a file that holds tasks
\* is not deleted.
OnlyEmptyDeleted == [][file # None /\ file' = None => Live(file) = {}]_storeVars

\* "task IDs stay monotonic and are never reused": a task that appears in the
\* file has an id that no session has seen given away.
IdsNotReused ==
    [][\A i \in Live(Shared') \ Live(Shared) : \A p \in Sessions : mem[p].nextId <= i]_storeVars
=============================================================================
