----------------------------- MODULE WorkflowRun -----------------------------
(***************************************************************************)
(* One workflow run (pi-subagents/src/workflow): the script in its worker  *)
(* thread, the host that answers its agent() and workflow() calls, the     *)
(* semaphore, the pause gate, skip and retry from the dialog, the journal  *)
(* a run leaves and the replay of its prefix by a later run.               *)
(*                                                                         *)
(* The host is one JavaScript thread.  Events (a message of the worker, a  *)
(* child's end, a key of the dialog) run one at a time; a promise they     *)
(* resolve is continued before the next event.  wf.ready is the queue of   *)
(* those continuations: every event requires it to be empty.               *)
(*                                                                         *)
(* The script is arbitrary: it may make any call at any moment, await it   *)
(* or drop it, and return or throw whenever it likes.                      *)
(***************************************************************************)
EXTENDS Integers, Sequences, FiniteSets, SequencesExt

CONSTANTS
    Payloads,      \* what agent() and workflow() may be called with: [label, kind]
    Concurrency,   \* permits of the semaphore
    AgentCap,      \* agents one run may start
    NestedCap,     \* workflow() calls one run may make
    MaxCalls,      \* bound: calls one script makes
    MaxRuns,       \* bound: runs of the session
    MaxControls    \* bound: keys pressed in the dialog

\* workflowConcurrency is never 0 (Math.max(1, ...)).
ASSUME ConcurrencyAssumption == Concurrency \in Nat \ {0}
ASSUME CallsAssumption == MaxCalls \in Nat

VARIABLES
    task,      \* the record of the run: its status and the run it resumed
    wf,        \* the run itself: worker, host and calls
    files,     \* the journals of earlier runs, by run
    controls   \* keys pressed so far

wvars == <<task, wf, files, controls>>

CallIds == 1..MaxCalls
Labels  == {p.label : p \in Payloads}
NoAgent == -1

\* "checked" asks for a gate or a schema; "bad" has a schema that does not
\* compile; "resume" continues the child that completed under the label;
\* "load" is workflow(ref).
Kinds == {"plain", "checked", "resume", "bad", "load"}

ASSUME PayloadsAssumption == \A p \in Payloads : p.kind \in Kinds

Unanswered == [tag |-> "none"]
NullAnswer == [tag |-> "null"]    \* the agent failed or was skipped
FatalAnswer == [tag |-> "fatal"]  \* rejects, and parallel() rethrows it
ErrorAnswer == [tag |-> "error"]  \* rejects, the script may catch it
BodyAnswer == [tag |-> "body"]    \* the source of a nested workflow
\* An agent's text, as the run, position and call that produced it.
Text(n, i, p) == [tag |-> "text", by |-> n, index |-> i, key |-> p]

\* row is the last entry of the call in the progress log, which collapses by
\* index: the log is append-only and the last write wins.
NoCall == [pc |-> "none", index |-> NoAgent, child |-> NoAgent, intent |-> "none",
           stop |-> FALSE, row |-> "none", answer |-> Unanswered]

RunNumber == Len(files) + 1

-----------------------------------------------------------------------------
(* The journal.                                                            *)

\* Entries in position order.  A failed append is swallowed and a torn or
\* mangled line is skipped on reading, so any entry may be missing.
readJournals(file) ==
    { s \in BoundedSeq(Range(file), Len(file)) : \A k \in 2..Len(s) : s[k - 1].index < s[k].index }

freshRun(entries) ==
    [ posted |-> <<>>, handled |-> 0, ending |-> "no",
      paused |-> FALSE, aborted |-> FALSE, settled |-> FALSE, status |-> "none",
      active |-> 0, waiters |-> <<>>, held |-> <<>>, ready |-> <<>>,
      count |-> 0, open |-> {}, done |-> [l \in Labels |-> NoAgent],
      entries |-> entries,
      intact |-> entries # <<>> /\ ~\E k \in 1..Len(entries) : entries[k].resumed,
      journal |-> <<>>, call |-> [c \in CallIds |-> NoCall] ]

recordJournal(w, c, ok, text) ==
    [w EXCEPT !.journal = Append(@,
        [index |-> w.call[c].index, key |-> w.posted[c], ok |-> ok, text |-> text,
         resumed |-> w.posted[c].kind = "resume"])]

\* The entry to replay at position i, as a set of at most one.  One miss
\* ends the prefix: every later call runs live.
\* Mutant: the position is not compared with the entry's own.
replayAtShifted(w, i, p) ==
    { e \in {w.entries[k] : k \in 1..Len(w.entries)} :
        /\ w.intact
        /\ e.key = p
        /\ e.ok }
replayAt(w, i, p) ==
    { e \in {w.entries[k] : k \in {i + 1} \cap 1..Len(w.entries)} :
        /\ w.intact
        /\ e.index = i
        /\ e.key = p
        /\ e.ok }

-----------------------------------------------------------------------------
(* Semaphore and pause gate.                                               *)

\* Let the continuation of call c run, from pc.
continueAt(w, c, pc) == [w EXCEPT !.ready = Append(@, c), !.call[c].pc = pc]

acquire(w, c) ==
    IF w.active < Concurrency
    THEN continueAt([w EXCEPT !.active = @ + 1], c, "acquired")
    ELSE [w EXCEPT !.waiters = Append(@, c), !.call[c].pc = "acquiring"]

\* The permit goes straight to the first waiter.
release(w) ==
    IF w.waiters = <<>>
    THEN [w EXCEPT !.active = @ - 1]
    ELSE continueAt([w EXCEPT !.waiters = Tail(@)], Head(w.waiters), "acquired")

\* Wake all of calls, in their order, at pc.
wakeAll(w, calls, pc) ==
    [w EXCEPT !.ready = @ \o calls,
              !.call = [c \in CallIds |-> IF c \in Range(calls) THEN [@[c] EXCEPT !.pc = pc] ELSE @[c]]]

drain(w) == wakeAll([w EXCEPT !.waiters = <<>>], w.waiters, "acquired")

pauseGate(w, c) ==
    IF ~w.paused \/ w.aborted \/ w.settled
    THEN continueAt(w, c, "pastGate")
    ELSE [w EXCEPT !.held = Append(@, c), !.call[c].pc = "held"]

releasePause(w) == wakeAll([w EXCEPT !.held = <<>>], w.held, "pastGate")

-----------------------------------------------------------------------------
(* Answers and the end of the run.                                         *)

\* A response after the run settled is dropped; the launch is closed anyway.
respond(w, c, a) ==
    [w EXCEPT !.open = @ \ {c},
              !.call[c].answer = IF w.settled THEN @ ELSE a,
              !.call[c].pc = "over"]

\* toSpawnResult: a stopped child is not a success.
MaySucceed(w, c) == w.call[c].pc = "child" /\ ~w.call[c].stop

Started(w, c) == w.call[c].pc \in {"starting", "child", "gating"}

\* host.abortAgent: stops the child of call c, which the host can reach from
\* the moment the manager issued its id.
abortAgent(w, c) == [w EXCEPT !.call[c].stop = @ \/ w.call[c].pc = "child"]

\* Everything parked is woken and every child in flight aborted.
finish(w, status) ==
    IF w.settled THEN w
    ELSE LET stopped == [w EXCEPT !.settled = TRUE, !.status = status,
                                  !.call = [c \in CallIds |-> abortAgent(w, c).call[c]]]
         IN  drain(releasePause(stopped))

settleSkipped(w, c) ==
    respond(recordJournal([w EXCEPT !.call[c].row = "skipped"], c, FALSE, NullAnswer), c, NullAnswer)

\* The finally block and what follows it, once the result of the attempt is
\* known: give the permit back, then retry, or journal and answer.
\* Mutant: the permit is kept when the user asked for a retry.
settleKeeping(w, c, ok) ==
    LET freed == IF w.call[c].intent = "retry" THEN w ELSE release(w)
        text  == Text(RunNumber, w.call[c].index, w.posted[c])
    IN  IF w.settled THEN [freed EXCEPT !.call[c].pc = "over"]
        ELSE IF w.call[c].intent = "retry"
        THEN pauseGate([freed EXCEPT !.call[c].intent = "none", 
                                     !.call[c].stop = FALSE, !.call[c].row = "queued"], c)
        ELSE respond(recordJournal([freed EXCEPT !.call[c].row = IF ok THEN "done" ELSE "failed"],
                            c, ok, IF ok THEN text ELSE NullAnswer),
                     c, IF ok THEN text ELSE NullAnswer)
settleAttempt(w, c, ok) ==
    LET freed == release(w)
        text  == Text(RunNumber, w.call[c].index, w.posted[c])
        row   == IF ok THEN "done" ELSE IF w.call[c].stop THEN "skipped" ELSE "failed"
    IN  IF w.settled THEN [freed EXCEPT !.call[c].pc = "over"]
        ELSE IF w.call[c].intent = "retry"
        THEN pauseGate([freed EXCEPT !.call[c].intent = "none", 
                                     !.call[c].stop = FALSE, !.call[c].row = "queued"], c)
        ELSE respond(recordJournal([freed EXCEPT !.call[c].row = row], c, ok, IF ok THEN text ELSE NullAnswer),
                     c, IF ok THEN text ELSE NullAnswer)

-----------------------------------------------------------------------------
(* Handling a call.                                                        *)

\* A call the host refuses before it counts as an agent: fatal, so that
\* parallel() and pipeline() do not fold it into a null.
Refused(w, p) ==
    \/ p.kind = "resume" /\ w.done[p.label] = NoAgent
    \/ p.kind = "bad"
    \/ w.count >= AgentCap

\* handleAgent up to its first await.
handleAgent(w, c) ==
    LET p    == w.posted[c]
        i    == w.count
        hits == replayAt(w, i, p)
        row  == [w EXCEPT !.count = @ + 1, !.open = @ \cup {c}, !.intact = hits # {},
                          !.call[c].index = i, !.call[c].row = "queued",
                          !.call[c].child = IF p.kind = "resume" THEN w.done[p.label] ELSE i]
    IN  IF Refused(w, p) THEN respond(w, c, FatalAnswer)
        ELSE IF hits = {} THEN pauseGate(row, c)
        ELSE LET e == CHOOSE e \in hits : TRUE
             IN  respond(recordJournal([row EXCEPT !.call[c].row = "cached"], c, TRUE, e.text), c, e.text)

\* What a continuation does when it runs: past the gate it asks for a
\* permit; with the permit it looks again at everything that may have
\* changed while it waited.
pastGate(w, c) ==
    IF w.call[c].intent = "skip" THEN settleSkipped(w, c) ELSE acquire(w, c)

startChild(w, c) ==
    [w EXCEPT !.call[c].row = "running",
              !.call[c].pc = IF w.posted[c].kind = "resume" THEN "child" ELSE "starting"]

\* Mutant: a call that was queued behind the limit starts although the run
\* was paused meanwhile.
acquiredUnpaused(w, c) ==
    IF w.aborted \/ w.settled THEN respond(release(w), c, FatalAnswer)
    ELSE IF w.call[c].intent = "skip" THEN settleSkipped(release(w), c)
    ELSE startChild(w, c)
acquired(w, c) ==
    IF w.aborted \/ w.settled THEN respond(release(w), c, FatalAnswer)
    ELSE IF w.paused THEN pauseGate(release(w), c)
    ELSE IF w.call[c].intent = "skip" THEN settleSkipped(release(w), c)
    ELSE startChild(w, c)

-----------------------------------------------------------------------------
(* Actions.                                                                *)

Running == task.status \in {"running", "paused"}
Event   == Running /\ wf.ready = <<>>
wfOnly  == UNCHANGED <<task, files, controls>>

Init ==
    /\ task = [status |-> "idle", from |-> 0]
    /\ wf = freshRun(<<>>)
    /\ files = <<>>
    /\ controls = 0

\* resolveResumeTarget: 0, or a run of the session that is over.
ResumeTargets == 0..Len(files)

\* The SubagentWorkflow tool: a new run, cold or resumed from an earlier one.
\* Bound: a session in which keys were pressed has a single run.
StartRun ==
    /\ ~Running /\ RunNumber <= MaxRuns /\ controls = 0
    /\ \E from \in ResumeTargets :
         /\ task' = [status |-> "running", from |-> from]
         /\ \E entries \in (IF from = 0 THEN {<<>>} ELSE readJournals(files[from])) : wf' = freshRun(entries)
    /\ UNCHANGED <<files, controls>>

\* callHost: a message to the host.  Bound: one call in transit.  A burst is
\* calls taken one right after the other, which is all the host can tell.
callHost(p) ==
    /\ Running /\ ~wf.settled /\ wf.ending = "no"
    /\ Len(wf.posted) < MaxCalls /\ wf.handled = Len(wf.posted)
    /\ wf' = [wf EXCEPT !.posted = Append(@, p)]
    /\ wfOnly

\* agent(prompt, opts).  Options that are refused throw in the script and
\* send nothing.
AgentCall(p) == p.kind # "load" /\ callHost(p)

\* workflow(ref), up to its cap; its body then runs as part of the script.
WorkflowCall(p) ==
    /\ p.kind = "load"
    /\ Cardinality({k \in 1..Len(wf.posted) : wf.posted[k].kind = "load"}) < NestedCap
    /\ callHost(p)

\* The script returns or throws, with or without calls still open.
ScriptEnds ==
    /\ Running /\ ~wf.settled /\ wf.ending = "no"
    /\ \E e \in {"complete", "error"} : wf' = [wf EXCEPT !.ending = e]
    /\ wfOnly

\* The host takes the next message: messages arrive in the order sent.
HandleCall ==
    /\ Event /\ ~wf.settled
    /\ wf.handled < Len(wf.posted)
    /\ LET c == wf.handled + 1
           w == [wf EXCEPT !.handled = c]
       IN  wf' = IF wf.posted[c].kind = "load"
                 THEN [w EXCEPT !.call[c].pc = "loading"]
                 ELSE handleAgent(w, c)
    /\ wfOnly

\* Mutant: calls still open are not looked at when the script returns.
endingUnchecked(w) == IF w.ending = "complete" THEN "completed" ELSE "failed"
endingStatus(w) == IF w.ending = "complete" /\ w.open = {} THEN "completed" ELSE "failed"

HandleEnding ==
    /\ Event /\ ~wf.settled
    /\ wf.handled = Len(wf.posted) /\ wf.ending # "no"
    /\ wf' = finish(wf, endingStatus(wf))
    /\ wfOnly

\* handleLoadWorkflow, once the source was read: not found, not a workflow,
\* or its body.
LoadEnds(c) ==
    /\ Event
    /\ wf.call[c].pc = "loading"
    /\ \E a \in {BodyAnswer, ErrorAnswer} : wf' = respond(wf, c, a)
    /\ wfOnly

\* The continuation at the head of the queue runs.
Continue ==
    /\ Running /\ wf.ready # <<>>
    /\ LET c == Head(wf.ready)
           w == [wf EXCEPT !.ready = Tail(@)]
       IN  wf' = IF wf.call[c].pc = "pastGate" THEN pastGate(w, c) ELSE acquired(w, c)
    /\ wfOnly

\* spawnAgent resolved type, model and scope, copied the worktree, and the
\* manager issued the child's id: from now on it can be aborted.
ChildStarted(c) ==
    /\ Event
    /\ wf.call[c].pc = "starting"
    /\ wf' = [wf EXCEPT !.call[c].pc = "child"]
    /\ wfOnly

\* The child ended.  A stopped one never succeeds, one that failed to start
\* did not run.  The label becomes resumable before gate and schema speak.
ChildEnds(c) ==
    /\ Event
    /\ \/ /\ wf.call[c].pc \in {"starting", "child"}
          /\ wf' = settleAttempt(wf, c, FALSE)
       \/ /\ MaySucceed(wf, c)
          /\ LET w == [wf EXCEPT !.done[wf.posted[c].label] = wf.call[c].child]
             IN  \/ wf' = settleAttempt(w, c, TRUE)
                 \/ /\ wf.posted[c].kind = "checked"
                    /\ \/ wf' = settleAttempt(w, c, FALSE)
                       \/ wf' = [w EXCEPT !.call[c].pc = "gating"]
    /\ wfOnly

GateEnds(c) ==
    /\ Event
    /\ wf.call[c].pc = "gating"
    /\ \E ok \in BOOLEAN : wf' = settleAttempt(wf, c, ok)
    /\ wfOnly

-----------------------------------------------------------------------------
(* The dialog.                                                             *)

Key == Event /\ RunNumber = 1 /\ controls < MaxControls /\ controls' = controls + 1 /\ UNCHANGED files

Pause ==
    /\ Key
    /\ task.status = "running"
    /\ task' = [task EXCEPT !.status = "paused"]
    /\ wf' = [wf EXCEPT !.paused = TRUE]

Resume ==
    /\ Event
    /\ task.status = "paused"
    /\ task' = [task EXCEPT !.status = "running"]
    /\ wf' = releasePause([wf EXCEPT !.paused = FALSE])
    /\ UNCHANGED <<files, controls>>

Live(w, c) == w.call[c].pc \in {"held", "acquiring", "starting", "child", "gating"}

\* A running child is stopped; one held at the pause is woken.
Skip(c) ==
    /\ Key
    /\ Live(wf, c) /\ wf.call[c].intent = "none"
    /\ LET w == [wf EXCEPT !.call[c].intent = "skip"]
       IN  \/ Started(w, c) /\ wf' = abortAgent(w, c)
           \/ w.call[c].pc = "acquiring" /\ wf' = w
           \/ \E k \in 1..Len(w.held) :
                /\ w.held[k] = c
                /\ wf' = continueAt([w EXCEPT !.held = RemoveAt(@, k)], c, "pastGate")
    /\ UNCHANGED task

Retry(c) ==
    /\ Key
    /\ Started(wf, c) /\ wf.call[c].intent = "none"
    /\ wf' = abortAgent([wf EXCEPT !.call[c].intent = "retry"], c)
    /\ UNCHANGED task

\* The run's abort signal: the dialog's kill or the end of the session.  It
\* reaches a child that is still starting too.
Kill ==
    /\ Event /\ ~wf.settled
    /\ LET w == finish([wf EXCEPT !.aborted = TRUE], "killed")
       IN  wf' = [w EXCEPT !.call = [c \in CallIds |-> [w.call[c] EXCEPT !.stop = @ \/ Started(w, c)]]]
    /\ wfOnly

\* The worker dies without a word.
WorkerExit ==
    /\ Event /\ ~wf.settled
    /\ wf' = finish(wf, "failed")
    /\ wfOnly

\* The thread is down: the run's promise resolves and the task settles.  What
\* is left of the run has no effect any more, but its journal stays.
Finished ==
    /\ Event /\ wf.settled
    /\ task' = [task EXCEPT !.status = wf.status]
    /\ files' = Append(files, wf.journal)
    /\ wf' = freshRun(<<>>)
    /\ UNCHANGED controls

\* Nothing is left to do: the last run is over.
AllOver == ~Running /\ (RunNumber > MaxRuns \/ controls > 0) /\ UNCHANGED wvars

Next ==
    \/ StartRun \/ ScriptEnds \/ HandleCall \/ HandleEnding \/ Continue
    \/ Pause \/ Resume \/ Kill \/ WorkerExit \/ Finished \/ AllOver
    \/ \E p \in Payloads : AgentCall(p) \/ WorkflowCall(p)
    \/ \E c \in CallIds :
         LoadEnds(c) \/ ChildStarted(c) \/ ChildEnds(c) \/ GateEnds(c) \/ Skip(c) \/ Retry(c)

\* The event loop continues what is ready and takes the worker's messages; a
\* child, a gate command (it has a timeout) and the load of a file end.  The
\* user and the script owe nothing.
Fairness ==
    /\ WF_wvars(Continue)
    /\ WF_wvars(HandleCall)
    /\ \A c \in CallIds : WF_wvars(LoadEnds(c)) /\ WF_wvars(ChildEnds(c)) /\ WF_wvars(GateEnds(c))

Spec == Init /\ [][Next]_wvars /\ Fairness

-----------------------------------------------------------------------------
(* Properties.                                                             *)

\* A replayed answer is the text of an agent that succeeded with the very
\* same call, and what is replayed is a prefix of the run: no position is
\* replayed after one that ran live, whatever order the calls came in and
\* whichever entries the journal lost (replayAt, runtime.ts).
ReplayFaithful ==
    \A c \in CallIds : wf.call[c].answer.tag = "text" =>
        /\ wf.call[c].answer.key = wf.posted[c]
        /\ wf.call[c].answer.index = wf.call[c].index
        /\ wf.call[c].answer.by # RunNumber =>
             \A d \in CallIds : wf.call[d].index \in 0..wf.call[c].index => wf.call[d].row = "cached"

\* A run reported as completed answered every call its script made, and the
\* answer is what the progress row says: nothing was launched and forgotten
\* (openLaunches, handled at the script's return).
CompletedAnswered ==
    wf.status = "completed" =>
        \A c \in 1..Len(wf.posted) : wf.posted[c].kind # "load" =>
            /\ wf.call[c].answer # Unanswered
            /\ wf.call[c].answer.tag = "text" <=> wf.call[c].row \in {"done", "cached"}

\* While the run is paused no agent starts, not even one that was queued
\* behind the concurrency limit when the pause came.
PauseHolds ==
    [][\A c \in CallIds : wf.paused /\ ~Started(wf, c) => ~Started(wf', c)]_wvars

\* Every call the host took is answered, unless the run ends or is held by a
\* pause: no permit is lost on the way through pause, skip and retry.
CallsAnswered ==
    \A c \in CallIds :
        (wf.call[c].pc # "none") ~> (wf.call[c].pc = "over" \/ wf.settled \/ wf.paused)

\* A skip does not wait for a resume ("Wakes it out of a pause hold, so a
\* skip does not wait for a resume", LiveAgent.wake).  Not kept: skipped while queued
\* for a permit, the call is held again when it gets one.
SkipNotHeld ==
    \A c \in CallIds : ~(wf.call[c].pc = "held" /\ wf.call[c].intent = "skip")
=============================================================================
