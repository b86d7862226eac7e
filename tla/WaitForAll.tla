----------------------------- MODULE WaitForAll -----------------------------
(***************************************************************************)
(* AgentManager.waitForAll(), which the extension publishes to headless    *)
(* hosts: one waiter beside the agents of AgentManager.  A turn of its     *)
(* loop drains the queue and collects the promises of the queued and       *)
(* running agents; the next turn comes when all of them have settled.      *)
(***************************************************************************)
EXTENDS AgentManager

VARIABLES
    waiter,    \* "idle", "waiting" or "returned"
    pending,   \* the startups and runs the current turn awaits, <<"startup", a>> or <<"promise", x>>
    turn       \* the parity of the loop's turns: a turn that changes nothing is a step too

waitVars == <<waiter, pending, turn>>
allVars == <<vars, waitVars>>

WaitInit == Init /\ waiter = "idle" /\ pending = {} /\ turn = 0

\* record.promise: the last run of the agent, foreground resumes aside, that got
\* past its startup.
PromiseOf(a) ==
    {x \in RunsOf(a) : /\ runs'[x].kind # "inline"
                       /\ runs'[x].phase \in {"running", "cleanup", "settled"}
                       /\ \A y \in RunsOf(a) : y[2] > x[2] /\ runs'[y].kind # "inline" =>
                              runs'[y].phase \in {"idle", "queued", "dropped"}}

\* What a turn of the loop collects, once the queue is drained.
Pending ==
    LET busy == {a \in agents' : rec'[a].status \in Active}
    IN {<<"startup", a>> : a \in {b \in busy : runs'[<<b, 0>>].phase = "copying"}}
         \cup {<<"promise", x>> : x \in UNION {PromiseOf(a) : a \in busy}}

Turn ==
    /\ DrainQueue(Here)
    /\ pending' = Pending
    /\ turn' = 1 - turn
    /\ waiter' = IF pending' = {} THEN "returned" ELSE "waiting"

\* The call.
WaitForAllCalled == open /\ waiter = "idle" /\ Turn

\* Mutant: a startup that failed never counts as settled.
AllFulfilled ==
    \A p \in pending :
        IF p[1] = "startup" THEN runs[<<p[2], 0>>].phase \notin {"copying", "discarding", "dropped"}
        ELSE runs[p[2]].phase = "settled"

\* Promise.allSettled(pending) has resolved.
AllSettled ==
    \A p \in pending :
        IF p[1] = "startup" THEN runs[<<p[2], 0>>].phase \notin {"copying", "discarding"}
        ELSE runs[p[2]].phase = "settled"

MustWake == waiter = "waiting" /\ AllSettled

WaitForAllWakes == MustWake /\ Turn

\* The continuation of a settled promise is a microtask: it runs before anything
\* git, a model or the user does next.
WaitNext ==
    \/ Next /\ ~MustWake /\ UNCHANGED waitVars
    \/ WaitForAllCalled
    \/ WaitForAllWakes

\* The fairness of AgentManager, for as long as the event loop is not starved.
WaitSpec ==
    /\ WaitInit /\ [][WaitNext]_allVars
    /\ \A a \in Agents : []<>~(AnswerDue(a) /\ ~MustWake) \/ []<><<Answer(a)>>_allVars
    /\ []<>~MustWake \/ []<><<WaitForAllWakes>>_allVars

\* No running agent is missed when waitForAll returns, also not one whose
\* worktree is still being created and that has no promise yet.
RunningAwaited ==
    [][waiter # "returned" /\ waiter' = "returned" =>
          \A a \in agents' : rec'[a].status # "running"]_allVars

\* waitForAll ends: "as running agents finish they start queued ones, which need
\* awaiting too".
WaitEnds == waiter = "waiting" ~> waiter = "returned"

\* waitForAll keeps its promise: it returns, and not before the last running agent.
WaitKept == RunningAwaited /\ WaitEnds

\* Every turn of the loop awaits something that has not settled.  Otherwise the
\* next turn is a microtask that finds the same state, and so is every later one:
\* the loop spins, and the event loop that would let an agent finish never runs.
TurnAwaits == [][turn' # turn /\ waiter' = "waiting" => ~AllSettled']_allVars
=============================================================================
