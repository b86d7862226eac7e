----------------------------- MODULE MCRoutines -----------------------------
(***************************************************************************)
(* pi-routines for TLC: the fires of two routines, the timers of one, and  *)
(* the server of the web hooks with its tokens.  part says which of them a *)
(* behaviour is about; the others rest.  Parts are the ones of the run.    *)
(* The server is two of them: its starts and stops on their own, and       *)
(* requests against tokens with one start, so that they do not multiply.   *)
(***************************************************************************)
EXTENDS RoutineFires, RoutineTimers, RoutineServer

CONSTANT Parts

VARIABLE part

Tick == [r \in Routines |-> IF r = "a" THEN 1 ELSE 0]
Cap == [r \in Routines |-> IF r = "a" THEN 1 ELSE 0]
Events == [r \in Routines |-> IF r = "h" THEN "agent_end" ELSE "session_shutdown"]
Once == [r \in Routines |-> IF r = "h" THEN "daily" ELSE "always"]

RoutinesInit ==
    /\ part \in Parts
    /\ Init /\ TimersInit /\ ServerInit
    /\ rate = Capacity /\ file = IF part \in {"sockets", "tokens"} THEN 1 ELSE 0

RoutinesNext ==
    \/ part = "fires" /\ Next /\ UNCHANGED <<part, tvars, svars>>
    \/ part = "timers" /\ TimersNext /\ UNCHANGED <<part, vars, svars>>
    \/ part = "sockets" /\ ServerNext /\ UNCHANGED <<req, chain, quiet, part, vars, tvars>>
    \/ /\ part = "tokens" /\ ServerNext /\ UNCHANGED <<part, vars, tvars>>
       /\ Cardinality({c \in Calls : call'[c] # "none"}) <= 1

RoutinesSpec == RoutinesInit /\ [][RoutinesNext]_<<part, vars, tvars, svars>> /\ Fairness
=============================================================================
