---------------------------- MODULE MCSubagents -----------------------------
(***************************************************************************)
(* The parts of pi-subagents around the agent manager, for TLC.  They      *)
(* share no state of these models, so a behaviour is about one of them:    *)
(* part says which, and the others rest.                                   *)
(***************************************************************************)
EXTENDS Notices, Schedule, AgentRun, AgentNames, FleetList, NestedAgents

VARIABLE part

\* Tools of two extensions; y redefines an orchestration tool.
MCTools == [e \in {"x", "y"} |-> IF e = "x" THEN {"x1", "x2"} ELSE {"y1", "Agent"}]

Config == [maxTurns |-> 0, noExtensions |-> FALSE, tools |-> {"read"}, disallowed |-> {}, extensions |-> {"x", "y"},
           exclude |-> {}, extNames |-> {}, narrowing |-> [e \in {"x", "y"} |-> {}], nested |-> FALSE, schema |-> FALSE]
MCConfigs ==
    {[Config EXCEPT !.noExtensions = TRUE, !.schema = TRUE, !.disallowed = {"read", "StructuredOutput"}],
     [Config EXCEPT !.extNames = {"x"}, !.narrowing = [e \in {"x", "y"} |-> IF e = "x" THEN {"x1"} ELSE {}]],
     [Config EXCEPT !.exclude = {"y"}, !.disallowed = {"x2"}, !.nested = TRUE],
     [Config EXCEPT !.disallowed = {"y1"}, !.extensions = {"y"}, !.schema = TRUE]}

\* An agent's name may equal its type, or a reserved word.
MCTypes == {<<"explore">>}
MCGiven == {<<"explore">>, <<"main">>}

SubagentsInit ==
    /\ part \in {"notices", "schedule", "run", "names", "fleet", "nested"}
    /\ NoticesInit /\ ScheduleInit /\ AgentRunInit /\ NamesInit /\ FleetInit /\ KidsInit
    /\ part # "schedule" => offered
    /\ part # "run" => config = CHOOSE c \in AgentConfigs : TRUE

SubagentsNext ==
    \/ part = "notices" /\ NoticesNext /\ UNCHANGED <<part, schvars, runvars, namevars, fleetvars, kidvars>>
    \/ part = "schedule" /\ ScheduleNext /\ UNCHANGED <<part, nvars, runvars, namevars, fleetvars, kidvars>>
    \/ part = "run" /\ AgentRunNext /\ UNCHANGED <<part, nvars, schvars, namevars, fleetvars, kidvars>>
    \/ part = "names" /\ NamesNext /\ UNCHANGED <<part, nvars, schvars, runvars, fleetvars, kidvars>>
    \/ part = "fleet" /\ FleetNext /\ UNCHANGED <<part, nvars, schvars, runvars, namevars, kidvars>>
    \/ part = "nested" /\ KidsNext /\ UNCHANGED <<part, nvars, schvars, runvars, namevars, fleetvars>>

SubagentsSpec ==
    SubagentsInit /\ [][SubagentsNext]_<<part, nvars, schvars, runvars, namevars, fleetvars, kidvars>>
=============================================================================
