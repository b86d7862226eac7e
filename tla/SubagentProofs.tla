--------------------------- MODULE SubagentProofs ---------------------------
(***************************************************************************)
(* Proofs about the parts of pi-subagents around the agent manager, for    *)
(* any number of sessions, jobs, types, names and messages.                *)
(***************************************************************************)
EXTENDS Notices, Schedule, AgentRun, AgentNames, FleetList, NestedAgents, FoldLemmas

-----------------------------------------------------------------------------
(* The scheduler: a timer exactly for the enabled jobs of the session.     *)

JobType == [type : {"none", "once", "interval", "cron"}, at : Nat, enabled : BOOLEAN,
            lastStatus : {"none", "running", "success", "error"}]

ScheduleTypeOK ==
  /\ jobFile \in [SessionIds -> [Jobs -> JobType]]
  /\ here \in SessionIds \cup {"none"}
  /\ armed \in [Jobs -> Int]
  /\ clock \in Nat

\* A job that was removed is not enabled.
NoneEnabled == \A s \in SessionIds, j \in Jobs : jobFile[s][j].enabled => Stored(jobFile[s], j)

SchInv == ScheduleTypeOK /\ NoneEnabled /\ TimersMatchJobs

\* What is set for a job is a timer exactly if the job stays enabled (scheduleJob
\* gives up a one-shot job whose time has passed).
LEMMA ArmMatchesRest ==
  ASSUME NEW job \in JobType, clock \in Nat
  PROVE  /\ Arm(job) \in Int /\ Rest(job) \in JobType /\ Rest(job).type = job.type
         /\ Arm(job) # Unset <=> Rest(job).enabled
         /\ Rest(job).enabled => job.enabled
<1>1. timerDue(Period) \in Nat /\ (job.at > clock => timerDue(job.at - clock) \in Nat)
  BY ScheduleAssumption DEF timerDue, JobType
<1>2. CASE job.type = "once" /\ job.at <= clock
  <2> DEFINE late == [job EXCEPT !.enabled = FALSE, !.lastStatus = "error"]
  <2>1. late \in JobType /\ late.type = job.type /\ late.enabled = FALSE
    BY DEF JobType
  <2>2. scheduled(job) = late
    BY <1>2 DEF scheduled
  <2> HIDE DEF late
  <2>3. scheduleJob(job) = Unset
    BY <1>2 DEF scheduleJob, JobType
  <2> QED BY <2>1, <2>2, <2>3 DEF Arm, Rest, Unset
<1>3. CASE ~(job.type = "once" /\ job.at <= clock)
  <2>1. scheduled(job) = job
    BY <1>3 DEF scheduled
  <2>2. scheduleJob(job) \in Nat
    BY <1>3, <1>1 DEF scheduleJob, JobType
  <2> QED BY <2>1, <2>2 DEF Arm, Rest, Unset, JobType
<1> QED BY <1>2, <1>3

\* Initially there are no jobs and no timers.
LEMMA ScheduleInitInv == ScheduleInit => SchInv
<1>1. NoJob \in JobType /\ ~NoJob.enabled
  BY DEF NoJob, JobType
<1> QED BY <1>1, ScheduleAssumption DEF ScheduleInit, SchInv, ScheduleTypeOK, NoneEnabled, TimersMatchJobs, Unset

\* A job of the session in use changes, and its timer with it.
LEMMA JobChanges ==
  ASSUME SchInv, NEW j \in Jobs, NEW job \in JobType, NEW due \in Int, here # "none",
         due # Unset <=> job.enabled, job.enabled => job.type # "none",
         jobFile' = [jobFile EXCEPT ![here] = [jobFile[here] EXCEPT ![j] = job]],
         armed' = [armed EXCEPT ![j] = due], here' = here, clock' = clock
  PROVE  SchInv'
<1>1. here \in SessionIds
  BY DEF SchInv, ScheduleTypeOK
<1>2. ScheduleTypeOK'
  BY <1>1 DEF SchInv, ScheduleTypeOK
<1>3. NoneEnabled'
  BY <1>1 DEF SchInv, ScheduleTypeOK, NoneEnabled, Stored
<1>4. TimersMatchJobs'
  <2>1. \A i \in Jobs : /\ armed'[i] = IF i = j THEN due ELSE armed[i]
                        /\ jobFile'[here][i] = IF i = j THEN job ELSE jobFile[here][i]
    BY <1>1 DEF SchInv, ScheduleTypeOK
  <2> QED BY <2>1 DEF SchInv, TimersMatchJobs, Unset
<1> QED BY <1>2, <1>3, <1>4 DEF SchInv

\* Stopping clears all timers.
LEMMA StopKeeps ==
  ASSUME SchInv, stop, UNCHANGED <<jobFile, clock>>
  PROVE  SchInv'
BY DEF SchInv, ScheduleTypeOK, NoneEnabled, Stored, TimersMatchJobs, stop, Unset

\* Starting for a session sets the timers of its jobs.
LEMMA StartKeeps ==
  ASSUME SchInv, NEW s \in SessionIds, startScheduler(s)
  PROVE  SchInv'
<1> DEFINE J == jobFile[s]
<1>0. /\ here' = s /\ armed' = [j \in Jobs |-> Arm(J[j])] /\ clock' = clock
      /\ jobFile' = [jobFile EXCEPT ![s] = [j \in Jobs |-> Rest(J[j])]]
  BY DEF startScheduler
<1>1. \A j \in Jobs : /\ Arm(J[j]) \in Int /\ Rest(J[j]) \in JobType /\ Rest(J[j]).type = J[j].type
                      /\ Arm(J[j]) # Unset <=> Rest(J[j]).enabled
                      /\ Rest(J[j]).enabled => J[j].enabled
  BY ArmMatchesRest DEF SchInv, ScheduleTypeOK
<1>2. ScheduleTypeOK'
  BY <1>0, <1>1 DEF SchInv, ScheduleTypeOK
<1>3. NoneEnabled'
  BY <1>0, <1>1 DEF SchInv, ScheduleTypeOK, NoneEnabled, Stored
<1>4. TimersMatchJobs'
  BY <1>0, <1>1, ScheduleAssumption DEF SchInv, ScheduleTypeOK, TimersMatchJobs
<1> QED BY <1>2, <1>3, <1>4 DEF SchInv

\* A new job has its timer.
LEMMA AddKeeps ==
  ASSUME SchInv, NEW j \in Jobs, NEW type \in {"once", "interval", "cron"}, NEW at \in Nat, addJob(j, type, at)
  PROVE  SchInv'
<1> DEFINE job == [NoJob EXCEPT !.type = type, !.at = at, !.enabled = TRUE]
<1>1. job \in JobType /\ job.type = type /\ job.at = at /\ job.enabled
  BY DEF NoJob, JobType
<1>2. /\ here # "none" /\ (type = "once" => at > clock)
      /\ jobFile' = [jobFile EXCEPT ![here] = add(@, j, job)]
      /\ armed' = [armed EXCEPT ![j] = Arm(job)] /\ here' = here /\ clock' = clock
  BY DEF addJob
<1>3. clock \in Nat /\ here \in SessionIds
  BY <1>2 DEF SchInv, ScheduleTypeOK
<1> HIDE DEF job
<1>4. Arm(job) \in Int /\ (Arm(job) # Unset <=> Rest(job).enabled)
  BY <1>1, <1>3, ArmMatchesRest
<1>5. Rest(job) = job
  BY <1>1, <1>2, <1>3 DEF Rest, scheduled
<1>6. jobFile' = [jobFile EXCEPT ![here] = [jobFile[here] EXCEPT ![j] = job]]
  BY <1>2, <1>3 DEF add, SchInv, ScheduleTypeOK
<1> QED BY <1>1, <1>2, <1>4, <1>5, <1>6, JobChanges

\* A removed job loses it.
LEMMA RemoveKeeps ==
  ASSUME SchInv, NEW j \in Jobs, removeJob(j)
  PROVE  SchInv'
<1>1. NoJob \in JobType /\ ~NoJob.enabled /\ Unset \in Int
  BY DEF NoJob, JobType, Unset
<1>2. here \in SessionIds
  BY DEF SchInv, ScheduleTypeOK, removeJob
<1>3. jobFile' = [jobFile EXCEPT ![here] = [jobFile[here] EXCEPT ![j] = NoJob]]
  BY <1>2 DEF removeJob, remove, SchInv, ScheduleTypeOK
<1> QED BY <1>1, <1>3, JobChanges DEF removeJob

\* Enabling and disabling set and clear it.
LEMMA UpdateKeeps ==
  ASSUME SchInv, NEW j \in Jobs, NEW enabled \in BOOLEAN, updateJob(j, enabled)
  PROVE  SchInv'
<1> DEFINE job == [jobFile[here][j] EXCEPT !.enabled = enabled]
<1>1. here \in SessionIds /\ clock \in Nat /\ jobFile[here][j] \in JobType /\ jobFile[here][j].type # "none"
  BY DEF SchInv, ScheduleTypeOK, updateJob, Stored
<1>2. job \in JobType /\ job.type # "none"
  BY <1>1 DEF JobType
<1>3. /\ Arm(job) \in Int /\ Rest(job) \in JobType /\ Rest(job).type # "none"
      /\ Arm(job) # Unset <=> Rest(job).enabled
  BY <1>1, <1>2, ArmMatchesRest
<1>4. /\ jobFile' = [jobFile EXCEPT ![here] = update(@, j, Rest(job))]
      /\ armed' = [armed EXCEPT ![j] = Arm(job)] /\ here' = here /\ clock' = clock /\ here # "none"
  BY DEF updateJob
<1> HIDE DEF job
<1>5. jobFile' = [jobFile EXCEPT ![here] = [jobFile[here] EXCEPT ![j] = Rest(job)]]
  BY <1>1, <1>4 DEF update, Stored, SchInv, ScheduleTypeOK
<1> QED BY <1>3, <1>4, <1>5, JobChanges

\* A timer that is due belongs to an enabled job: a one-shot job is disabled with
\* it, the others get the next one.
LEMMA FireKeeps ==
  ASSUME SchInv, NEW j \in Jobs, NEW ok \in BOOLEAN, TimerFires(j, ok)
  PROVE  SchInv'
<1> DEFINE job == jobFile[here][j]
           after == executeJob(job, ok)
           new == [after EXCEPT !.enabled = @ /\ job.type # "once"]
           due == IF job.type = "once" THEN Unset ELSE scheduleJob(job)
<1>1. here \in SessionIds /\ clock \in Nat /\ job \in JobType /\ here # "none"
  BY DEF SchInv, ScheduleTypeOK, TimerFires
<1>2. job.enabled = TRUE /\ job.type # "none"
  BY <1>1 DEF SchInv, TimersMatchJobs, TimerFires, NoneEnabled, Stored, JobType
<1>3. after \in JobType /\ after.enabled = TRUE /\ after.type = job.type
  BY <1>1, <1>2 DEF executeJob, JobType
<1>4. /\ jobFile' = [jobFile EXCEPT ![here] = update(@, j, new)]
      /\ armed' = [armed EXCEPT ![j] = due] /\ here' = here /\ clock' = clock
  BY DEF TimerFires
<1>5. new \in JobType /\ new.type = job.type /\ (new.enabled <=> job.type # "once")
  <2> HIDE DEF after
  <2> QED BY <1>3 DEF JobType
<1>6. due \in Int /\ (due # Unset <=> job.type # "once")
  <2>1. Arm(job) = scheduleJob(job)
    BY <1>2 DEF Arm
  <2>2. job.type # "once" => scheduleJob(job) \in Nat
    BY <1>1, ScheduleAssumption DEF scheduleJob, timerDue
  <2> QED BY <2>2 DEF Unset
<1> HIDE DEF new, due
<1>7. jobFile' = [jobFile EXCEPT ![here] = [jobFile[here] EXCEPT ![j] = new]]
  BY <1>1, <1>2, <1>4 DEF update, Stored, SchInv, ScheduleTypeOK
<1> QED BY <1>1, <1>2, <1>4, <1>5, <1>6, <1>7, JobChanges

\* An agent that settles changes its job's status only, wherever the job is.
LEMMA FinalizeKeeps ==
  ASSUME SchInv, NEW s \in SessionIds, NEW j \in Jobs, NEW status \in {"success", "error"}, finalize(s, j, status)
  PROVE  SchInv'
<1> DEFINE new == [jobFile[s][j] EXCEPT !.lastStatus = status]
<1>1. jobFile[s][j] \in JobType
  BY DEF SchInv, ScheduleTypeOK
<1>2. new \in JobType /\ new.type = jobFile[s][j].type /\ new.enabled = jobFile[s][j].enabled
  BY <1>1 DEF JobType
<1>3. jobFile' = [jobFile EXCEPT ![s] = update(@, j, [@[j] EXCEPT !.lastStatus = status])]
      /\ UNCHANGED <<here, armed, clock>>
  BY DEF finalize
<1>4. jobFile' = [jobFile EXCEPT ![s] = IF Stored(@, j) THEN [@ EXCEPT ![j] = new] ELSE @]
  BY <1>3 DEF update, SchInv, ScheduleTypeOK
<1> HIDE DEF new
<1>5. \A t \in SessionIds, i \in Jobs : /\ jobFile'[t][i].type = jobFile[t][i].type
                                        /\ jobFile'[t][i].enabled = jobFile[t][i].enabled
  <2>1. \A t \in SessionIds, i \in Jobs :
          jobFile'[t][i] = jobFile[t][i] \/ (t = s /\ i = j /\ jobFile'[t][i] = new)
    BY <1>4 DEF SchInv, ScheduleTypeOK
  <2> QED BY <1>2, <2>1
<1>6. ScheduleTypeOK'
  <2> DEFINE J == IF Stored(jobFile[s], j) THEN [jobFile[s] EXCEPT ![j] = new] ELSE jobFile[s]
  <2>1. J \in [Jobs -> JobType] /\ jobFile' = [jobFile EXCEPT ![s] = J]
    BY <1>2, <1>4 DEF SchInv, ScheduleTypeOK
  <2> HIDE DEF J
  <2> QED BY <1>3, <2>1 DEF SchInv, ScheduleTypeOK
<1>7. NoneEnabled'
  BY <1>5 DEF SchInv, NoneEnabled, Stored
<1>8. TimersMatchJobs'
  BY <1>3, <1>5 DEF SchInv, TimersMatchJobs, ScheduleTypeOK
<1> QED BY <1>6, <1>7, <1>8 DEF SchInv

\* Every step keeps timers and jobs together.
LEMMA ScheduleNextInv == SchInv /\ [ScheduleNext]_schvars => SchInv'
<1> SUFFICES ASSUME SchInv, [ScheduleNext]_schvars PROVE SchInv'
  OBVIOUS
<1>1. CASE UNCHANGED <<jobFile, here, armed, clock>>
  BY <1>1 DEF SchInv, ScheduleTypeOK, NoneEnabled, Stored, TimersMatchJobs
<1>2. CASE Tick
  BY <1>2 DEF Tick, SchInv, ScheduleTypeOK, NoneEnabled, Stored, TimersMatchJobs
<1>3. CASE SessionEnds \/ Crash
  BY <1>3, StopKeeps DEF SessionEnds, Crash
<1>4. CASE ToggleScheduling
  <2>1. stop \/ UNCHANGED <<here, armed>>
    BY <1>4 DEF ToggleScheduling
  <2> QED BY <1>1, <1>4, <2>1, StopKeeps DEF ToggleScheduling
<1>5. ASSUME NEW j \in Jobs,
             \/ \E at \in Targets : addJob(j, "once", at)
             \/ \E type \in {"interval", "cron"} : addJob(j, type, 0)
      PROVE  SchInv'
  BY <1>5, AddKeeps, ScheduleAssumption
<1> QED BY <1>1, <1>2, <1>3, <1>4, <1>5, StartKeeps, RemoveKeeps, UpdateKeeps, FireKeeps, FinalizeKeeps
     DEF ScheduleNext, schvars

\* Through switches, crashes, the setting, edits, fires and agents that settle in
\* another session, a timer is set exactly for the enabled jobs of the session in
\* use: no job is forgotten and no other goes on starting agents.
THEOREM TimersFollowJobs == ScheduleSpec => []TimersMatchJobs
<1>1. SchInv => TimersMatchJobs
  BY DEF SchInv
<1> QED BY <1>1, ScheduleInitInv, ScheduleNextInv, PTL DEF ScheduleSpec

-----------------------------------------------------------------------------
(* The agent runner: the scope of its tools.                               *)

\* What the session's registry admits, whatever is registered.
Admitted(T) ==
  \A t \in T : IF config.noExtensions THEN t \in sessionTools ELSE t \notin sessionExcludeTools

ScopeInv ==
  /\ loaded \subseteq extensionsOverride
  /\ Admitted(activeTools) /\ Admitted(turnTools)
  /\ ScopeRespected

\* The registry admits no more than that.
LEMMA RegistryAdmitted == ASSUME NEW T PROVE Admitted(Registry(T))
BY DEF Admitted, Registry

\* The steps that execute no tool and give the turn no other tools than admitted.
LEMMA ScopeKept ==
  ASSUME ScopeInv, config' = config, ran' = ran, loaded' \subseteq extensionsOverride,
         Admitted(activeTools'), Admitted(turnTools')
  PROVE  ScopeInv'
BY DEF ScopeInv, Admitted, ScopeRespected, extensionsOverride, sessionTools, sessionExcludeTools,
       nestedToolNames, structuredToolNames

\* A renarrowed session has no more tools than its registry.
LEMMA RenarrowedKept ==
  ASSUME ScopeInv, Renarrowed PROVE Admitted(activeTools') /\ Admitted(turnTools')
<1>1. Admitted(renarrow)
  BY RegistryAdmitted DEF renarrow, Admitted
<1> QED BY <1>1 DEF Renarrowed, ScopeInv

\* A tool that is executed was given to the turn and is in scope at that moment.
LEMMA CallScoped ==
  ASSUME ScopeInv, NEW t, CallTool(t) PROVE ScopeInv'
<1> USE DEF ScopeInv
<1>1. /\ config' = config /\ loaded' = loaded /\ activeTools' = activeTools /\ turnTools' = turnTools
      /\ ran' = ran \cup {t} /\ t \in turnTools /\ (config.noExtensions \/ t \in inScope)
  BY DEF CallTool, beforeToolCall
<1>2. ASSUME t \notin structuredToolNames
      PROVE  /\ t \notin config.disallowed
             /\ t \in Orchestration => config.nested
             /\ t \in Builtins => t \in config.tools
             /\ \/ t \in Orchestration \cup config.tools
                \/ \E e \in Extensions :
                     /\ t \in ToolsOf[e] /\ e \in config.extensions /\ e \notin config.exclude /\ ~config.noExtensions
                     /\ config.extNames # {} => e \in config.extNames
                     /\ config.narrowing[e] # {} => t \in config.narrowing[e]
  <2>1. CASE config.noExtensions
    <3>1. t \in sessionTools
      BY <1>1, <2>1 DEF Admitted
    <3>2. t \in (config.tools \ Orchestration) \ config.disallowed \/ (t \in nestedToolNames /\ t \notin config.disallowed)
      BY <3>1, <1>2 DEF sessionTools
    <3>3. t \in nestedToolNames => config.nested /\ t \in Orchestration
      BY DEF nestedToolNames
    <3>4. t \in Builtins => t \in config.tools
      BY <3>2, <3>3, AgentRunAssumption
    <3> QED BY <3>2, <3>3, <3>4
  <2>2. CASE ~config.noExtensions
    <3>1. t \notin sessionExcludeTools /\ t \in inScope
      BY <1>1, <2>2 DEF Admitted
    <3>2. t \notin config.disallowed /\ (t \in Orchestration => config.nested) /\ (t \in Builtins => t \in config.tools)
      BY <3>1, <1>2 DEF sessionExcludeTools, nestedToolNames
    <3>3. t \in config.tools \/ t \in Orchestration
          \/ \E e \in Selected : t \in (ToolsOf[e] \cap registered \cap Narrowed(e)) \ config.disallowed
      <4> DEFINE from == UNION {(ToolsOf[e] \cap registered \cap Narrowed(e)) \ config.disallowed : e \in Selected}
      <4>1. t \in from \/ t \in config.tools \/ t \in readmitToolNames
        BY <3>1 DEF inScope
      <4>2. t \in readmitToolNames => t \in Orchestration
        BY <1>2 DEF readmitToolNames, nestedToolNames
      <4>3. t \in from => \E e \in Selected : t \in (ToolsOf[e] \cap registered \cap Narrowed(e)) \ config.disallowed
        BY Zenon
      <4> HIDE DEF from
      <4> QED BY <4>1, <4>2, <4>3
    <3>4. ASSUME NEW e \in Selected, t \in (ToolsOf[e] \cap registered \cap Narrowed(e)) \ config.disallowed
          PROVE  /\ e \in Extensions /\ t \in ToolsOf[e] /\ e \in config.extensions /\ e \notin config.exclude
                 /\ config.extNames # {} => e \in config.extNames
                 /\ config.narrowing[e] # {} => t \in config.narrowing[e]
      BY <3>4, <2>2 DEF Selected, extensionsOverride, Narrowed
    <3> QED BY <2>2, <3>2, <3>3, <3>4
  <2> QED BY <2>1, <2>2
<1>3. ScopeRespected'
  BY <1>1, <1>2 DEF ScopeRespected, structuredToolNames
<1> QED BY <1>1, <1>3 DEF Admitted, extensionsOverride, sessionTools, sessionExcludeTools, nestedToolNames, structuredToolNames

\* A tool registered late is active only if the registry admits it.
LEMMA RegisterScoped ==
  ASSUME ScopeInv, NEW e, NEW t, registerTool(e, t) PROVE ScopeInv'
<1>1. \A T : t \in Registry(T) => Admitted(activeTools \cup {t})
  <2>1. \A T : Admitted(Registry(T))
    BY RegistryAdmitted
  <2> QED BY <2>1 DEF ScopeInv, Admitted
<1>2. /\ activeTools' = activeTools \/ (activeTools' = activeTools \cup {t} /\ t \in Registry(registered'))
      /\ turnTools' = activeTools' \/ turnTools' = turnTools
      /\ config' = config /\ ran' = ran /\ loaded' = loaded
  BY DEF registerTool
<1>3. Admitted(activeTools')
  BY <1>1, <1>2 DEF ScopeInv
<1> QED BY <1>2, <1>3, ScopeKept DEF ScopeInv

\* Every step keeps the scope.
LEMMA ScopeNext == ScopeInv /\ [AgentRunNext]_runvars => ScopeInv'
<1> SUFFICES ASSUME ScopeInv, [AgentRunNext]_runvars PROVE ScopeInv'
  OBVIOUS
<1>0. loaded \subseteq extensionsOverride /\ Admitted(activeTools) /\ Admitted(turnTools)
  BY DEF ScopeInv
<1>1. CASE UNCHANGED <<config, ran, loaded, activeTools, turnTools>>
  BY <1>0, <1>1, ScopeKept
<1>2. CASE loaderReload
  BY <1>0, <1>2, ScopeKept DEF loaderReload
<1>3. CASE createAgentSession
  BY <1>0, <1>3, ScopeKept, RegistryAdmitted DEF createAgentSession
<1>4. CASE Renarrowed /\ UNCHANGED <<config, ran, loaded>>
  BY <1>0, <1>4, ScopeKept, RenarrowedKept
<1>5. CASE resumeAgent
  BY <1>0, <1>5, ScopeKept DEF resumeAgent
<1>6. ASSUME NEW said \in BOOLEAN, NEW final, NEW text, PromptEnds(said, final, text)
      PROVE  ScopeInv'
  BY <1>1, <1>4, <1>6 DEF PromptEnds
<1>7. CASE \E text \in BOOLEAN : turn_end(text)
  BY <1>4, <1>7 DEF turn_end
<1>8. CASE bindExtensions
  BY <1>4, <1>8 DEF bindExtensions
<1>9. CASE detectEnv \/ Signal \/ steerAgent
  BY <1>1, <1>9 DEF detectEnv, Signal, steerAgent, toolVars
<1>10. CASE UNCHANGED runvars
  BY <1>1, <1>10 DEF runvars
<1> QED BY <1>2, <1>3, <1>5, <1>6, <1>7, <1>8, <1>9, <1>10, CallScoped, RegisterScoped DEF AgentRunNext

\* No agent runs a tool its definition denies it, for any definitions and any
\* extensions, however late they register their tools and whatever the turn was
\* given (installExtensionToolScope, sessionTools, sessionExcludeTools).
THEOREM ToolsStayInScope == AgentRunSpec => []ScopeRespected
<1>1. AgentRunInit => ScopeInv
  BY DEF AgentRunInit, ScopeInv, Admitted, ScopeRespected
<1>2. ScopeInv => ScopeRespected
  BY DEF ScopeInv
<1> QED BY <1>1, <1>2, ScopeNext, PTL DEF AgentRunSpec

-----------------------------------------------------------------------------
(* The agent runner: the answer.                                           *)

\* The text the runner finds is of a message from startLen on.
LEMMA LastText ==
  ASSUME startLen \in Nat, NEW ms, ms \in Seq([of : Nat, text : BOOLEAN, stop : {"toolUse", "stop", "error", "length"}])
  PROVE  getLastAssistantText(ms) \in {0} \cup (startLen + 1)..Len(ms)
<1> DEFINE I == {i \in (startLen + 1)..Len(ms) : ms[i].text}
<1>1. getLastAssistantText(ms) = IF I # {} THEN Max(I) ELSE 0
  BY DEF getLastAssistantText, SelectLastInSubSeq
<1>2. I \subseteq 0..Len(ms) /\ Len(ms) \in Nat
  OBVIOUS
<1> HIDE DEF I
<1>3. I # {} => Max(I) \in I
  BY <1>2, MaxOf
<1>4. I \subseteq (startLen + 1)..Len(ms)
  BY DEF I
<1> QED BY <1>1, <1>3, <1>4

TalkMessage == [of : Nat, text : BOOLEAN, stop : {"toolUse", "stop", "error", "length"}]

TalkTyped == messages \in Seq(TalkMessage) /\ invocation \in Nat /\ startLen \in Nat

\* Nothing was said before the prompt; what was said since startLen is this
\* invocation's, and the answer is one of it.
OwnWords ==
  /\ phase \in {"new", "reloading", "creating", "binding"} => messages = <<>>
  /\ \A k \in (startLen + 1)..Len(messages) : messages[k].of = invocation
  /\ phase = "idle" => answer.text \in {0} \cup (startLen + 1)..Len(messages)

TalkInv == TalkTyped /\ OwnWords

\* A message more, of this invocation.
LEMMA MessageOwn ==
  ASSUME TalkInv, NEW stopped \in {"toolUse", "stop", "error", "length"}, NEW text \in BOOLEAN, Message(stopped, text)
  PROVE  /\ messages' \in Seq(TalkMessage)
         /\ \A k \in (startLen + 1)..Len(messages') : messages'[k].of = invocation
<1> DEFINE m == [of |-> invocation, text |-> text, stop |-> stopped]
<1>1. m \in TalkMessage /\ m.of = invocation
  BY DEF TalkInv, TalkTyped, TalkMessage
<1>2. messages' = Append(messages, m)
  BY DEF Message
<1> HIDE DEF m
<1>3. messages' \in Seq(TalkMessage) /\ Len(messages') = Len(messages) + 1
  BY <1>1, <1>2 DEF TalkInv, TalkTyped
<1>4. \A k \in 1..Len(messages') : messages'[k] = IF k = Len(messages) + 1 THEN m ELSE messages[k]
  BY <1>1, <1>2 DEF TalkInv, TalkTyped
<1> QED BY <1>1, <1>3, <1>4 DEF TalkInv, TalkTyped, OwnWords

\* The prompt returns: the answer is looked for among this invocation's messages.
LEMMA PromptOwn ==
  ASSUME TalkInv, NEW said \in BOOLEAN, NEW stopped \in {"stop", "error", "length"}, NEW text \in BOOLEAN,
         PromptEnds(said, stopped, text)
  PROVE  TalkInv'
<1>1. /\ phase = "prompting" /\ startLen' = startLen /\ invocation' = invocation
      /\ Message(stopped, text) \/ messages' = messages
      /\ \/ phase' = "prompting"
         \/ phase' = "idle" /\ answer' = [text |-> getLastAssistantText(messages'), status |-> Outcome(messages')]
  BY DEF PromptEnds
<1>2. messages' \in Seq(TalkMessage) /\ \A k \in (startLen + 1)..Len(messages') : messages'[k].of = invocation
  BY <1>1, MessageOwn DEF TalkInv, TalkTyped, OwnWords
<1>3. getLastAssistantText(messages') \in {0} \cup (startLen + 1)..Len(messages')
  BY <1>2, LastText DEF TalkMessage, TalkInv, TalkTyped
<1>4. phase' = "idle" => answer'.text \in {0} \cup (startLen + 1)..Len(messages')
  BY <1>1, <1>3
<1> QED BY <1>1, <1>2, <1>4 DEF TalkInv, TalkTyped, OwnWords

\* Every step keeps the messages and the answer of the invocation together.
LEMMA TalkNext == TalkInv /\ [AgentRunNext]_runvars => TalkInv'
<1> SUFFICES ASSUME TalkInv, [AgentRunNext]_runvars PROVE TalkInv'
  OBVIOUS
<1>1. CASE UNCHANGED <<phase, messages, startLen, invocation, answer>>
  BY <1>1 DEF TalkInv, TalkTyped, OwnWords
<1>2. CASE detectEnv
  <2>1. Len(<<>>) = 0
    OBVIOUS
  <2> QED BY <1>2, <2>1 DEF detectEnv, SetupStep, TalkInv, TalkTyped, OwnWords
<1>3. CASE loaderReload \/ createAgentSession
  BY <1>3 DEF loaderReload, createAgentSession, SetupStep, talkVars, TalkInv, TalkTyped, OwnWords
<1>4. CASE bindExtensions
  BY <1>4 DEF bindExtensions, SetupStep, TalkInv, TalkTyped, OwnWords
<1>5. ASSUME NEW text \in BOOLEAN, turn_end(text) PROVE TalkInv'
  <2>1. phase = "prompting" /\ phase' = phase /\ startLen' = startLen /\ invocation' = invocation
    BY <1>5 DEF turn_end
  <2>2. messages' \in Seq(TalkMessage) /\ \A k \in (startLen + 1)..Len(messages') : messages'[k].of = invocation
    BY <1>5, MessageOwn DEF turn_end
  <2> QED BY <2>1, <2>2 DEF TalkInv, TalkTyped, OwnWords
<1>6. CASE resumeAgent
  BY <1>6 DEF resumeAgent, TalkInv, TalkTyped, OwnWords
<1>7. CASE Signal \/ steerAgent \/ UNCHANGED runvars
  BY <1>1, <1>7 DEF Signal, steerAgent, talkVars, runvars
<1>8. ASSUME NEW e, NEW t, registerTool(e, t) PROVE TalkInv'
  BY <1>1, <1>8 DEF registerTool, talkVars
<1>9. ASSUME NEW t, CallTool(t) PROVE TalkInv'
  BY <1>1, <1>9 DEF CallTool
<1> QED BY <1>2, <1>3, <1>4, <1>5, <1>6, <1>7, <1>8, <1>9, PromptOwn DEF AgentRunNext

\* A resumed agent never answers with the words of the invocation before, also when
\* the new one ends without any (getLastAssistantText from startLen on).
THEOREM AnswersAreOwn == AgentRunSpec => []OwnAnswer
<1>1. AgentRunInit => TalkInv
  <2>1. <<>> \in Seq(TalkMessage) /\ Len(<<>>) = 0
    OBVIOUS
  <2> QED BY <2>1 DEF AgentRunInit, TalkInv, TalkTyped, OwnWords
<1>2. TalkInv => OwnAnswer
  BY DEF TalkInv, TalkTyped, OwnWords, OwnAnswer
<1> QED BY <1>1, <1>2, TalkNext, PTL DEF AgentRunSpec

-----------------------------------------------------------------------------
(* Names: one conversation for each.                                       *)

\* The names that can be assigned.
Bases == AgentTypes \cup GivenNames
Assigned == {form(b, n) : b \in Bases, n \in 1..Len(Suffix)} \cup {NoName}

CrewRecord ==
  [type : Bases \cup {NoName}, handle : Assigned, alias : Assigned, conv : Nat, here : BOOLEAN,
   status : {"running", "done"}, session : BOOLEAN, file : BOOLEAN, read : BOOLEAN, at : Nat,
   since : Nat]

NamesTypeOK == crew \in Seq(CrewRecord) /\ stones \subseteq DOMAIN crew /\ ends \in Nat /\ starts \in Nat

NInv == NamesTypeOK /\ NamesApart

\* A handle that is assigned is a name that nobody has.
LEMMA AssignedIsFree ==
  ASSUME NEW base \in Bases, NEW taken, free(base, taken) # {}
  PROVE  assignHandle(base, taken) \in Assigned \ taken
<1> DEFINE F == free(base, taken)
           n == CHOOSE m \in F : \A k \in F : m <= k
<1>1. F \subseteq Nat
  BY DEF free
<1>2. n \in F
  <2>1. \E m \in F : \A k \in F : m <= k
    BY <1>1, LeastOf
  <2> QED BY <2>1
<1>3. assignHandle(base, taken) = form(base, n)
  BY DEF assignHandle
<1> HIDE DEF n
<1>4. n \in 1..Len(Suffix) /\ form(base, n) \notin taken
  BY <1>2 DEF free
<1> QED BY <1>3, <1>4 DEF Assigned

\* A record more, whose names are apart from those of other conversations.
LEMMA RecordAdded ==
  ASSUME NInv, NEW r \in CrewRecord, crew' = Append(crew, r), stones' = stones, ends' = ends, starts' \in Nat,
         \A j \in Records \cup stones :
            r.conv # crew[j].conv => {r.handle, r.alias} \cap NamesOf(j) \subseteq {NoName}
  PROVE  NInv'
<1>0. PICK n : n = Len(crew) + 1
  OBVIOUS
<1>1. /\ crew' \in Seq(CrewRecord) /\ DOMAIN crew = 1..Len(crew) /\ Len(crew) \in Nat /\ DOMAIN crew' = 1..n
      /\ \A i \in 1..n : crew'[i] = IF i = n THEN r ELSE crew[i]
  BY <1>0 DEF NInv, NamesTypeOK
<1>2. NamesTypeOK'
  BY <1>0, <1>1 DEF NInv, NamesTypeOK
<1>3. \A i \in (Records \cup stones)' : i = n \/ (i \in Records \cup stones /\ i # n)
  BY <1>0, <1>1 DEF Records, NInv, NamesTypeOK
<1>4. \A i \in Records \cup stones : crew'[i] = crew[i] /\ NamesOf(i)' = NamesOf(i)
  BY <1>0, <1>1 DEF Records, NInv, NamesTypeOK, NamesOf
<1>5. crew'[n] = r /\ NamesOf(n)' = {r.handle, r.alias} \ {NoName}
  BY <1>0, <1>1 DEF NamesOf
<1>6. \A j \in Records \cup stones : r.conv # crew[j].conv => ({r.handle, r.alias} \ {NoName}) \cap NamesOf(j) = {}
  OBVIOUS
<1>7. NamesApart'
  <2> SUFFICES ASSUME NEW i \in (Records \cup stones)', NEW j \in (Records \cup stones)', crew'[i].conv # crew'[j].conv
               PROVE  NamesOf(i)' \cap NamesOf(j)' = {}
    BY DEF NamesApart
  <2>1. CASE i \in Records \cup stones /\ j \in Records \cup stones
    BY <2>1, <1>4 DEF NInv, NamesApart
  <2>2. CASE i = n /\ j \in Records \cup stones
    BY <2>2, <1>4, <1>5, <1>6
  <2>3. CASE j = n /\ i \in Records \cup stones
    BY <2>3, <1>4, <1>5, <1>6
  <2> QED BY <1>3, <2>1, <2>2, <2>3
<1> QED BY <1>2, <1>7 DEF NInv

\* No names are added: those in reach keep theirs, and their conversation.
LEMMA NamesKept ==
  ASSUME NInv, NamesTypeOK', (Records \cup stones)' \subseteq Records \cup stones,
         \A i \in (Records \cup stones)' : crew'[i].handle = crew[i].handle /\ crew'[i].alias = crew[i].alias
                                           /\ crew'[i].conv = crew[i].conv
  PROVE  NInv'
<1>1. \A i \in (Records \cup stones)' : NamesOf(i)' = NamesOf(i)
  BY DEF NamesOf
<1> QED BY <1>1 DEF NInv, NamesApart

\* A spawn takes names that nobody in reach has, not even the evicted.
LEMMA SpawnApart ==
  ASSUME NInv, NEW type \in AgentTypes, NEW name \in GivenNames \cup {NoName}, spawn(type, name) PROVE NInv'
<1> DEFINE handle == assignHandle(type, takenHandles)
           alias == IF name = NoName THEN NoName ELSE assignHandle(name, takenHandles \cup {handle})
           r == NewRecord(type, handle, alias, Len(crew) + 1)
<1>1. crew' = Append(crew, r) /\ stones' = stones /\ ends' = ends /\ starts' = starts + 1
      /\ free(type, takenHandles) # {} /\ (name # NoName => free(name, takenHandles \cup {handle}) # {})
  BY DEF spawn
<1>2. type \in Bases /\ (name # NoName => name \in Bases)
  BY DEF Bases
<1>3. handle \in Assigned /\ handle \notin takenHandles
  BY <1>1, <1>2, AssignedIsFree
<1>4. alias \in Assigned /\ (alias # NoName => alias \notin takenHandles)
  <2> HIDE DEF handle
  <2>1. CASE name = NoName
    <3>1. NoName \in Assigned
      BY DEF Assigned
    <3> QED BY <2>1, <3>1
  <2>2. CASE name # NoName
    <3>1. assignHandle(name, takenHandles \cup {handle}) \in Assigned \ (takenHandles \cup {handle})
      BY <2>2, <1>1, <1>2, AssignedIsFree
    <3>2. alias = assignHandle(name, takenHandles \cup {handle})
      BY <2>2
    <3> QED BY <3>1, <3>2
  <2> QED BY <2>1, <2>2
<1> HIDE DEF handle, alias
<1>5. r \in CrewRecord /\ r.handle = handle /\ r.alias = alias
  BY <1>2, <1>3, <1>4 DEF NewRecord, CrewRecord, NInv, NamesTypeOK
<1>6. \A j \in Records \cup stones : NamesOf(j) \subseteq takenHandles
  BY Zenon DEF takenHandles
<1> HIDE DEF r
<1>7. \A j \in Records \cup stones : {r.handle, r.alias} \cap NamesOf(j) \subseteq {NoName}
  BY <1>3, <1>4, <1>5, <1>6
<1>8. starts' \in Nat
  BY <1>1 DEF NInv, NamesTypeOK
<1> QED BY <1>1, <1>5, <1>7, <1>8, RecordAdded

\* A reopened conversation has its names back.
LEMMA RespawnApart ==
  ASSUME NInv, NEW i \in stones, respawn(i) PROVE NInv'
<1> DEFINE r == NewRecord(crew[i].type, crew[i].handle, crew[i].alias, crew[i].conv)
<1>1. crew[i] \in CrewRecord
  BY DEF NInv, NamesTypeOK
<1>2. r \in CrewRecord /\ r.handle = crew[i].handle /\ r.alias = crew[i].alias /\ r.conv = crew[i].conv
  BY <1>1 DEF NewRecord, CrewRecord, NInv, NamesTypeOK
<1>3. crew' = Append(crew, r) /\ stones' = stones /\ ends' = ends /\ starts' \in Nat
  BY DEF respawn, NInv, NamesTypeOK
<1> HIDE DEF r
<1>4. \A j \in Records \cup stones :
         r.conv # crew[j].conv => {r.handle, r.alias} \cap NamesOf(j) \subseteq {NoName}
  <2> SUFFICES ASSUME NEW j \in Records \cup stones, r.conv # crew[j].conv
               PROVE  {r.handle, r.alias} \cap NamesOf(j) \subseteq {NoName}
    OBVIOUS
  <2>1. NamesOf(i) \cap NamesOf(j) = {}
    BY <1>2 DEF NInv, NamesApart
  <2>2. NamesOf(i) = {r.handle, r.alias} \ {NoName}
    BY <1>2 DEF NamesOf
  <2> QED BY <2>1, <2>2
<1> QED BY <1>2, <1>3, <1>4, RecordAdded

\* Eviction leaves records and tombstones with the names they had.
LEMMA LeaveApart ==
  ASSUME NInv, NEW gone, NEW kept, kept \subseteq Records \cup stones, Leave(gone, kept) PROVE NInv'
<1>1. /\ crew' = [i \in DOMAIN crew |-> IF i \in kept THEN [crew[i] EXCEPT !.here = FALSE]
                                        ELSE IF i \in Records \ gone THEN crew[i] ELSE Forgotten]
      /\ stones' = kept /\ ends' = ends /\ starts' = starts
  BY DEF Leave
<1>2. Forgotten \in CrewRecord /\ Forgotten.here = FALSE
  <2> DEFINE q == NewRecord(NoName, NoName, NoName, 0)
  <2>1. NoName \in Assigned
    BY DEF Assigned
  <2>2. q \in CrewRecord
    BY <2>1 DEF NewRecord, CrewRecord, NInv, NamesTypeOK
  <2>3. Forgotten = [q EXCEPT !.here = FALSE, !.since = 0]
    BY DEF Forgotten
  <2> HIDE DEF q
  <2> QED BY <2>2, <2>3 DEF CrewRecord
<1>3. /\ DOMAIN crew = 1..Len(crew) /\ Len(crew) \in Nat /\ \A i \in DOMAIN crew : crew[i] \in CrewRecord
      /\ Records \subseteq DOMAIN crew /\ stones \subseteq DOMAIN crew
  BY DEF NInv, NamesTypeOK, Records
<1>4. ASSUME NEW i \in DOMAIN crew
      PROVE  LET q == [crew[i] EXCEPT !.here = FALSE] IN
             q \in CrewRecord /\ q.handle = crew[i].handle /\ q.alias = crew[i].alias /\ q.conv = crew[i].conv /\ q.here = FALSE
  BY <1>3 DEF CrewRecord
<1>5. \A i \in DOMAIN crew : crew'[i] \in CrewRecord
  <2> SUFFICES ASSUME NEW i \in DOMAIN crew PROVE crew'[i] \in CrewRecord
    OBVIOUS
  <2>1. CASE i \in kept
    BY <1>1, <1>4, <2>1
  <2>2. CASE i \notin kept
    BY <1>1, <1>2, <1>3, <2>2
  <2> QED BY <2>1, <2>2
<1>6. crew' \in Seq(CrewRecord) /\ DOMAIN crew' = DOMAIN crew
  BY <1>1, <1>3, <1>5
<1>7. NamesTypeOK'
  BY <1>1, <1>3, <1>6 DEF NInv, NamesTypeOK
<1>8. Records' \subseteq Records
  <2> SUFFICES ASSUME NEW i \in Records', i \notin Records PROVE FALSE
    OBVIOUS
  <2>1. i \in DOMAIN crew /\ crew'[i].here
    BY <1>6 DEF Records
  <2>2. i \notin kept
    BY <1>1, <1>4, <2>1
  <2>3. crew'[i] = Forgotten
    BY <1>1, <2>1, <2>2
  <2> QED BY <1>2, <2>1, <2>3
<1>9. \A i \in (Records \cup stones)' : crew'[i].handle = crew[i].handle /\ crew'[i].alias = crew[i].alias
                                        /\ crew'[i].conv = crew[i].conv
  <2> SUFFICES ASSUME NEW i \in (Records \cup stones)'
               PROVE crew'[i].handle = crew[i].handle /\ crew'[i].alias = crew[i].alias /\ crew'[i].conv = crew[i].conv
    OBVIOUS
  <2>1. i \in DOMAIN crew
    BY <1>1, <1>3, <1>8
  <2>2. CASE i \in kept
    BY <1>1, <1>4, <2>1, <2>2
  <2>3. CASE i \notin kept
    <3>1. i \in Records' /\ crew'[i].here
      BY <1>1, <2>3 DEF Records
    <3>2. crew'[i] = crew[i]
      BY <1>1, <1>2, <2>1, <2>3, <3>1
    <3> QED BY <3>2
  <2> QED BY <2>2, <2>3
<1> QED BY <1>1, <1>7, <1>8, <1>9, NamesKept

\* A step that changes one record's state, and not its names.
LEMMA StateApart ==
  ASSUME NInv, NEW i \in DOMAIN crew, NEW r \in CrewRecord, crew' = [crew EXCEPT ![i] = r],
         stones' = stones, ends' \in Nat, starts' \in Nat, r.handle = crew[i].handle, r.alias = crew[i].alias,
         r.conv = crew[i].conv, r.here = crew[i].here
  PROVE  NInv'
<1>1. /\ DOMAIN crew = 1..Len(crew) /\ Len(crew) \in Nat /\ crew' \in Seq(CrewRecord) /\ DOMAIN crew' = DOMAIN crew
      /\ \A j \in DOMAIN crew : crew'[j] = IF j = i THEN r ELSE crew[j]
      /\ stones \subseteq DOMAIN crew
  BY DEF NInv, NamesTypeOK
<1>2. Records' = Records
  BY <1>1 DEF Records
<1>3. NamesTypeOK'
  BY <1>1 DEF NamesTypeOK
<1>4. Records \subseteq DOMAIN crew
  BY DEF Records
<1> QED BY <1>1, <1>2, <1>3, <1>4, NamesKept

\* A running agent is steered, a finished one resumed, and one that never got a
\* session started afresh.
LEMMA ToLiveApart ==
  ASSUME NInv, NEW i \in Records, NEW name, toLive(i, name) PROVE NInv'
<1>1. i \in DOMAIN crew /\ crew[i] \in CrewRecord /\ ends \in Nat /\ starts \in Nat
  BY DEF Records, NInv, NamesTypeOK
<1>2. CASE Active(i)
  <2> DEFINE r == [crew[i] EXCEPT !.read = FALSE]
  <2>1. /\ r \in CrewRecord /\ r.handle = crew[i].handle /\ r.alias = crew[i].alias
        /\ r.conv = crew[i].conv /\ r.here = crew[i].here
    BY <1>1 DEF CrewRecord
  <2>2. crew' = [crew EXCEPT ![i] = r] /\ stones' = stones /\ ends' = ends /\ starts' = starts
    BY <1>2 DEF toLive
  <2> HIDE DEF r
  <2> QED BY <1>1, <2>1, <2>2, StateApart
<1>3. CASE ~Active(i) /\ crew[i].session
  <2>0. PICK t \in Nat : t = starts + 1
    BY <1>1
  <2> DEFINE r == [crew[i] EXCEPT !.status = "running", !.read = FALSE, !.since = t]
  <2>1. /\ r \in CrewRecord /\ r.handle = crew[i].handle /\ r.alias = crew[i].alias
        /\ r.conv = crew[i].conv /\ r.here = crew[i].here
    BY <1>1 DEF CrewRecord
  <2>2. crew' = [crew EXCEPT ![i] = r] /\ stones' = stones /\ ends' = ends /\ starts' = t
    BY <1>3, <2>0 DEF toLive
  <2> HIDE DEF r
  <2> QED BY <1>1, <2>1, <2>2, StateApart
<1>4. CASE ~Active(i) /\ ~crew[i].session
  BY <1>4, SpawnApart DEF toLive
<1> QED BY <1>2, <1>3, <1>4

\* An evicted agent is reopened, or given up when its file is gone.
LEMMA ToTombstoneApart ==
  ASSUME NInv, NEW i \in stones, toTombstone(i) PROVE NInv'
BY RespawnApart, LeaveApart DEF toTombstone

\* The steps of a run.
LEMMA RunApart ==
  ASSUME NInv, NEW i \in DOMAIN crew, NEW saved \in BOOLEAN,
         SessionMade(i, saved) \/ RunOver(i) \/ ResultRead(i)
  PROVE  NInv'
<1>1. crew[i] \in CrewRecord /\ ends \in Nat /\ starts \in Nat
  BY DEF NInv, NamesTypeOK
<1>2. CASE SessionMade(i, saved)
  <2> DEFINE r == [crew[i] EXCEPT !.session = TRUE, !.file = saved]
  <2>1. /\ r \in CrewRecord /\ r.handle = crew[i].handle /\ r.alias = crew[i].alias
        /\ r.conv = crew[i].conv /\ r.here = crew[i].here
    BY <1>1 DEF CrewRecord
  <2>2. crew' = [crew EXCEPT ![i] = r] /\ stones' = stones /\ ends' = ends /\ starts' = starts
    BY <1>2 DEF SessionMade
  <2> HIDE DEF r
  <2> QED BY <1>1, <2>1, <2>2, StateApart
<1>3. CASE RunOver(i)
  <2>0. PICK t \in Nat : t = ends + 1
    BY <1>1
  <2> DEFINE r == [crew[i] EXCEPT !.status = "done", !.at = t]
  <2>1. /\ r \in CrewRecord /\ r.handle = crew[i].handle /\ r.alias = crew[i].alias
        /\ r.conv = crew[i].conv /\ r.here = crew[i].here
    BY <1>1 DEF CrewRecord
  <2>2. crew' = [crew EXCEPT ![i] = r] /\ stones' = stones /\ ends' = t /\ starts' = starts
    BY <1>3, <2>0 DEF RunOver
  <2> HIDE DEF r
  <2> QED BY <1>1, <2>1, <2>2, StateApart
<1>4. CASE ResultRead(i)
  <2> DEFINE r == [crew[i] EXCEPT !.read = TRUE]
  <2>1. /\ r \in CrewRecord /\ r.handle = crew[i].handle /\ r.alias = crew[i].alias
        /\ r.conv = crew[i].conv /\ r.here = crew[i].here
    BY <1>1 DEF CrewRecord
  <2>2. crew' = [crew EXCEPT ![i] = r] /\ stones' = stones /\ ends' = ends /\ starts' = starts
    BY <1>4 DEF ResultRead
  <2> HIDE DEF r
  <2> QED BY <1>1, <2>1, <2>2, StateApart
<1> QED BY <1>2, <1>3, <1>4

\* Every step keeps the names apart.
LEMMA NamesNextApart == NInv /\ [NamesNext]_namevars => NInv'
<1> SUFFICES ASSUME NInv, [NamesNext]_namevars PROVE NInv'
  OBVIOUS
<1>1. CASE UNCHANGED <<crew, stones, ends, starts>>
  BY <1>1 DEF NInv, NamesTypeOK, NamesApart, NamesOf, Records
<1>2. ASSUME NEW cutoff, cleanup(cutoff) PROVE NInv'
  <2> DEFINE gone == {i \in Records : ~Active(i) /\ crew[i].at < cutoff}
  <2>1. Leave(gone, tombstone(gone))
    BY <1>2 DEF cleanup
  <2>2. tombstone(gone) \subseteq Records \cup stones
    BY DEF tombstone
  <2> HIDE DEF gone
  <2> QED BY <2>1, <2>2, LeaveApart
<1>3. ASSUME NEW skip, clearCompleted(skip) PROVE NInv'
  BY <1>3, LeaveApart DEF clearCompleted
<1>4. ASSUME NEW name, mentionName(name) PROVE NInv'
  <2>1. liveAnswer(name) \subseteq Records
    <3> DEFINE active == {i \in Records : name \in NamesOf(i) /\ Active(i)}
    <3>1. active # {} => (CHOOSE i \in active : \A j \in active : i <= j) \in active
      <4>1. active \subseteq Nat
        BY DEF Records, NInv, NamesTypeOK
      <4> HIDE DEF active
      <4> QED BY <4>1, LeastOf
    <3>2. {i \in {j \in Records : name \in NamesOf(j)} : Active(i)} = active
      OBVIOUS
    <3> HIDE DEF active
    <3>3. active \subseteq Records
      BY DEF active
    <3> QED BY <3>1, <3>2, <3>3 DEF liveAnswer
  <2> QED BY <1>4, <2>1, ToLiveApart, ToTombstoneApart, SpawnApart DEF mentionName
<1>5. ASSUME NEW i \in DOMAIN crew, mentionId(i) PROVE NInv'
  BY <1>5, ToLiveApart, ToTombstoneApart DEF mentionId
<1>6. ASSUME NEW c, FileGone(c) PROVE NInv'
  BY <1>1, <1>6 DEF FileGone
<1> QED BY <1>1, <1>2, <1>3, <1>4, <1>5, <1>6, SpawnApart, RunApart DEF NamesNext, namevars

\* However agents are started, named, evicted, reopened and mentioned, and whatever
\* is forgotten at session boundaries, a name in reach belongs to one conversation
\* (assignHandle over takenHandles, which includes the tombstones).
THEOREM NamesBelongToOne == NamesSpec => []NamesApart
<1>1. NamesInit => NInv
  BY DEF NamesInit, NInv, NamesTypeOK, NamesApart, Records
<1>2. NInv => NamesApart
  BY DEF NInv
<1> QED BY <1>1, <1>2, NamesNextApart, PTL DEF NamesSpec
-----------------------------------------------------------------------------
(* The fleet list: the selection is drawn, and the keys are whose overlay  *)
(* is up.                                                                  *)

FleetState == [ui : Nat, enabled : BOOLEAN, on : BOOLEAN, sel : Nat, viewing : FleetIds \cup {Nobody},
               widget : BOOLEAN, timer : BOOLEAN, ctx : Nat]

\* Without a UI the list views nobody; with one it views whose overlay is up.
FInv ==
  /\ fleet \in FleetState /\ launched \in Seq(FleetIds)
  /\ fleet.ui = 0 => fleet.viewing = Nobody
  /\ fleet.ui # 0 => overlays = {fleet.viewing} \ {Nobody}

\* The roster has a row for each one shown.
LEMMA RosterRows ==
  ASSUME launched \in Seq(FleetIds), NEW f PROVE roster(f) \in Seq(FleetIds) /\ Rows(f) \in Nat
<1> DEFINE at == {p \in DOMAIN launched : Shown(f, launched[p])}
           n == Cardinality(at)
           nth(k) == CHOOSE p \in at : Cardinality({q \in at : q <= p}) = k
<1>1. roster(f) = [k \in 1..n |-> launched[nth(k)]]
  BY DEF roster
<1>2. DOMAIN launched = 1..Len(launched) /\ Len(launched) \in Nat /\ at \subseteq DOMAIN launched
  OBVIOUS
<1> HIDE DEF at
<1>3. at \subseteq Int /\ IsFiniteSet(at)
  <2>1. IsFiniteSet(1..Len(launched)) /\ at \subseteq 1..Len(launched)
    BY <1>2, 1 \in Int, Len(launched) \in Int, FS_Interval
  <2> QED BY <1>2, <2>1, FS_Subset
<1>4. n \in Nat
  BY <1>3, FS_CardinalityType
<1>5. ASSUME NEW k \in 1..n PROVE launched[nth(k)] \in FleetIds
  <2>1. \E p \in at : Cardinality({q \in at : q <= p}) = k
    BY <1>3, Ranks
  <2>2. nth(k) \in at
    BY <2>1
  <2> QED BY <1>2, <2>2
<1> HIDE DEF n, nth
<1>6. roster(f) \in Seq(FleetIds)
  BY <1>1, <1>4, <1>5
<1> QED BY <1>6 DEF Rows

\* A row that comes, moves or goes leaves a sequence of ids.
LEMMA LaunchedIds ==
  ASSUME launched \in Seq(FleetIds), NEW i \in FleetIds, launched' = Others(i) \/ Launch(i)
  PROVE  launched' \in Seq(FleetIds)
<1> DEFINE at == {p \in DOMAIN launched : launched[p] = i}
           old == CHOOSE p \in at : TRUE
           o == Others(i)
<1>1. o \in Seq(FleetIds)
  <2>1. CASE at = {}
    BY <2>1 DEF Others
  <2>2. CASE at # {}
    <3>1. old \in 1..Len(launched) /\ Len(launched) \in Nat
      BY <2>2
    <3>2. o = [p \in 1..(Len(launched) - 1) |-> IF p < old THEN launched[p] ELSE launched[p + 1]]
      BY <2>2 DEF Others
    <3> HIDE DEF old, o
    <3>3. ASSUME NEW p \in 1..(Len(launched) - 1)
          PROVE  (IF p < old THEN launched[p] ELSE launched[p + 1]) \in FleetIds
      BY <3>1
    <3>4. Len(launched) - 1 \in Nat
      BY <3>1
    <3> QED BY <3>2, <3>3, <3>4
  <2> QED BY <2>1, <2>2
<1> HIDE DEF o, at
<1>2. CASE launched' = o
  BY <1>1, <1>2
<1>3. CASE Launch(i)
  <2> DEFINE last == IF i \in FleetAgents THEN Len(o) ELSE Cardinality({p \in DOMAIN o : o[p] \in FleetRuns})
  <2>1. launched' = SubSeq(o, 1, last) \o <<i>> \o SubSeq(o, last + 1, Len(o))
    BY <1>3 DEF Launch, o
  <2>2. last \in 0..Len(o) /\ Len(o) \in Nat
    <3> DEFINE runs == {p \in DOMAIN o : o[p] \in FleetRuns}
    <3>1. runs \subseteq 1..Len(o) /\ Len(o) \in Nat
      BY <1>1
    <3> HIDE DEF runs
    <3>2. Cardinality(1..Len(o)) = Len(o) /\ IsFiniteSet(1..Len(o))
      <4>1. PICK m \in Nat : m = Len(o)
        BY <3>1
      <4>2. IsFiniteSet(1..m) /\ Cardinality(1..m) = IF 1 > m THEN 0 ELSE m - 1 + 1
        BY 1 \in Int, m \in Int, FS_Interval
      <4> QED BY <4>1, <4>2
    <3>3. Cardinality(runs) <= Len(o) /\ Cardinality(runs) \in Nat
      BY <3>1, <3>2, FS_Subset, FS_CardinalityType
    <3> QED BY <3>1, <3>3 DEF runs
  <2> HIDE DEF last
  <2>3. SubSeq(o, 1, last) \in Seq(FleetIds) /\ SubSeq(o, last + 1, Len(o)) \in Seq(FleetIds)
    BY <1>1, <2>2
  <2> QED BY <2>1, <2>3
<1> QED BY <1>2, <1>3 DEF o

\* What a refresh does to the fields: it leaves the overlay's owner and the session.
LEMMA FleetRefreshed ==
  ASSUME launched \in Seq(FleetIds), NEW f \in FleetState
  PROVE  updateFleet(f) \in FleetState /\ updateFleet(f).ui = f.ui /\ updateFleet(f).viewing = f.viewing
<1>1. Rows(f) \in Nat
  BY RosterRows
<1>2. clampSelection(f) \in FleetState /\ clampSelection(f).ui = f.ui /\ clampSelection(f).viewing = f.viewing
  BY <1>1 DEF clampSelection, FleetState
<1> QED BY <1>2 DEF updateFleet, FleetState

\* A step that refreshes the list, with another selection perhaps.
LEMMA FleetUpdated ==
  ASSUME FInv, NEW f \in FleetState, f.ui = fleet.ui, f.viewing = fleet.viewing,
         fleet' = updateFleet(f), overlays' = overlays, launched' = launched
  PROVE  FInv'
BY FleetRefreshed DEF FInv

\* The handler of a key: Enter puts up the overlay of the one it views.
LEMMA KeyHandled == ASSUME FInv, NEW key, handleKey(key) PROVE FInv'
<1> DEFINE n == Rows(fleet)
           off == [fleet EXCEPT !.on = FALSE, !.sel = 0]
           first == [fleet EXCEPT !.on = TRUE, !.sel = 0]
           down == [fleet EXCEPT !.sel = IF @ < n THEN @ + 1 ELSE n]
           up == [fleet EXCEPT !.sel = @ - 1]
<1>0. launched' = launched /\ launched \in Seq(FleetIds)
  BY DEF handleKey, FInv
<1>1. n \in Nat /\ roster(fleet) \in Seq(FleetIds) /\ Len(roster(fleet)) = n
  BY <1>0, RosterRows DEF Rows
<1>2. /\ off \in FleetState /\ off.ui = fleet.ui /\ off.viewing = fleet.viewing
      /\ first \in FleetState /\ first.ui = fleet.ui /\ first.viewing = fleet.viewing
      /\ down \in FleetState /\ down.ui = fleet.ui /\ down.viewing = fleet.viewing
      /\ fleet.sel # 0 => up \in FleetState /\ up.ui = fleet.ui /\ up.viewing = fleet.viewing
  <2> USE DEF FleetState
  <2>1. fleet \in FleetState
    BY DEF FInv
  <2>2. off \in FleetState /\ off.ui = fleet.ui /\ off.viewing = fleet.viewing
    BY <2>1
  <2>3. first \in FleetState /\ first.ui = fleet.ui /\ first.viewing = fleet.viewing
    BY <2>1
  <2>4. down \in FleetState /\ down.ui = fleet.ui /\ down.viewing = fleet.viewing
    <3>1. (IF fleet.sel < n THEN fleet.sel + 1 ELSE n) \in Nat
      BY <1>1, <2>1
    <3> QED BY <2>1, <3>1
  <2>5. fleet.sel # 0 => up \in FleetState /\ up.ui = fleet.ui /\ up.viewing = fleet.viewing
    BY <2>1
  <2> QED BY <2>2, <2>3, <2>4, <2>5
<1>3. fleet.viewing = Nobody /\ fleet.ui # 0 /\ fleet \in FleetState /\ overlays = {}
  BY DEF handleKey, FInv
<1>4. CASE fleet' = deactivate(fleet) /\ overlays' = overlays
  BY <1>0, <1>2, <1>4, FleetUpdated DEF deactivate
<1>5. CASE openSelected
  <2>1. CASE fleet.sel \notin 1..n
    BY <1>1, <1>4, <1>5, <2>1 DEF openSelected
  <2>2. CASE fleet.sel \in 1..n
    <3> DEFINE i == roster(fleet)[fleet.sel]
    <3>1. fleet' = [fleet EXCEPT !.viewing = i] /\ overlays' = overlays \cup {i}
      BY <1>1, <1>5, <2>2 DEF openSelected
    <3>2. i \in FleetIds /\ i # Nobody
      BY <1>1, <2>2, FleetAssumption DEF FleetIds, Nobody
    <3> HIDE DEF i
    <3> QED BY <1>0, <1>3, <3>1, <3>2 DEF FInv, FleetState
  <2> QED BY <2>1, <2>2
<1>6. \/ fleet' = updateFleet(first) /\ overlays' = overlays
      \/ fleet' = updateFleet(down) /\ overlays' = overlays
      \/ fleet.sel # 0 /\ fleet' = updateFleet(up) /\ overlays' = overlays
      \/ fleet' = deactivate(fleet) /\ overlays' = overlays
      \/ openSelected
  <2>1. CASE ~fleet.on
    BY <2>1 DEF handleKey
  <2>2. CASE fleet.on /\ key = "down"
    BY <2>2 DEF handleKey
  <2>3. CASE fleet.on /\ key = "up"
    BY <2>3 DEF handleKey
  <2>4. CASE fleet.on /\ key = "enter"
    BY <2>4 DEF handleKey
  <2>5. CASE fleet.on /\ key \notin {"down", "up", "enter"}
    BY <2>5 DEF handleKey
  <2> QED BY <2>1, <2>2, <2>3, <2>4, <2>5
<1> HIDE DEF first, down, up
<1> QED BY <1>0, <1>2, <1>4, <1>5, <1>6, FleetUpdated

\* An overlay closes: the list views nobody.
LEMMA ViewerCleared == ASSUME FInv, NEW o \in overlays, clearViewer(o) PROVE FInv'
<1> DEFINE at == {k \in 1..Len(roster(fleet)) : roster(fleet)[k] = fleet.viewing}
           back == IF at = {} THEN fleet ELSE [fleet EXCEPT !.sel = CHOOSE k \in at : TRUE]
           f == [back EXCEPT !.viewing = Nobody]
<1>1. overlays' = overlays \ {o} /\ fleet' = updateFleet(f) /\ launched' = launched /\ launched \in Seq(FleetIds)
  BY DEF clearViewer, FInv
<1>2. at \subseteq Nat /\ (at # {} => (CHOOSE k \in at : TRUE) \in Nat)
  BY <1>1, RosterRows
<1> HIDE DEF at
<1>3. back \in FleetState /\ back.ui = fleet.ui
  BY <1>2 DEF FInv, FleetState
<1> HIDE DEF back
<1>4. f \in FleetState /\ f.ui = fleet.ui /\ f.viewing = Nobody
  BY <1>3 DEF FleetState
<1> HIDE DEF f
<1>5. fleet' \in FleetState /\ fleet'.ui = fleet.ui /\ fleet'.viewing = Nobody
  BY <1>1, <1>4, FleetRefreshed
<1> QED BY <1>1, <1>5 DEF FInv

\* The life of the list: switched on or off, given a session's UI, disposed.
LEMMA FleetLife ==
  ASSUME FInv, NEW b \in BOOLEAN, setEnabled(b) \/ setUICtx \/ dispose PROVE FInv'
<1>1. CASE setEnabled(b)
  <2> DEFINE f == [fleet EXCEPT !.enabled = b, !.on = @ /\ b]
  <2>1. f \in FleetState /\ f.ui = fleet.ui /\ f.viewing = fleet.viewing
    BY DEF FInv, FleetState
  <2>2. fleet' = updateFleet(f) /\ overlays' = overlays /\ launched' = launched
    BY <1>1 DEF setEnabled
  <2> HIDE DEF f
  <2> QED BY <2>1, <2>2, FleetUpdated
<1>2. CASE setUICtx
  <2>1. fleet.viewing = Nobody /\ overlays' = {} /\ fleet \in FleetState /\ launched' = launched /\ launched \in Seq(FleetIds)
    BY <1>2 DEF setUICtx, FInv
  <2>0. PICK c \in Nat : c = fleet.ctx + 1
    BY <2>1 DEF FleetState
  <2>2. fleet' = [fleet EXCEPT !.ui = 1, !.ctx = c, !.widget = FALSE]
    BY <1>2, <2>0 DEF setUICtx
  <2>3. fleet' \in FleetState /\ fleet'.ui = 1 /\ fleet'.viewing = Nobody
    BY <2>1, <2>2 DEF FleetState
  <2> QED BY <2>1, <2>3 DEF FInv
<1>3. CASE dispose
  <2>1. launched' \in Seq(FleetIds)
    BY <1>3 DEF dispose
  <2>2. fleet' \in FleetState /\ fleet'.ui = 0 /\ fleet'.viewing = Nobody
    BY <1>3 DEF dispose, FInv, FleetState
  <2> QED BY <2>1, <2>2 DEF FInv
<1> QED BY <1>1, <1>2, <1>3

LEMMA FleetNextInv == FInv /\ [FleetNext]_fleetvars => FInv'
<1> SUFFICES ASSUME FInv, [FleetNext]_fleetvars PROVE FInv'
  OBVIOUS
<1>0. fleet \in FleetState
  BY DEF FInv
<1>1. CASE UNCHANGED <<fleet, overlays>> /\ launched' \in Seq(FleetIds)
  BY <1>1 DEF FInv
<1>2. CASE Refresh
  BY <1>0, <1>2, FleetUpdated DEF Refresh
<1>3. CASE overlays' = overlays /\ launched' \in Seq(FleetIds) /\ fleet' = [fleet EXCEPT !.timer = TRUE]
  BY <1>3 DEF FInv, FleetState
<1>4. ASSUME NEW i \in FleetIds, NEW st,
             Spawned(i, st) \/ Finished(i) \/ LingerOver(i) \/ Evicted(i) \/ Resumed(i)
      PROVE  FInv'
  <2>1. launched' = launched \/ launched' = Others(i) \/ Launch(i)
    BY <1>4 DEF Spawned, Finished, LingerOver, Evicted, Resumed
  <2>2. launched' \in Seq(FleetIds)
    BY <2>1, LaunchedIds DEF FInv
  <2> QED BY <1>1, <1>3, <1>4, <2>2 DEF Spawned, Finished, LingerOver, Evicted, Resumed
<1>5. CASE UNCHANGED fleetvars
  BY <1>1, <1>5 DEF fleetvars, FInv
<1> QED BY <1>2, <1>4, <1>5, KeyHandled, ViewerCleared, FleetLife DEF FleetNext, TickFleet

\* The window renderBar draws holds the selection and ends with the last row.
LEMMA WindowHoldsSelection ==
  ASSUME fleet \in FleetState, launched \in Seq(FleetIds), Rows(fleet) > 0
  PROVE  DrawnRows.last <= Rows(fleet) /\ (DrawnRows.sel > 0 => DrawnRows.sel \in DrawnRows.first..DrawnRows.last)
<1>1. Rows(fleet) \in Nat \ {0}
  BY RosterRows
<1>2. fleet.sel \in Nat
  BY DEF FleetState
<1> QED BY <1>1, <1>2, FleetAssumption DEF DrawnRows

\* However rows come and go between refreshes, the window holds the selected row and
\* no row past the end, and the list leaves the keys to an overlay exactly while one
\* it opened is up (renderBar's window, handleKey and clearViewer).
THEOREM SelectionIsDrawn == FleetSpec => []SelectionDrawn
<1>1. FleetInit => FInv
  BY DEF FleetInit, FInv, FleetState
<1>2. FInv => SelectionDrawn
  BY WindowHoldsSelection DEF FInv, SelectionDrawn
<1> QED BY <1>1, <1>2, FleetNextInv, PTL DEF FleetSpec
-----------------------------------------------------------------------------
(* The completion notices: every end is told or read, never both.          *)

NoteRecord == [status : {"none", "queued", "running", "ended"}, flights : Nat, completedAt : BOOLEAN, consumed : BOOLEAN,
               waited : BOOLEAN, turns : Nat, told : BOOLEAN, over : BOOLEAN]
NudgeKeys == [kind : {"one", "group"}, ids : Seq(Ids)]
GroupRecord == [ids : SUBSET Ids, completed : Seq(Ids), timer : BOOLEAN, live : BOOLEAN]

\* A state of the group manager: an agent's group is one that was registered.
JoinState(J) ==
  /\ J \in [g : Seq(GroupRecord), of : [Ids -> Nat], n : SUBSET NudgeKeys]
  /\ \A a \in Ids : J.of[a] <= Len(J.g)
JoinStates == {J \in [g : Seq(GroupRecord), of : [Ids -> Nat], n : SUBSET NudgeKeys] : JoinState(J)}

\* What a timer will report.
Reported(J, a) ==
  \/ \E key \in J.n : a \in ToSet(key.ids)
  \/ \E k \in DOMAIN J.g : J.g[k].timer /\ a \in ToSet(J.g[k].completed)

Owing(a) == /\ session = "up" /\ note[a].status = "ended"
            /\ note[a].over /\ note[a].flights = 0 /\ ~note[a].consumed /\ ~note[a].told

\* A run that is over has its completion time, and one that begins is not over; a
\* batch waits for its timer.
NotesTyped == note \in [Ids -> NoteRecord] /\ batch \in Seq(Ids) /\ JoinState(Joins)
OverHasTime ==
  \A a \in Ids : (note[a].over => note[a].completedAt) /\ (note[a].status # "ended" => ~note[a].over)
BatchTimed == batchTimer \in BOOLEAN /\ (batch # <<>> => batchTimer)
OwedHeld == \A a \in Ids : Owing(a) => a \in ToSet(batch) \/ Reported(Joins, a)

NoticeInv == NotesTyped /\ OverHasTime /\ BatchTimed /\ OwedHeld

LEMMA InvHolds == NoticeInv => NoticeHeld
<1> SUFFICES ASSUME NoticeInv, NEW a \in Ids, Owing(a)
             PROVE \/ batchTimer /\ a \in ToSet(batch)
                   \/ \E key \in nudges : a \in ToSet(key.ids)
                   \/ \E k \in DOMAIN groups : groups[k].timer /\ a \in ToSet(groups[k].completed)
  BY DEF NoticeHeld, Owing
<1>1. a \in ToSet(batch) => batchTimer
  BY DEF ToSet, NoticeInv, NotesTyped, OverHasTime, BatchTimed, OwedHeld
<1> QED BY <1>1 DEF NoticeInv, NotesTyped, OverHasTime, BatchTimed, OwedHeld, Reported, Joins

\* The agents of a sequence, and of one with another at its end.
LEMMA IdsOf ==
  ASSUME NEW q \in Seq(Ids)
  PROVE  ToSet(q) \subseteq Ids /\ IsFiniteSet(ToSet(q)) /\ ToSet(q) = {q[i] : i \in 1..Len(q)}
<1>1. DOMAIN q = 1..Len(q) /\ Len(q) \in Int /\ 1 \in Int /\ ToSet(q) = {q[i] : i \in 1..Len(q)} /\ ToSet(q) \subseteq Ids
  BY DEF ToSet
<1>2. IsFiniteSet(1..Len(q))
  BY <1>1, FS_Interval
<1>3. [i \in 1..Len(q) |-> q[i]] \in Surjection(1..Len(q), ToSet(q))
  BY <1>1 DEF Surjection
<1> QED BY <1>1, <1>2, <1>3, FS_Surjection

LEMMA OneMore ==
  ASSUME NEW q \in Seq(Ids), NEW e \in Ids, NEW p, p = Append(q, e)
  PROVE  p \in Seq(Ids) /\ ToSet(p) = ToSet(q) \cup {e}
<1>1. DOMAIN q = 1..Len(q) /\ Len(q) \in Nat /\ ToSet(q) = {q[i] : i \in 1..Len(q)} /\ ToSet(q) \subseteq Ids
  BY DEF ToSet
<1>2. p \in Seq(Ids) /\ Len(p) = Len(q) + 1 /\ DOMAIN p = 1..(Len(q) + 1)
      /\ \A i \in 1..(Len(q) + 1) : p[i] = IF i = Len(q) + 1 THEN e ELSE q[i]
  OBVIOUS
<1>3. ToSet(p) = ToSet(q) \cup {e}
  <2>1. \A x : x \in ToSet(p) <=> \E i \in 1..(Len(q) + 1) : x = p[i]
    BY <1>2 DEF ToSet
  <2>2. ASSUME NEW x \in ToSet(p) PROVE x \in ToSet(q) \cup {e}
    <3>1. PICK i \in 1..(Len(q) + 1) : x = p[i]
      BY <2>1
    <3>2. i # Len(q) + 1 => i \in 1..Len(q)
      BY <1>1
    <3> QED BY <1>1, <1>2, <3>1, <3>2
  <2>3. ASSUME NEW x \in ToSet(q) \cup {e} PROVE x \in ToSet(p)
    <3>1. CASE x = e
      <4>1. Len(q) + 1 \in 1..(Len(q) + 1) /\ p[Len(q) + 1] = e
        BY <1>1, <1>2
      <4> QED BY <2>1, <3>1, <4>1
    <3>2. CASE x \in ToSet(q)
      <4>1. PICK i \in 1..Len(q) : x = q[i]
        BY <1>1, <3>2
      <4>2. i \in 1..(Len(q) + 1) /\ i # Len(q) + 1
        BY <1>1
      <4> QED BY <1>2, <2>1, <4>1, <4>2
    <3> QED BY <2>3, <3>1, <3>2
  <2> QED BY <2>2, <2>3
<1> QED BY <1>2, <1>3

\* A member completes: what was reported stays so, and the member is reported unless
\* it is in no live group.
LEMMA MemberCompletes ==
  ASSUME NEW J, JoinState(J), NEW a \in Ids
  PROVE  LET R == onAgentComplete(J, a) IN
         /\ JoinState(R) /\ Len(R.g) = Len(J.g)
         /\ \A b \in Ids : Reported(J, b) => Reported(R, b)
         /\ Passes(J, a) => R = J
         /\ ~Passes(J, a) => Reported(R, a)
<1> DEFINE k == J.of[a]
           completed == IF a \in ToSet(J.g[k].completed) THEN J.g[k].completed ELSE Append(J.g[k].completed, a)
           R == onAgentComplete(J, a)
           key == Nudge("group", completed)
<1>1. CASE Passes(J, a)
  BY <1>1 DEF onAgentComplete
<1>2. CASE ~Passes(J, a)
  <2>1. k \in 1..Len(J.g) /\ J.g \in Seq(GroupRecord) /\ J.g[k] \in GroupRecord /\ J.g[k].completed \in Seq(Ids)
    <3>1. J.g \in Seq(GroupRecord) /\ J.of \in [Ids -> Nat] /\ k <= Len(J.g)
      BY DEF JoinState
    <3>2. k \in Nat /\ k # 0 /\ Len(J.g) \in Nat
      BY <1>2, <3>1 DEF Passes
    <3>3. k \in 1..Len(J.g)
      BY <3>1, <3>2
    <3>4. J.g[k] \in GroupRecord
      BY <3>1, <3>3
    <3> QED BY <3>1, <3>3, <3>4 DEF GroupRecord
  <2>2. completed \in Seq(Ids) /\ ToSet(completed) = ToSet(J.g[k].completed) \cup {a}
    <3>0. PICK q : q = J.g[k].completed /\ q \in Seq(Ids)
      BY <2>1
    <3>1. PICK p : p = Append(q, a)
      OBVIOUS
    <3>2. p \in Seq(Ids) /\ ToSet(p) = ToSet(q) \cup {a}
      BY <3>0, <3>1, OneMore
    <3>3. completed = IF a \in ToSet(q) THEN q ELSE p
      BY <3>0, <3>1
    <3> HIDE DEF completed
    <3> QED BY <3>0, <3>2, <3>3
  <2> HIDE DEF completed, k
  <2>3. CASE Len(completed) >= Cardinality(J.g[k].ids)
    <3> DEFINE none == [ids |-> {}, completed |-> <<>>, timer |-> FALSE, live |-> FALSE]
    <3>1. /\ R = [g |-> [J.g EXCEPT ![k] = none], of |-> [b \in Ids |-> IF b \in J.g[k].ids THEN 0 ELSE J.of[b]],
                  n |-> J.n \cup {key}]
      BY <1>2, <2>3 DEF onAgentComplete, deliver, deliverCb, scheduleNudge, k, completed
    <3>2. none \in GroupRecord /\ none.timer = FALSE
      BY DEF GroupRecord
    <3> HIDE DEF none
    <3>3. /\ R.g \in Seq(GroupRecord) /\ Len(R.g) = Len(J.g) /\ DOMAIN J.g = 1..Len(J.g) /\ DOMAIN R.g = DOMAIN J.g
          /\ \A i \in DOMAIN J.g : i # k => R.g[i] = J.g[i]
      BY <2>1, <3>1, <3>2
    <3>4. key \in NudgeKeys /\ key \in R.n /\ J.n \subseteq R.n /\ key.ids = completed
      BY <2>2, <3>1 DEF NudgeKeys, Nudge
    <3>5. JoinState(R)
      <4>1. R.of \in [Ids -> Nat] /\ \A b \in Ids : R.of[b] <= Len(J.g)
        BY <2>1, <3>1 DEF JoinState
      <4>2. R.n \in SUBSET NudgeKeys
        BY <3>1, <3>4 DEF JoinState
      <4> QED BY <3>1, <3>3, <4>1, <4>2 DEF JoinState
    <3>6. ASSUME NEW b \in Ids, Reported(J, b) PROVE Reported(R, b)
      <4>1. CASE \E y \in J.n : b \in ToSet(y.ids)
        BY <3>4, <4>1 DEF Reported
      <4>2. CASE \E i \in DOMAIN J.g : i # k /\ J.g[i].timer /\ b \in ToSet(J.g[i].completed)
        BY <3>3, <4>2 DEF Reported
      <4>3. CASE b \in ToSet(J.g[k].completed)
        BY <2>2, <3>4, <4>3 DEF Reported
      <4> QED BY <3>6, <4>1, <4>2, <4>3 DEF Reported
    <3>7. Reported(R, a)
      BY <2>2, <3>4 DEF Reported
    <3> QED BY <1>2, <3>3, <3>5, <3>6, <3>7
  <2>4. CASE ~(Len(completed) >= Cardinality(J.g[k].ids))
    <3> DEFINE now == [J.g[k] EXCEPT !.completed = completed, !.timer = TRUE]
    <3>1. R = [J EXCEPT !.g = [J.g EXCEPT ![k] = now]]
      BY <1>2, <2>4 DEF onAgentComplete, k, completed
    <3>2. now \in GroupRecord /\ now.timer = TRUE /\ now.completed = completed
      BY <2>1, <2>2 DEF GroupRecord
    <3> HIDE DEF now
    <3>3. /\ R.g \in Seq(GroupRecord) /\ Len(R.g) = Len(J.g) /\ DOMAIN J.g = 1..Len(J.g) /\ DOMAIN R.g = DOMAIN J.g
          /\ \A i \in DOMAIN J.g : i # k => R.g[i] = J.g[i]
          /\ R.g[k] = now /\ k \in DOMAIN R.g /\ R.of = J.of /\ R.n = J.n
      BY <2>1, <3>1, <3>2 DEF JoinState
    <3>5. JoinState(R)
      BY <3>1, <3>3 DEF JoinState
    <3>6. ASSUME NEW b \in Ids, Reported(J, b) PROVE Reported(R, b)
      <4>1. CASE \E y \in J.n : b \in ToSet(y.ids)
        BY <3>3, <4>1 DEF Reported
      <4>2. CASE \E i \in DOMAIN J.g : i # k /\ J.g[i].timer /\ b \in ToSet(J.g[i].completed)
        BY <3>3, <4>2 DEF Reported
      <4>3. CASE b \in ToSet(J.g[k].completed)
        BY <2>2, <3>2, <3>3, <4>3 DEF Reported
      <4> QED BY <3>6, <4>1, <4>2, <4>3 DEF Reported
    <3>7. Reported(R, a)
      BY <2>2, <3>2, <3>3 DEF Reported
    <3> QED BY <1>2, <3>3, <3>5, <3>6, <3>7
  <2> QED BY <2>3, <2>4
<1> QED BY <1>1, <1>2

\* The folds of finalizeBatch, one member after the other.
Joined(J, q) == FoldLeft(joinCompleted, J, q)
Nudged(N, q) == FoldLeft(nudgeCompleted, N, q)

LEMMA JoinsInOrder ==
  ASSUME NEW q \in Seq(Ids), NEW J, JoinState(J)
  PROVE  \E h : /\ h[0] = J /\ Joined(J, q) = h[Len(q)]
                /\ \A k \in 1..Len(q) : h[k] = joinCompleted(h[k - 1], q[k])
<1> DEFINE F == [p \in JoinStates \X Ids |-> joinCompleted(p[1], p[2])]
           Next(g) == [t \in SUBSET DOMAIN q |-> IF t = {} THEN J ELSE joinCompleted(g[t \ {Max(t)}], q[Max(t)])]
           iter == CHOOSE g : g = Next(g)
           h == [k \in 0..Len(q) |-> iter[1..k]]
<1>1. F \in [JoinStates \X Ids -> JoinStates]
  <2>1. ASSUME NEW p \in JoinStates \X Ids PROVE joinCompleted(p[1], p[2]) \in JoinStates
    <3>1. JoinState(p[1]) /\ p[2] \in Ids
      BY DEF JoinStates
    <3>2. JoinState(joinCompleted(p[1], p[2]))
      BY <3>1, MemberCompletes DEF joinCompleted
    <3> QED BY <3>2 DEF JoinStates, JoinState
  <2> QED BY <2>1
<1>2. PICK g \in [SUBSET DOMAIN q -> JoinStates] : SeqFolds(g, q, J, F)
  <2> HIDE DEF F
  <2>1. J \in JoinStates
    BY DEF JoinStates, JoinState
  <2> QED BY <1>1, <2>1, SeqFoldExists
<1>3. g = Next(g)
  <2>1. ASSUME NEW t \in SUBSET DOMAIN q, t # {} PROVE Max(t) \in t
    <3>1. t \subseteq 0..Len(q) /\ Len(q) \in Nat
      OBVIOUS
    <3> QED BY <2>1, <3>1, MaxOf
  <2>2. ASSUME NEW t \in SUBSET DOMAIN q, t # {}
        PROVE  F[<<g[t \ {Max(t)}], q[Max(t)]>>] = joinCompleted(g[t \ {Max(t)}], q[Max(t)])
    <3>1. Max(t) \in DOMAIN q /\ t \ {Max(t)} \in SUBSET DOMAIN q
      BY <2>1, <2>2
    <3>2. <<g[t \ {Max(t)}], q[Max(t)]>> \in JoinStates \X Ids
      BY <3>1
    <3> QED BY <3>2
  <2> HIDE DEF F
  <2>3. \A t \in SUBSET DOMAIN q : g[t] = IF t = {} THEN J ELSE joinCompleted(g[t \ {Max(t)}], q[Max(t)])
    BY <1>2, <2>2 DEF SeqFolds
  <2> QED BY <2>3
<1>4. iter = Next(iter)
  <2> HIDE DEF Next
  <2> QED BY <1>3
<1>5. Joined(J, q) = iter[DOMAIN q]
  BY DEF Joined, FoldLeft, MapThenFoldSet
<1> HIDE DEF iter
<1>6. h[0] = J
  <2>1. 1..0 = {} /\ 0 \in 0..Len(q)
    OBVIOUS
  <2>2. iter[{}] = J
    BY <1>4
  <2> QED BY <2>1, <2>2
<1>7. ASSUME NEW k \in 1..Len(q) PROVE h[k] = joinCompleted(h[k - 1], q[k])
  <2>1. /\ 1..k \in SUBSET DOMAIN q /\ 1..k # {}
        /\ Max(1..k) = k /\ (1..k) \ {Max(1..k)} = 1..(k - 1)
    BY SeqFoldOrder
  <2>2. iter[1..k] = joinCompleted(iter[(1..k) \ {Max(1..k)}], q[Max(1..k)])
    BY <1>4, <2>1
  <2>3. k \in 0..Len(q) /\ k - 1 \in 0..Len(q)
    OBVIOUS
  <2> QED BY <2>1, <2>2, <2>3
<1>8. Joined(J, q) = h[Len(q)]
  <2>1. DOMAIN q = 1..Len(q) /\ Len(q) \in 0..Len(q)
    OBVIOUS
  <2> QED BY <1>5, <2>1
<1> HIDE DEF h
<1> QED BY <1>6, <1>7, <1>8


LEMMA NudgesInOrder ==
  ASSUME NEW q \in Seq(Ids), NEW N \in SUBSET NudgeKeys
  PROVE  \E h : /\ h[0] = N /\ Nudged(N, q) = h[Len(q)]
                /\ \A k \in 1..Len(q) : h[k] = nudgeCompleted(h[k - 1], q[k])
<1> DEFINE F == [p \in (SUBSET NudgeKeys) \X Ids |-> nudgeCompleted(p[1], p[2])]
           Next(g) == [t \in SUBSET DOMAIN q |-> IF t = {} THEN N ELSE nudgeCompleted(g[t \ {Max(t)}], q[Max(t)])]
           iter == CHOOSE g : g = Next(g)
           h == [k \in 0..Len(q) |-> iter[1..k]]
<1>1. F \in [(SUBSET NudgeKeys) \X Ids -> (SUBSET NudgeKeys)]
  <2>1. ASSUME NEW p \in (SUBSET NudgeKeys) \X Ids PROVE nudgeCompleted(p[1], p[2]) \in SUBSET NudgeKeys
    <3>1. p[1] \in SUBSET NudgeKeys /\ p[2] \in Ids
      OBVIOUS
    <3>2. Nudge("one", <<p[2]>>) \in NudgeKeys
      BY <3>1 DEF Nudge, NudgeKeys
    <3> QED BY <3>1, <3>2 DEF nudgeCompleted, sendIndividualNudge, scheduleNudge
  <2> QED BY <2>1
<1>2. PICK g \in [SUBSET DOMAIN q -> (SUBSET NudgeKeys)] : SeqFolds(g, q, N, F)
  <2> HIDE DEF F
  <2> QED BY <1>1, SeqFoldExists
<1>3. g = Next(g)
  <2>1. ASSUME NEW t \in SUBSET DOMAIN q, t # {} PROVE Max(t) \in t
    <3>1. t \subseteq 0..Len(q) /\ Len(q) \in Nat
      OBVIOUS
    <3> QED BY <2>1, <3>1, MaxOf
  <2>2. ASSUME NEW t \in SUBSET DOMAIN q, t # {}
        PROVE  F[<<g[t \ {Max(t)}], q[Max(t)]>>] = nudgeCompleted(g[t \ {Max(t)}], q[Max(t)])
    <3>1. Max(t) \in DOMAIN q /\ t \ {Max(t)} \in SUBSET DOMAIN q
      BY <2>1, <2>2
    <3>2. <<g[t \ {Max(t)}], q[Max(t)]>> \in (SUBSET NudgeKeys) \X Ids
      BY <3>1
    <3> QED BY <3>2
  <2> HIDE DEF F
  <2>3. \A t \in SUBSET DOMAIN q : g[t] = IF t = {} THEN N ELSE nudgeCompleted(g[t \ {Max(t)}], q[Max(t)])
    BY <1>2, <2>2 DEF SeqFolds
  <2> QED BY <2>3
<1>4. iter = Next(iter)
  <2> HIDE DEF Next
  <2> QED BY <1>3
<1>5. Nudged(N, q) = iter[DOMAIN q]
  BY DEF Nudged, FoldLeft, MapThenFoldSet
<1> HIDE DEF iter
<1>6. h[0] = N
  <2>1. 1..0 = {} /\ 0 \in 0..Len(q)
    OBVIOUS
  <2>2. iter[{}] = N
    BY <1>4
  <2> QED BY <2>1, <2>2
<1>7. ASSUME NEW k \in 1..Len(q) PROVE h[k] = nudgeCompleted(h[k - 1], q[k])
  <2>1. /\ 1..k \in SUBSET DOMAIN q /\ 1..k # {}
        /\ Max(1..k) = k /\ (1..k) \ {Max(1..k)} = 1..(k - 1)
    BY SeqFoldOrder
  <2>2. iter[1..k] = nudgeCompleted(iter[(1..k) \ {Max(1..k)}], q[Max(1..k)])
    BY <1>4, <2>1
  <2>3. k \in 0..Len(q) /\ k - 1 \in 0..Len(q)
    OBVIOUS
  <2> QED BY <2>1, <2>2, <2>3
<1>8. Nudged(N, q) = h[Len(q)]
  <2>1. DOMAIN q = 1..Len(q) /\ Len(q) \in 0..Len(q)
    OBVIOUS
  <2> QED BY <1>5, <2>1
<1> HIDE DEF h
<1> QED BY <1>6, <1>7, <1>8

\* A group whose members have not all completed: its members are where they say.
Distinct(q) == \A i, j \in 1..Len(q) : q[i] = q[j] => i = j
Open(J, k, ids) ==
  /\ k \in 1..Len(J.g) /\ J.g[k].live /\ J.g[k].ids = ids
  /\ Distinct(J.g[k].completed) /\ ToSet(J.g[k].completed) \subseteq ids
  /\ \A b \in ids : J.of[b] = k

\* A member of it completes: it stays open, or all its members are reported.
LEMMA OpenOrReported ==
  ASSUME NEW J, JoinState(J), NEW k, NEW B \in SUBSET Ids, IsFiniteSet(B), Open(J, k, B), NEW a \in B
  PROVE  LET R == onAgentComplete(J, a) IN
         ~Passes(J, a) /\ (Open(R, k, B) \/ \A b \in B : Reported(R, b))
<1> DEFINE R == onAgentComplete(J, a)
<1>0. k \in Nat \ {0} /\ J.of[a] = k /\ ~Passes(J, a) /\ J.g \in Seq(GroupRecord) /\ J.g[k] \in GroupRecord
  BY DEF Open, Passes, JoinState
<1>1. PICK q : q = J.g[k].completed /\ q \in Seq(Ids) /\ Distinct(q) /\ ToSet(q) \subseteq B
  BY <1>0 DEF Open, GroupRecord
<1>2. PICK p : p = Append(q, a)
  OBVIOUS
<1>3. p \in Seq(Ids) /\ ToSet(p) = ToSet(q) \cup {a}
  BY <1>1, <1>2, OneMore
<1>4. PICK c : c = IF a \in ToSet(q) THEN q ELSE p
  OBVIOUS
<1>5. c \in Seq(Ids) /\ ToSet(c) \subseteq B /\ a \in ToSet(c)
  BY <1>1, <1>3, <1>4
<1>6. Distinct(c)
  <2>1. CASE a \in ToSet(q)
    BY <1>1, <1>4, <2>1
  <2>2. CASE a \notin ToSet(q)
    <3>1. c = p /\ Len(p) = Len(q) + 1 /\ Len(q) \in Nat
          /\ \A i \in 1..Len(p) : p[i] = IF i = Len(q) + 1 THEN a ELSE q[i]
      BY <1>1, <1>2, <1>4, <2>2
    <3>2. ToSet(q) = {q[i] : i \in 1..Len(q)}
      BY <1>1, IdsOf
    <3> SUFFICES ASSUME NEW i \in 1..Len(p), NEW j \in 1..Len(p), p[i] = p[j] PROVE i = j
      BY <3>1 DEF Distinct
    <3>3. CASE i = Len(q) + 1 /\ j = Len(q) + 1
      BY <3>3
    <3>4. CASE i = Len(q) + 1 /\ j # Len(q) + 1
      <4>1. j \in 1..Len(q) /\ q[j] = a
        BY <3>1, <3>4
      <4> QED BY <2>2, <3>2, <4>1
    <3>5. CASE i # Len(q) + 1 /\ j = Len(q) + 1
      <4>1. i \in 1..Len(q) /\ q[i] = a
        BY <3>1, <3>5
      <4> QED BY <2>2, <3>2, <4>1
    <3>6. CASE i # Len(q) + 1 /\ j # Len(q) + 1
      <4>1. i \in 1..Len(q) /\ j \in 1..Len(q) /\ q[i] = q[j]
        BY <3>1, <3>6
      <4> QED BY <1>1, <4>1 DEF Distinct
    <3> QED BY <3>3, <3>4, <3>5, <3>6
  <2> QED BY <2>1, <2>2
<1>7. R = IF Len(c) >= Cardinality(B) THEN deliver(J, k, c)
          ELSE [J EXCEPT !.g[k] = [@ EXCEPT !.completed = c, !.timer = TRUE]]
  BY <1>0, <1>1, <1>2, <1>4 DEF onAgentComplete, Open
<1> HIDE DEF R
<1>8. CASE Len(c) >= Cardinality(B)
  <2>1. ToSet(c) = B
    <3> DEFINE f == [i \in 1..Len(c) |-> c[i]]
    <3>1. Len(c) \in Int /\ 1 \in Int /\ ToSet(c) = {c[i] : i \in 1..Len(c)} /\ Len(c) >= 0
      BY <1>5, IdsOf
    <3>2. IsFiniteSet(1..Len(c)) /\ Cardinality(1..Len(c)) = Len(c)
      BY <3>1, FS_Interval
    <3>3. f \in [1..Len(c) -> B]
      BY <1>5, <3>1
    <3>4. f \in Injection(1..Len(c), B)
      BY <1>6, <3>3, Fun_IsInj DEF Distinct
    <3> HIDE DEF f
    <3>5. Cardinality(1..Len(c)) <= Cardinality(B) /\ (Cardinality(1..Len(c)) = Cardinality(B) => f \in Surjection(1..Len(c), B))
      BY <3>4, FS_Injection
    <3>6. f \in Surjection(1..Len(c), B)
      <4>1. Cardinality(B) \in Nat
        BY FS_CardinalityType
      <4> QED BY <1>8, <3>1, <3>2, <3>5, <4>1
    <3>7. \A b \in B : \E i \in 1..Len(c) : f[i] = b
      BY <3>6 DEF Surjection
    <3> QED BY <1>5, <3>1, <3>7 DEF f
  <2>2. R.n = J.n \cup {Nudge("group", c)}
    BY <1>7, <1>8 DEF deliver, deliverCb, scheduleNudge
  <2>3. Nudge("group", c).ids = c
    BY DEF Nudge
  <2> QED BY <1>0, <2>1, <2>2, <2>3 DEF Reported, R
<1>9. CASE ~(Len(c) >= Cardinality(B))
  <2>0. PICK now : now = [J.g[k] EXCEPT !.completed = c, !.timer = TRUE]
    OBVIOUS
  <2>1. R = [J EXCEPT !.g = [J.g EXCEPT ![k] = now]]
    BY <1>7, <1>9, <2>0
  <2>2. k \in 1..Len(J.g) /\ R.of = J.of /\ Len(R.g) = Len(J.g) /\ R.g[k] = now
    BY <1>0, <2>1 DEF Open, JoinState
  <2>3. now.completed = c /\ now.live = J.g[k].live /\ now.ids = J.g[k].ids
    BY <1>0, <2>0 DEF GroupRecord
  <2>4. Open(R, k, B)
    BY <1>5, <1>6, <2>2, <2>3 DEF Open
  <2> QED BY <1>0, <2>4 DEF R
<1> QED BY <1>8, <1>9


\* finalizeBatch: what had completed is reported by the group or with it.
LEMMA BatchJoined ==
  ASSUME NoticeInv, NEW R, R = Joined(registerGroup(Joins, batch), batch)
  PROVE  /\ JoinState(R)
         /\ \A b \in Ids : Reported(Joins, b) => Reported(R, b)
         /\ \A b \in ToSet(batch) : Completed(b) => Reported(R, b)
<1> DEFINE B == ToSet(batch)
           K == Len(groups) + 1
           J0 == registerGroup(Joins, batch)
           new == [ids |-> B, completed |-> <<>>, timer |-> FALSE, live |-> TRUE]
           Good(k, J) == /\ JoinState(J)
                         /\ Open(J, K, B) \/ \A b \in B : Reported(J, b)
                         /\ \A b \in Ids : Reported(Joins, b) => Reported(J, b)
                         /\ \A i \in 1..k : Completed(batch[i]) => Reported(J, batch[i])
<1>1. B \in SUBSET Ids /\ IsFiniteSet(B) /\ B = {batch[i] : i \in 1..Len(batch)} /\ batch \in Seq(Ids)
  BY IdsOf DEF NoticeInv, NotesTyped, OverHasTime, BatchTimed, OwedHeld
<1>2. JoinState(J0) /\ Open(J0, K, B) /\ \A b \in Ids : Reported(Joins, b) => Reported(J0, b)
  <2>1. /\ groups \in Seq(GroupRecord) /\ groupOf \in [Ids -> Nat] /\ nudges \subseteq NudgeKeys
        /\ \A a \in Ids : groupOf[a] <= Len(groups)
    BY DEF NoticeInv, NotesTyped, OverHasTime, BatchTimed, OwedHeld, JoinState, Joins
  <2>2. new \in GroupRecord
    <3>1. <<>> \in Seq(Ids)
      OBVIOUS
    <3> QED BY <1>1, <3>1 DEF GroupRecord
  <2>3. /\ J0 = [g |-> Append(groups, new), of |-> [a \in Ids |-> IF a \in B THEN K ELSE groupOf[a]], n |-> nudges]
    <3>1. J0 = [Joins EXCEPT !.g = Append(Joins.g, [ids |-> B, completed |-> <<>>, timer |-> FALSE, live |-> TRUE]),
                             !.of = [a \in Ids |-> IF a \in B THEN Len(Joins.g) + 1 ELSE Joins.of[a]]]
      BY DEF registerGroup
    <3>2. Joins = [g |-> groups, of |-> groupOf, n |-> nudges]
      BY DEF Joins
    <3> HIDE DEF J0, B
    <3> QED BY <3>1, <3>2
  <2>4. /\ new.live /\ new.ids = B /\ new.completed = <<>> /\ Distinct(<<>>) /\ ToSet(<<>>) = {}
    BY DEF Distinct, ToSet
  <2> HIDE DEF new, J0
  <2>5. /\ J0.g \in Seq(GroupRecord) /\ Len(J0.g) = K /\ K \in 1..Len(J0.g) /\ Len(groups) \in Nat
        /\ J0.g[K] = new /\ \A i \in DOMAIN groups : i \in DOMAIN J0.g /\ J0.g[i] = groups[i]
    BY <2>1, <2>2, <2>3
  <2>6. JoinState(J0)
    <3>1. J0.of \in [Ids -> Nat] /\ \A a \in Ids : J0.of[a] <= Len(J0.g)
      BY <2>1, <2>3, <2>5
    <3> QED BY <2>1, <2>3, <2>5, <3>1 DEF JoinState
  <2>7. Open(J0, K, B)
    BY <1>1, <2>3, <2>4, <2>5 DEF Open
  <2>8. \A b \in Ids : Reported(Joins, b) => Reported(J0, b)
    <3> SUFFICES ASSUME NEW b \in Ids, Reported(Joins, b) PROVE Reported(J0, b)
      OBVIOUS
    <3>1. Joins.n = nudges /\ Joins.g = groups /\ J0.n = nudges
      BY <2>3 DEF Joins
    <3> QED BY <2>5, <3>1 DEF Reported
  <2> QED BY <2>6, <2>7, <2>8
<1> HIDE DEF B, K, J0
<1>3. PICK h : /\ h[0] = J0 /\ R = h[Len(batch)]
               /\ \A k \in 1..Len(batch) : h[k] = joinCompleted(h[k - 1], batch[k])
  <2>1. R = Joined(J0, batch)
    BY DEF J0
  <2> QED BY <1>1, <1>2, <2>1, JoinsInOrder
<1>4. Good(0, h[0])
  BY <1>2, <1>3
<1>5. ASSUME NEW k \in 1..Len(batch), Good(k - 1, h[k - 1]) PROVE Good(k, h[k])
  <2>1. PICK a : a = batch[k] /\ a \in Ids /\ a \in B
    BY <1>1
  <2>2. h[k] = joinCompleted(h[k - 1], a)
    BY <1>3, <2>1
  <2>3. PICK J : J = h[k - 1]
    OBVIOUS
  <2>4. \A i \in 1..k : i = k \/ i \in 1..(k - 1)
    BY <1>1
  <2>5. CASE ~Completed(a)
    <3>1. h[k] = J
      BY <2>2, <2>3, <2>5 DEF joinCompleted
    <3> QED BY <1>5, <2>1, <2>3, <2>4, <2>5, <3>1
  <2>6. CASE Completed(a)
    <3>1. h[k] = onAgentComplete(J, a)
      BY <2>2, <2>3, <2>6 DEF joinCompleted
    <3>2. /\ JoinState(h[k]) /\ \A b \in Ids : Reported(J, b) => Reported(h[k], b)
          /\ Passes(J, a) => h[k] = J
          /\ ~Passes(J, a) => Reported(h[k], a)
      BY <1>5, <2>1, <2>3, <3>1, MemberCompletes
    <3>3. Open(J, K, B) => ~Passes(J, a) /\ (Open(h[k], K, B) \/ \A b \in B : Reported(h[k], b))
      BY <1>1, <1>5, <2>1, <2>3, <3>1, OpenOrReported
    <3>4. Open(h[k], K, B) \/ \A b \in B : Reported(h[k], b)
      BY <1>1, <1>5, <2>3, <3>2, <3>3
    <3>5. Reported(h[k], a)
      BY <1>5, <2>1, <2>3, <3>2, <3>3
    <3>6. ASSUME NEW i \in 1..k, Completed(batch[i]) PROVE Reported(h[k], batch[i])
      <4>1. CASE i = k
        BY <2>1, <3>5, <4>1
      <4>2. CASE i \in 1..(k - 1)
        <5>1. Reported(J, batch[i])
          BY <1>5, <2>3, <3>6, <4>2
        <5>2. batch[i] \in Ids
          BY <1>1
        <5> QED BY <3>2, <5>1, <5>2
      <4> QED BY <2>4, <4>1, <4>2
    <3>7. \A b \in Ids : Reported(Joins, b) => Reported(h[k], b)
      BY <1>5, <2>3, <3>2
    <3> QED BY <3>2, <3>4, <3>6, <3>7
  <2> QED BY <2>5, <2>6
<1>6. Good(Len(batch), h[Len(batch)])
  <2> DEFINE N == {k \in 0..Len(batch) : Good(k, h[k])}
  <2>1. Len(batch) \in Nat /\ 0 \in N
    BY <1>1, <1>4
  <2>2. ASSUME NEW k \in 1..Len(batch), k - 1 \in N PROVE k \in N
    BY <1>5, <2>2
  <2> HIDE DEF N
  <2>3. 0..Len(batch) \subseteq N
    BY <2>1, <2>2, UpToInduction
  <2>4. Len(batch) \in N
    BY <2>1, <2>3
  <2> QED BY <2>4 DEF N
<1> QED BY <1>1, <1>3, <1>6 DEF B


\* A batch of one: what had completed has its notice held.
LEMMA BatchNudged ==
  ASSUME NoticeInv
  PROVE  /\ nudges \subseteq Nudged(nudges, batch) /\ Nudged(nudges, batch) \subseteq NudgeKeys
         /\ \A b \in ToSet(batch) : Completed(b) => Nudge("one", <<b>>) \in Nudged(nudges, batch)
<1> DEFINE Good(k, N) == /\ nudges \subseteq N /\ N \subseteq NudgeKeys
                         /\ \A i \in 1..k : Completed(batch[i]) => Nudge("one", <<batch[i]>>) \in N
<1>1. nudges \in SUBSET NudgeKeys /\ batch \in Seq(Ids) /\ Len(batch) \in Nat
  BY DEF NoticeInv, NotesTyped, OverHasTime, BatchTimed, OwedHeld, JoinState, Joins
<1>2. PICK h : /\ h[0] = nudges /\ Nudged(nudges, batch) = h[Len(batch)]
               /\ \A k \in 1..Len(batch) : h[k] = nudgeCompleted(h[k - 1], batch[k])
  BY <1>1, NudgesInOrder
<1>3. ASSUME NEW k \in 1..Len(batch), Good(k - 1, h[k - 1]) PROVE Good(k, h[k])
  <2>1. batch[k] \in Ids /\ \A i \in 1..k : i = k \/ i \in 1..(k - 1)
    BY <1>1
  <2>2. Nudge("one", <<batch[k]>>) \in NudgeKeys
    BY <2>1 DEF Nudge, NudgeKeys
  <2>3. h[k] = IF Completed(batch[k]) THEN h[k - 1] \cup {Nudge("one", <<batch[k]>>)} ELSE h[k - 1]
    BY <1>2 DEF nudgeCompleted, sendIndividualNudge, scheduleNudge
  <2> QED BY <1>3, <2>1, <2>2, <2>3
<1>4. Good(Len(batch), h[Len(batch)])
  <2> DEFINE M == {k \in 0..Len(batch) : Good(k, h[k])}
  <2>1. 0 \in M
    BY <1>1, <1>2
  <2>2. ASSUME NEW k \in 1..Len(batch), k - 1 \in M PROVE k \in M
    BY <1>3, <2>2
  <2> HIDE DEF M
  <2>3. 0..Len(batch) \subseteq M
    BY <1>1, <2>1, <2>2, UpToInduction
  <2>4. Len(batch) \in M
    BY <1>1, <2>3
  <2> QED BY <2>4 DEF M
<1>5. ToSet(batch) = {batch[i] : i \in 1..Len(batch)}
  BY <1>1, IdsOf
<1> QED BY <1>2, <1>4, <1>5

\* Steps that report nothing: whoever is owed a notice was owed one, and no notice
\* that would tell of it is dropped.
LEMMA StillHeld ==
  ASSUME NoticeInv, note' \in [Ids -> NoteRecord], OverHasTime',
         UNCHANGED <<groups, groupOf>>, nudges' \subseteq nudges,
         batch' \in Seq(Ids), BatchTimed', ToSet(batch) \subseteq ToSet(batch'),
         \A b \in Ids : Owing(b)' => Owing(b) /\ \A key \in nudges \ nudges' : b \notin ToSet(key.ids)
  PROVE  NoticeInv'
<1>1. JoinState(Joins')
  BY DEF NoticeInv, NotesTyped, JoinState, Joins
<1>2. ASSUME NEW b \in Ids, Owing(b)' PROVE b \in ToSet(batch') \/ Reported(Joins', b)
  <2>1. b \in ToSet(batch) \/ Reported(Joins, b)
    BY <1>2 DEF NoticeInv, OwedHeld
  <2>2. Reported(Joins, b) => Reported(Joins', b)
    BY <1>2 DEF Reported, Joins
  <2> QED BY <2>1, <2>2
<1>3. OwedHeld'
  BY <1>2 DEF OwedHeld
<1>4. NotesTyped'
  BY <1>1 DEF NotesTyped
<1> QED BY <1>3, <1>4 DEF NoticeInv

\* Such a step on one record.
LEMMA RecordStep ==
  ASSUME NoticeInv, NEW a \in Ids, NEW r \in NoteRecord, note' = [note EXCEPT ![a] = r],
         r.over => r.completedAt, r.status # "ended" => ~r.over,
         r.over => r.consumed \/ (note[a].over /\ r = [note[a] EXCEPT !.waited = r.waited]),
         UNCHANGED <<groups, groupOf, session>>,
         nudges' = nudges \/ (r.consumed /\ nudges' = cancelNudge(nudges, a)),
         \/ UNCHANGED <<batch, batchTimer>>
         \/ batch' = Append(batch, a) /\ batchTimer' = TRUE
  PROVE  NoticeInv'
<1>1. /\ note \in [Ids -> NoteRecord] /\ note' \in [Ids -> NoteRecord] /\ note'[a] = r
      /\ \A b \in Ids : b # a => note'[b] = note[b]
  BY DEF NoticeInv, NotesTyped, OverHasTime, BatchTimed, OwedHeld
<1>2. OverHasTime'
  BY <1>1 DEF NoticeInv, NotesTyped, OverHasTime, BatchTimed, OwedHeld
<1>3. nudges' \subseteq nudges
  BY DEF cancelNudge
<1>4. batch' \in Seq(Ids) /\ BatchTimed' /\ ToSet(batch) \subseteq ToSet(batch')
  <2>0. batch \in Seq(Ids) /\ BatchTimed
    BY DEF NoticeInv, NotesTyped, OverHasTime, BatchTimed, OwedHeld
  <2>1. CASE UNCHANGED <<batch, batchTimer>>
    BY <2>0, <2>1 DEF BatchTimed
  <2>2. CASE batch' = Append(batch, a) /\ batchTimer' = TRUE
    <3>1. PICK p : p = Append(batch, a)
      OBVIOUS
    <3>2. p \in Seq(Ids) /\ ToSet(p) = ToSet(batch) \cup {a}
      BY <2>0, <3>1, OneMore
    <3> QED BY <2>2, <3>1, <3>2 DEF BatchTimed
  <2> QED BY <2>1, <2>2
<1>5. ASSUME NEW b \in Ids, Owing(b)' PROVE Owing(b) /\ \A key \in nudges \ nudges' : b \notin ToSet(key.ids)
  <2>1. CASE b # a
    <3>1. Owing(b)
      BY <1>1, <1>5, <2>1 DEF Owing
    <3>2. ASSUME NEW key \in nudges \ nudges' PROVE b \notin ToSet(key.ids)
      <4>1. key = Nudge("one", <<a>>)
        BY DEF cancelNudge
      <4> QED BY <2>1, <4>1 DEF Nudge, ToSet
    <3> QED BY <3>1, <3>2
  <2>2. CASE b = a
    <3>1. r.over /\ ~r.consumed /\ r.status = "ended" /\ r.flights = 0 /\ ~r.told /\ session = "up"
      BY <1>1, <1>5, <2>2 DEF Owing
    <3>2. Owing(a)
      <4>1. note[a].over /\ r = [note[a] EXCEPT !.waited = r.waited] /\ note[a] \in NoteRecord
        BY <1>1, <3>1
      <4>2. r.consumed = note[a].consumed /\ r.status = note[a].status /\ r.flights = note[a].flights /\ r.told = note[a].told
        BY <4>1 DEF NoteRecord
      <4> QED BY <3>1, <4>1, <4>2 DEF Owing
    <3> QED BY <2>2, <3>1, <3>2
  <2> QED BY <2>1, <2>2
<1> QED BY <1>1, <1>2, <1>3, <1>4, <1>5, StillHeld


\* What is known of an agent's record.
LEMMA NoteOf ==
  ASSUME NoticeInv, NEW a \in Ids
  PROVE  note[a] \in NoteRecord /\ (note[a].over => note[a].completedAt) /\ (note[a].status # "ended" => ~note[a].over)
<1>1. note \in [Ids -> NoteRecord] /\ OverHasTime
  BY DEF NoticeInv, NotesTyped
<1>2. note[a] \in NoteRecord
  BY <1>1
<1>3. (note[a].over => note[a].completedAt) /\ (note[a].status # "ended" => ~note[a].over)
  BY <1>1 DEF OverHasTime
<1> QED BY <1>2, <1>3

\* A run begins, is steered, started, aborted, or its result is read.
LEMMA RunBegins ==
  ASSUME NoticeInv, NEW a \in Ids, NEW status \in {"queued", "running"}, NEW joinMode,
         SpawnInBackground(a, status, joinMode) \/ startBackgroundResume(a, status, joinMode)
  PROVE  NoticeInv'
<1>0. note[a] \in NoteRecord
  BY DEF NoticeInv, NotesTyped
<1>1. PICK f \in Nat : f = IF status = "running" THEN note[a].flights + 1 ELSE note[a].flights
  BY <1>0 DEF NoteRecord
<1>2. PICK t \in Nat : t = note[a].turns + 1
  BY <1>0 DEF NoteRecord
<1> DEFINE r == [Fresh EXCEPT !.status = status, !.turns = t, !.waited = note[a].waited, !.flights = f]
<1>3. r \in NoteRecord /\ r.over = FALSE
  BY <1>0 DEF NoteRecord, Fresh
<1>4. NewRun(a, status) /\ Batched(a, joinMode) /\ UNCHANGED <<groups, groupOf, nudges, session>>
  BY DEF SpawnInBackground, startBackgroundResume
<1>5. note' = [note EXCEPT ![a] = r]
  BY <1>1, <1>2, <1>4 DEF NewRun
<1>6. UNCHANGED <<batch, batchTimer>> \/ (batch' = Append(batch, a) /\ batchTimer' = TRUE)
  BY <1>4 DEF Batched
<1> HIDE DEF r
<1> QED BY <1>3, <1>4, <1>5, <1>6, RecordStep

LEMMA RunGoesOn ==
  ASSUME NoticeInv, NEW a \in Ids,
         \/ note[a].status \in {"running", "queued"} /\ note' = [note EXCEPT ![a].consumed = FALSE]
            /\ UNCHANGED <<batch, batchTimer, groups, groupOf, nudges, session>>
         \/ Start(a) \/ Abort(a) \/ GetResultWaits(a) \/ WaitCancelled(a)
  PROVE  NoticeInv'
<1>0. note[a] \in NoteRecord /\ (note[a].over => note[a].completedAt) /\ (note[a].status # "ended" => ~note[a].over)
  BY NoteOf
<1>1. CASE /\ note[a].status \in {"running", "queued"} /\ note' = [note EXCEPT ![a].consumed = FALSE]
           /\ UNCHANGED <<batch, batchTimer, groups, groupOf, nudges, session>>
  <2> DEFINE r == [note[a] EXCEPT !.consumed = FALSE]
  <2>1. r \in NoteRecord /\ r.over = FALSE /\ note' = [note EXCEPT ![a] = r]
    BY <1>0, <1>1 DEF NoteRecord
  <2> HIDE DEF r
  <2> QED BY <1>1, <2>1, RecordStep
<1>2. CASE Start(a)
  <2>1. PICK f \in Nat : f = note[a].flights + 1
    BY <1>0 DEF NoteRecord
  <2> DEFINE r == [note[a] EXCEPT !.status = "running", !.flights = f]
  <2>2. r \in NoteRecord /\ r.over = FALSE
    BY <1>0, <1>2 DEF Start, NoteRecord
  <2>3. note' = [note EXCEPT ![a] = r] /\ UNCHANGED <<batch, batchTimer, groups, groupOf, nudges, session>>
    BY <1>2, <2>1 DEF Start
  <2> HIDE DEF r
  <2> QED BY <2>2, <2>3, RecordStep
<1>3. CASE Abort(a)
  <2> DEFINE r == [note[a] EXCEPT !.status = "ended", !.completedAt = TRUE]
  <2>2. r \in NoteRecord /\ r.over = FALSE
    BY <1>0, <1>3 DEF Abort, NoteRecord
  <2>3. note' = [note EXCEPT ![a] = r] /\ UNCHANGED <<batch, batchTimer, groups, groupOf, nudges, session>>
    BY <1>3 DEF Abort
  <2> HIDE DEF r
  <2> QED BY <2>2, <2>3, RecordStep
<1>4. CASE GetResultWaits(a)
  <2> DEFINE r == [note[a] EXCEPT !.waited = TRUE]
  <2>2. r \in NoteRecord /\ r.over = FALSE
    BY <1>0, <1>4 DEF GetResultWaits, NoteRecord
  <2>3. note' = [note EXCEPT ![a] = r] /\ UNCHANGED <<batch, batchTimer, groups, groupOf, nudges, session>>
    BY <1>4 DEF GetResultWaits
  <2> HIDE DEF r
  <2> QED BY <2>2, <2>3, RecordStep
<1>5. CASE WaitCancelled(a)
  <2> DEFINE r == [note[a] EXCEPT !.waited = FALSE]
  <2>2. r \in NoteRecord /\ r = [note[a] EXCEPT !.waited = r.waited] /\ r.over = note[a].over
        /\ r.completedAt = note[a].completedAt /\ r.status = note[a].status
    BY <1>0 DEF NoteRecord
  <2>3. note' = [note EXCEPT ![a] = r] /\ UNCHANGED <<batch, batchTimer, groups, groupOf, nudges, session>>
    BY <1>5 DEF WaitCancelled
  <2> HIDE DEF r
  <2> QED BY <1>0, <2>2, <2>3, RecordStep
<1> QED BY <1>1, <1>2, <1>3, <1>4, <1>5

LEMMA ResultIsRead ==
  ASSUME NoticeInv, NEW a \in Ids, NEW byId, GetResult(a, byId) \/ PollEnds(a)
  PROVE  NoticeInv'
<1>0. note[a] \in NoteRecord /\ (note[a].over => note[a].completedAt) /\ note[a].status = "ended"
  BY NoteOf DEF GetResult, PollEnds
<1>1. CASE GetResult(a, byId)
  <2> DEFINE r == [note[a] EXCEPT !.consumed = TRUE]
  <2>1. r \in NoteRecord /\ r.consumed /\ r.status = "ended" /\ (r.over => r.completedAt)
    BY <1>0 DEF NoteRecord
  <2>2. note' = [note EXCEPT ![a] = r] /\ UNCHANGED <<batch, batchTimer, groups, groupOf, session>>
        /\ (nudges' = nudges \/ nudges' = cancelNudge(nudges, a))
    BY <1>1 DEF GetResult
  <2> HIDE DEF r
  <2> QED BY <2>1, <2>2, RecordStep
<1>2. CASE PollEnds(a)
  <2> DEFINE r == [note[a] EXCEPT !.waited = FALSE, !.consumed = TRUE]
  <2>1. r \in NoteRecord /\ r.consumed /\ r.status = "ended" /\ (r.over => r.completedAt)
    BY <1>0 DEF NoteRecord
  <2>2. note' = [note EXCEPT ![a] = r] /\ UNCHANGED <<batch, batchTimer, groups, groupOf, session>>
        /\ nudges' = cancelNudge(nudges, a)
    BY <1>2 DEF PollEnds
  <2> HIDE DEF r
  <2> QED BY <2>1, <2>2, RecordStep
<1> QED BY <1>1, <1>2

\* A notice is emitted: those it was about, and whose result is unread, are told.
LEMMA EmittedHeld ==
  ASSUME NoticeInv, NEW key, NudgeFires(key) PROVE NoticeInv'
<1>1. /\ key \in nudges /\ nudges' = nudges \ {key} /\ UNCHANGED <<batch, batchTimer, groups, groupOf, session>>
      /\ note' = [a \in Ids |-> IF a \in unconsumed(key.ids) /\ session = "up"
                               THEN [note[a] EXCEPT !.told = TRUE] ELSE note[a]]
  BY DEF NudgeFires
<1>2. ASSUME NEW b \in Ids
      PROVE  /\ note'[b] \in NoteRecord /\ (note'[b].over => note'[b].completedAt)
             /\ (note'[b].status # "ended" => ~note'[b].over)
             /\ (note'[b] = note[b] /\ b \notin unconsumed(key.ids)) \/ note'[b].told \/ session # "up"
  <2>0. note[b] \in NoteRecord /\ (note[b].over => note[b].completedAt) /\ (note[b].status # "ended" => ~note[b].over)
    BY NoteOf
  <2>1. note'[b] = IF b \in unconsumed(key.ids) /\ session = "up" THEN [note[b] EXCEPT !.told = TRUE] ELSE note[b]
    BY <1>1
  <2>2. CASE b \in unconsumed(key.ids) /\ session = "up"
    BY <2>0, <2>1, <2>2 DEF NoteRecord
  <2>3. CASE ~(b \in unconsumed(key.ids) /\ session = "up")
    BY <2>0, <2>1, <2>3
  <2> QED BY <2>2, <2>3
<1>3. note' \in [Ids -> NoteRecord] /\ OverHasTime'
  BY <1>1, <1>2 DEF OverHasTime
<1>4. ASSUME NEW b \in Ids, Owing(b)' PROVE Owing(b) /\ b \notin ToSet(key.ids)
  <2>1. note'[b] = note[b] /\ b \notin unconsumed(key.ids) /\ session = "up"
    BY <1>1, <1>2, <1>4 DEF Owing
  <2>2. Owing(b)
    BY <1>4, <2>1 DEF Owing
  <2> QED BY <2>1, <2>2 DEF unconsumed, Owing
<1>5. batch' \in Seq(Ids) /\ BatchTimed' /\ ToSet(batch) \subseteq ToSet(batch')
  BY <1>1 DEF NoticeInv, NotesTyped, BatchTimed
<1> QED BY <1>1, <1>3, <1>4, <1>5, StillHeld

\* After the shutdown nobody is owed a notice.
LEMMA ShutdownHeld == ASSUME NoticeInv, Shutdown PROVE NoticeInv'
<1>1. ASSUME NEW b \in Ids
      PROVE  /\ note'[b] \in NoteRecord /\ (note'[b].over => note'[b].completedAt)
             /\ (note'[b].status # "ended" => ~note'[b].over)
  <2>0. note[b] \in NoteRecord /\ (note[b].over => note[b].completedAt) /\ (note[b].status # "ended" => ~note[b].over)
    BY NoteOf
  <2>1. note'[b] = IF note[b].status \in {"running", "queued"}
                   THEN [note[b] EXCEPT !.status = "ended", !.completedAt = TRUE] ELSE note[b]
    BY DEF Shutdown
  <2> QED BY <2>0, <2>1 DEF NoteRecord
<1>2. note' \in [Ids -> NoteRecord] /\ OverHasTime'
  <2>1. note' = [b \in Ids |-> note'[b]]
    BY DEF Shutdown
  <2> QED BY <1>1, <2>1 DEF OverHasTime
<1>3. \A b \in Ids : ~Owing(b)'
  BY DEF Shutdown, Owing
<1>4. batch' \in Seq(Ids) /\ BatchTimed' /\ ToSet(batch) \subseteq ToSet(batch')
  BY DEF NoticeInv, NotesTyped, BatchTimed, Shutdown
<1> QED BY <1>2, <1>3, <1>4, StillHeld DEF Shutdown


\* Steps of the group manager: whoever is owed a notice is in the batch or reported.
LEMMA NowHeld ==
  ASSUME NoticeInv, NEW J, JoinState(J), SetJoins(J), note' \in [Ids -> NoteRecord], OverHasTime',
         batch' \in Seq(Ids), BatchTimed',
         \A b \in Ids : Owing(b)' => b \in ToSet(batch') \/ Reported(J, b)
  PROVE  NoticeInv'
<1>1. Joins' = J
  <2>1. J = [g |-> J.g, of |-> J.of, n |-> J.n]
    BY DEF JoinState
  <2>2. Joins' = [g |-> J.g, of |-> J.of, n |-> J.n]
    BY DEF SetJoins, Joins
  <2> QED BY <2>1, <2>2
<1>2. OwedHeld'
  BY <1>1 DEF OwedHeld
<1>3. NotesTyped'
  BY <1>1 DEF NotesTyped
<1> QED BY <1>2, <1>3 DEF NoticeInv

\* finalizeBatch.
LEMMA BatchHeld == ASSUME NoticeInv, finalizeBatch PROVE NoticeInv'
<1>1. /\ batch' = <<>> /\ batchTimer' = FALSE /\ note' = note /\ session' = session
      /\ IF Len(batch) >= 2 THEN SetJoins(FoldLeft(joinCompleted, registerGroup(Joins, batch), batch))
         ELSE nudges' = FoldLeft(nudgeCompleted, nudges, batch) /\ UNCHANGED <<groups, groupOf>>
  BY DEF finalizeBatch
<1>2. note' \in [Ids -> NoteRecord] /\ OverHasTime' /\ batch' \in Seq(Ids) /\ BatchTimed'
  <2>1. note' \in [Ids -> NoteRecord] /\ OverHasTime'
    BY <1>1 DEF NoticeInv, NotesTyped, OverHasTime
  <2>2. <<>> \in Seq(Ids)
    OBVIOUS
  <2>3. batch' \in Seq(Ids) /\ BatchTimed'
    BY <1>1, <2>2 DEF BatchTimed
  <2> QED BY <2>1, <2>3
<1>3. ASSUME NEW b \in Ids, Owing(b)' PROVE Reported(Joins, b) \/ (b \in ToSet(batch) /\ Completed(b))
  <2>1. Owing(b)
    BY <1>1, <1>3 DEF Owing
  <2>2. b \in ToSet(batch) \/ Reported(Joins, b)
    BY <2>1 DEF NoticeInv, OwedHeld
  <2>3. Completed(b)
    BY <2>1, NoteOf DEF Owing, Completed
  <2> QED BY <2>2, <2>3
<1>4. CASE Len(batch) >= 2
  <2>1. PICK R : R = Joined(registerGroup(Joins, batch), batch)
    OBVIOUS
  <2>2. SetJoins(R)
    BY <1>1, <1>4, <2>1 DEF Joined
  <2>3. JoinState(R) /\ \A b \in Ids : Owing(b)' => Reported(R, b)
    BY <1>3, <2>1, BatchJoined
  <2> QED BY <1>2, <2>2, <2>3, NowHeld
<1>5. CASE ~(Len(batch) >= 2)
  <2>1. PICK N : N = Nudged(nudges, batch)
    OBVIOUS
  <2>2. nudges' = N /\ UNCHANGED <<groups, groupOf>>
    BY <1>1, <1>5, <2>1 DEF Nudged
  <2> DEFINE R == [Joins EXCEPT !.n = N]
  <2>3. nudges \subseteq N /\ N \subseteq NudgeKeys /\ \A b \in ToSet(batch) : Completed(b) => Nudge("one", <<b>>) \in N
    BY <2>1, BatchNudged
  <2>4. R = [g |-> groups, of |-> groupOf, n |-> N]
    BY DEF Joins
  <2>5. SetJoins(R)
    BY <2>2, <2>4 DEF SetJoins
  <2>6. JoinState(R)
    BY <2>3, <2>4 DEF JoinState, Joins, NoticeInv, NotesTyped
  <2>7. ASSUME NEW b \in Ids, Owing(b)' PROVE Reported(R, b)
    <3>1. CASE Reported(Joins, b)
      <4>1. Joins.n = nudges /\ Joins.g = groups /\ R.n = N /\ R.g = groups
        BY <2>4 DEF Joins
      <4> HIDE DEF R
      <4> QED BY <2>3, <3>1, <4>1 DEF Reported
    <3>2. CASE b \in ToSet(batch) /\ Completed(b)
      <4>1. Nudge("one", <<b>>) \in R.n /\ b \in ToSet(Nudge("one", <<b>>).ids)
        BY <2>3, <2>4, <3>2 DEF Nudge, ToSet
      <4> QED BY <4>1 DEF Reported
    <3> QED BY <1>3, <2>7, <3>1, <3>2
  <2> HIDE DEF R
  <2> QED BY <1>2, <2>5, <2>6, <2>7, NowHeld
<1> QED BY <1>4, <1>5

\* onTimeout: the part that has completed is reported.
LEMMA PartHeld == ASSUME NoticeInv, NEW k \in DOMAIN groups, onTimeout(k) PROVE NoticeInv'
<1>0. /\ groups \in Seq(GroupRecord) /\ groups[k] \in GroupRecord /\ groupOf \in [Ids -> Nat] /\ nudges \subseteq NudgeKeys
      /\ \A a \in Ids : groupOf[a] <= Len(groups)
  BY DEF NoticeInv, NotesTyped, JoinState, Joins
<1>1. PICK c : c = groups[k].completed /\ c \in Seq(Ids)
  BY <1>0 DEF GroupRecord
<1>2. PICK new : new = [groups[k] EXCEPT !.ids = groups[k].ids \ ToSet(c), !.completed = <<>>, !.timer = FALSE]
  OBVIOUS
<1>3. new \in GroupRecord
  <2>1. groups[k].ids \ ToSet(c) \in SUBSET Ids /\ <<>> \in Seq(Ids)
    BY <1>0 DEF GroupRecord
  <2> QED BY <1>0, <1>2, <2>1 DEF GroupRecord
<1> DEFINE J == [g |-> [groups EXCEPT ![k] = new], of |-> [a \in Ids |-> IF a \in ToSet(c) THEN 0 ELSE groupOf[a]],
                 n |-> nudges \cup {Nudge("group", c)}]
<1>4. SetJoins(J) /\ UNCHANGED <<note, batch, batchTimer, session>>
  BY <1>1, <1>2 DEF onTimeout, SetJoins, deliverCb, scheduleNudge
<1>5. /\ J.g \in Seq(GroupRecord) /\ Len(J.g) = Len(groups) /\ DOMAIN J.g = DOMAIN groups
      /\ \A i \in DOMAIN groups : i # k => J.g[i] = groups[i]
  BY <1>0, <1>3
<1>6. Nudge("group", c) \in NudgeKeys /\ Nudge("group", c).ids = c
  BY <1>1 DEF Nudge, NudgeKeys
<1>7. JoinState(J)
  <2>1. J.of \in [Ids -> Nat] /\ \A a \in Ids : J.of[a] <= Len(groups)
    BY <1>0
  <2>2. J.n \in SUBSET NudgeKeys
    BY <1>0, <1>6
  <2> QED BY <1>5, <2>1, <2>2 DEF JoinState
<1>8. ASSUME NEW b \in Ids, Owing(b)' PROVE b \in ToSet(batch') \/ Reported(J, b)
  <2>1. Owing(b)
    BY <1>4, <1>8 DEF Owing
  <2>2. b \in ToSet(batch) \/ Reported(Joins, b)
    BY <2>1 DEF NoticeInv, OwedHeld
  <2>3. CASE \E key \in nudges : b \in ToSet(key.ids)
    BY <2>3 DEF Reported
  <2>4. CASE b \in ToSet(c)
    BY <1>6, <2>4 DEF Reported
  <2>5. CASE \E i \in DOMAIN groups : i # k /\ groups[i].timer /\ b \in ToSet(groups[i].completed)
    BY <1>5, <2>5 DEF Reported
  <2> HIDE DEF J
  <2>6. ASSUME Reported(Joins, b) PROVE b \in ToSet(batch') \/ Reported(J, b)
    <3>1. \/ \E key \in nudges : b \in ToSet(key.ids)
          \/ \E i \in DOMAIN groups : groups[i].timer /\ b \in ToSet(groups[i].completed)
      BY <2>6 DEF Reported, Joins
    <3>2. \/ \E key \in nudges : b \in ToSet(key.ids)
          \/ b \in ToSet(c)
          \/ \E i \in DOMAIN groups : i # k /\ groups[i].timer /\ b \in ToSet(groups[i].completed)
      BY <1>1, <3>1
    <3> QED BY <2>3, <2>4, <2>5, <3>2
  <2> QED BY <1>4, <2>2, <2>6
<1>9. note' \in [Ids -> NoteRecord] /\ OverHasTime' /\ batch' \in Seq(Ids) /\ BatchTimed'
  BY <1>4 DEF NoticeInv, NotesTyped, OverHasTime, BatchTimed
<1> HIDE DEF J
<1> QED BY <1>4, <1>7, <1>8, <1>9, NowHeld

\* A run settles: it is in the batch, reported, or its result has been read.
LEMMA SettledHeld == ASSUME NoticeInv, NEW a \in Ids, Settle(a) PROVE NoticeInv'
<1> DEFINE one == Nudge("one", <<a>>)
           read == note[a].waited
<1>1. PICK J : J = onComplete(a, note[a].consumed)
  OBVIOUS
<1>2. PICK N : N = IF read THEN J.n \ {one} ELSE J.n
  OBVIOUS
<1> DEFINE R == [J EXCEPT !.n = N]
<1>3. JoinState(Joins) /\ note[a] \in NoteRecord /\ note \in [Ids -> NoteRecord] /\ note[a].flights > 0
  BY DEF NoticeInv, NotesTyped, Settle
<1>4. one \in NudgeKeys /\ one.ids = <<a>> /\ ToSet(<<a>>) = {a}
  BY DEF Nudge, NudgeKeys, ToSet
<1>5. /\ JoinState(J) /\ \A b \in Ids : Reported(Joins, b) => Reported(J, b)
      /\ note[a].consumed \/ a \in ToSet(batch) \/ Reported(J, a)
  <2>1. CASE note[a].consumed \/ a \in ToSet(batch)
    BY <1>1, <1>3, <2>1 DEF onComplete
  <2>2. CASE ~(note[a].consumed \/ a \in ToSet(batch)) /\ Passes(Joins, a)
    <3>1. J = [Joins EXCEPT !.n = Joins.n \cup {one}]
      BY <1>1, <2>2 DEF onComplete, sendIndividualNudge, scheduleNudge
    <3>2. Joins = [g |-> groups, of |-> groupOf, n |-> nudges]
      BY DEF Joins
    <3>3. J = [g |-> groups, of |-> groupOf, n |-> nudges \cup {one}]
      BY <3>1, <3>2
    <3>4. JoinState(J)
      BY <1>3, <1>4, <3>2, <3>3 DEF JoinState
    <3>5. J.g = Joins.g /\ J.n = Joins.n \cup {one}
      BY <3>2, <3>3
    <3>6. Reported(J, a) /\ \A b \in Ids : Reported(Joins, b) => Reported(J, b)
      BY <1>4, <3>5 DEF Reported
    <3> QED BY <3>4, <3>6
  <2>3. CASE ~(note[a].consumed \/ a \in ToSet(batch)) /\ ~Passes(Joins, a)
    <3>1. J = onAgentComplete(Joins, a)
      BY <1>1, <2>3 DEF onComplete
    <3> QED BY <1>3, <2>3, <3>1, MemberCompletes
  <2> QED BY <2>1, <2>2, <2>3
<1>6. JoinState(R)
  BY <1>2, <1>5 DEF JoinState
<1>7. SetJoins(R) /\ UNCHANGED <<batch, batchTimer, session>>
  BY <1>1, <1>2 DEF Settle, cancelNudge
<1>8. PICK f \in Nat : f = note[a].flights - 1
  BY <1>3 DEF NoteRecord
<1>9. PICK r : r = [note[a] EXCEPT !.flights = f, !.completedAt = TRUE, !.over = TRUE,
                    !.status = "ended", !.waited = FALSE, !.consumed = note[a].consumed \/ read]
  OBVIOUS
<1>10. note' = [note EXCEPT ![a] = r]
  BY <1>8, <1>9 DEF Settle
<1>11. r \in NoteRecord /\ r.completedAt /\ r.status = "ended" /\ r.consumed = (note[a].consumed \/ read)
  BY <1>3, <1>9 DEF NoteRecord
<1>12. /\ note' \in [Ids -> NoteRecord] /\ note'[a] = r /\ \A b \in Ids : b # a => note'[b] = note[b]
  BY <1>3, <1>10, <1>11
<1>13. OverHasTime'
  <2>1. ASSUME NEW b \in Ids PROVE (note'[b].over => note'[b].completedAt) /\ (note'[b].status # "ended" => ~note'[b].over)
    BY <1>11, <1>12, NoteOf
  <2> QED BY <2>1 DEF OverHasTime
<1>14. ASSUME NEW b \in Ids, Owing(b)' PROVE b \in ToSet(batch') \/ Reported(R, b)
  <2>1. R.g = J.g /\ R.n = N
    BY <1>5 DEF JoinState
  <2> HIDE DEF R
  <2>2. CASE b = a
    <3>1. ~note[a].consumed /\ ~read
      BY <1>11, <1>12, <1>14, <2>2 DEF Owing
    <3>2. R.n = J.n
      BY <1>2, <2>1, <3>1
    <3>3. a \in ToSet(batch) \/ Reported(J, a)
      BY <1>5, <3>1
    <3> QED BY <1>7, <2>1, <2>2, <3>2, <3>3 DEF Reported
  <2>3. CASE b # a
    <3>1. Owing(b)
      BY <1>7, <1>12, <1>14, <2>3 DEF Owing
    <3>2. b \in ToSet(batch) \/ Reported(J, b)
      BY <1>5, <3>1 DEF NoticeInv, OwedHeld
    <3>3. \A key \in J.n : b \in ToSet(key.ids) => key \in R.n
      BY <1>2, <1>4, <2>1, <2>3
    <3> QED BY <1>7, <2>1, <3>2, <3>3 DEF Reported
  <2> QED BY <2>2, <2>3
<1>15. batch' \in Seq(Ids) /\ BatchTimed'
  BY <1>7 DEF NoticeInv, NotesTyped, BatchTimed
<1> HIDE DEF R
<1> QED BY <1>6, <1>7, <1>12, <1>13, <1>14, <1>15, NowHeld

LEMMA NoticesNextHeld == NoticeInv /\ [NoticesNext]_nvars => NoticeInv'
<1> SUFFICES ASSUME NoticeInv, [NoticesNext]_nvars PROVE NoticeInv'
  OBVIOUS
<1>1. CASE UNCHANGED nvars
  <2>1. batch' \in Seq(Ids) /\ BatchTimed' /\ note' \in [Ids -> NoteRecord] /\ OverHasTime'
    BY <1>1 DEF nvars, NoticeInv, NotesTyped, BatchTimed, OverHasTime
  <2> QED BY <1>1, <2>1, StillHeld DEF nvars, Owing
<1>2. ASSUME NEW a \in Ids, NEW status \in {"queued", "running"}, NEW joinMode,
             \/ SpawnInBackground(a, status, joinMode)
             \/ ResumeInBackground(a, status, joinMode)
             \/ Mention(a, status, joinMode)
      PROVE  NoticeInv'
  BY <1>2, RunBegins, RunGoesOn DEF ResumeInBackground, Mention
<1>3. ASSUME NEW a \in Ids,
             \/ Start(a) \/ Abort(a) \/ Settle(a)
             \/ GetResult(a, FALSE) \/ consumeResult(a)
             \/ GetResultWaits(a) \/ WaitCancelled(a) \/ PollEnds(a)
      PROVE  NoticeInv'
  BY <1>3, RunGoesOn, SettledHeld, ResultIsRead DEF consumeResult
<1> QED BY <1>1, <1>2, <1>3, BatchHeld, ShutdownHeld, PartHeld, EmittedHeld DEF NoticesNext

\* Only the emission of a notice tells, and of what is unread.
LEMMA ReadIsNotTold == NoticeInv /\ [NoticesNext]_nvars => [ReadNotReported]_nvars
<1> SUFFICES ASSUME NoticeInv, NoticesNext, NEW a \in Ids, note[a].consumed, ~note[a].told PROVE ~note'[a].told
  BY DEF ReadNotReported
<1>0. note \in [Ids -> NoteRecord] /\ \A b \in Ids : note[b] \in NoteRecord
  BY DEF NoticeInv, NotesTyped
<1>1. ASSUME NEW key, NudgeFires(key) PROVE ~note'[a].told
  <2>1. a \notin unconsumed(key.ids)
    BY DEF unconsumed
  <2> QED BY <1>1, <2>1 DEF NudgeFires
<1>2. ASSUME NEW b \in Ids, NEW status, NewRun(b, status) PROVE ~note'[a].told
  BY <1>0, <1>2 DEF NewRun, Fresh
<1>3. ASSUME NEW b \in Ids, NEW status, NEW joinMode, NEW byId,
             \/ Start(b) \/ Abort(b) \/ Settle(b) \/ GetResult(b, byId)
             \/ GetResultWaits(b) \/ WaitCancelled(b) \/ PollEnds(b)
             \/ note' = [note EXCEPT ![b].consumed = FALSE]
      PROVE  ~note'[a].told
  <2>1. note'[a] = note[a] \/ \E r \in {note[b]} : a = b /\ note'[a].told = r.told
    <3>1. CASE a # b
      BY <1>0, <1>3, <3>1 DEF Start, Abort, Settle, GetResult, GetResultWaits, WaitCancelled, PollEnds
    <3>2. CASE a = b
      <4> USE <1>0, <3>2 DEF NoteRecord
      <4>1. CASE Start(b)
        BY <4>1 DEF Start
      <4>2. CASE Abort(b)
        BY <4>2 DEF Abort
      <4>3. CASE Settle(b)
        BY <4>3 DEF Settle
      <4>4. CASE GetResult(b, byId)
        BY <4>4 DEF GetResult
      <4>5. CASE GetResultWaits(b) \/ WaitCancelled(b)
        BY <4>5 DEF GetResultWaits, WaitCancelled
      <4>6. CASE PollEnds(b)
        BY <4>6 DEF PollEnds
      <4>7. CASE note' = [note EXCEPT ![b].consumed = FALSE]
        BY <4>7
      <4> QED BY <1>3, <4>1, <4>2, <4>3, <4>4, <4>5, <4>6, <4>7
    <3> QED BY <3>1, <3>2
  <2> QED BY <2>1
<1>4. ASSUME Shutdown PROVE ~note'[a].told
  BY <1>0, <1>4 DEF Shutdown, NoteRecord
<1>5. ASSUME NEW k, finalizeBatch \/ onTimeout(k) PROVE ~note'[a].told
  BY <1>5 DEF finalizeBatch, onTimeout
<1>6. ASSUME NEW b \in Ids, NEW status, NEW joinMode,
             \/ SpawnInBackground(b, status, joinMode)
             \/ ResumeInBackground(b, status, joinMode)
             \/ Mention(b, status, joinMode)
      PROVE  ~note'[a].told
  BY <1>2, <1>3, <1>6 DEF SpawnInBackground, ResumeInBackground, Mention, startBackgroundResume
<1> QED BY <1>1, <1>3, <1>4, <1>5, <1>6 DEF NoticesNext, consumeResult

\* Every end of a background agent whose result is not read leads to a notice, through
\* batches, groups, their timers and stragglers, and a result that was read is not
\* reported (finalizeBatch, GroupJoinManager, emitIndividualNudge).
THEOREM EndsAreToldOrRead == NoticesSpec => ToldOrRead
<1>1. NoticesInit => NoticeInv
  <2> SUFFICES ASSUME NoticesInit PROVE NoticeInv
    OBVIOUS
  <2>1. note \in [Ids -> NoteRecord] /\ \A a \in Ids : note[a].over = FALSE
    BY DEF NoticesInit, Fresh, NoteRecord
  <2>2. JoinState(Joins)
    BY DEF NoticesInit, JoinState, Joins
  <2>3. OverHasTime /\ OwedHeld
    BY <2>1 DEF NoticesInit, OverHasTime, OwedHeld, Owing, Fresh
  <2>4. BatchTimed /\ batch \in Seq(Ids)
    <3>1. batch = <<>> /\ batchTimer = FALSE
      BY DEF NoticesInit
    <3>2. <<>> \in Seq(Ids)
      OBVIOUS
    <3> QED BY <3>1, <3>2 DEF BatchTimed
  <2> QED BY <2>1, <2>2, <2>3, <2>4 DEF NoticeInv, NotesTyped
<1>2. NoticeInv /\ NoticeInv' /\ [NoticesNext]_nvars => [ReadNotReported /\ NoticeHeld']_nvars
  <2>1. NoticeInv' => NoticeHeld'
    BY InvHolds, PTL
  <2> QED BY <2>1, ReadIsNotTold
<1> QED BY <1>1, <1>2, NoticesNextHeld, PTL DEF NoticesSpec, ToldOrRead

-----------------------------------------------------------------------------
(***************************************************************************)
(* Nested agents: spend reaches every ancestor once.                       *)
(***************************************************************************)

\* What a walk up from each agent collects, stopping at the main session and at halt.
Upward(f, par, halt) ==
  f = [a \in Kids \cup {Main} |-> IF a = Main \/ a \in halt THEN {} ELSE {a} \cup f[par[a]]]

\* There is one: the least relation that the equation's right side does not leave.
LEMMA UpwardExists ==
  ASSUME NEW par \in [Kids -> Kids \cup {Main}], NEW halt
  PROVE  \E f : Upward(f, par, halt)
<1> DEFINE All == Kids \cup {Main}
           Go == Kids \ halt
           Closed(R) == \A a \in Go : <<a, a>> \in R /\ \A x \in Kids : <<x, par[a]>> \in R => <<x, a>> \in R
           L == {p \in Kids \X All : \A R \in SUBSET (Kids \X All) : Closed(R) => p \in R}
           M == {p \in L : p[2] \in Go /\ (p[1] = p[2] \/ <<p[1], par[p[2]]>> \in L)}
           f == [a \in All |-> {x \in Kids : <<x, a>> \in L}]
<1>0. Main \notin Kids
  BY KidsAreNumbers DEF Main
<1>1. Closed(L)
  <2>1. ASSUME NEW a \in Go PROVE <<a, a>> \in L
    OBVIOUS
  <2>2. ASSUME NEW a \in Go, NEW x \in Kids, <<x, par[a]>> \in L PROVE <<x, a>> \in L
    BY <2>2
  <2> HIDE DEF L
  <2> QED BY <2>1, <2>2
<1>2. Closed(M)
  <2>1. ASSUME NEW a \in Go PROVE <<a, a>> \in M
    BY <1>1
  <2>2. ASSUME NEW a \in Go, NEW x \in Kids, <<x, par[a]>> \in M PROVE <<x, a>> \in M
    <3>1. <<x, par[a]>> \in L
      BY <2>2
    <3>2. <<x, a>> \in L
      BY <1>1, <3>1
    <3> HIDE DEF L
    <3> QED BY <3>1, <3>2
  <2> HIDE DEF M
  <2> QED BY <2>1, <2>2
<1>3. L \subseteq M
  <2>1. M \in SUBSET (Kids \X All)
    OBVIOUS
  <2> HIDE DEF M, Closed
  <2> QED BY <1>2, <2>1
<1>4. ASSUME NEW a \in All PROVE f[a] = IF a = Main \/ a \in halt THEN {} ELSE {a} \cup f[par[a]]
  <2>1. CASE a = Main \/ a \in halt
    <3>1. ASSUME NEW x \in Kids, <<x, a>> \in L PROVE FALSE
      <4>1. <<x, a>> \in M
        BY <1>3, <3>1
      <4> HIDE DEF L
      <4> QED BY <1>0, <2>1, <4>1
    <3> HIDE DEF L
    <3> QED BY <2>1, <3>1
  <2>2. CASE ~(a = Main \/ a \in halt)
    <3>1. a \in Go /\ par[a] \in All /\ a \in Kids
      BY <2>2
    <3>2. ASSUME NEW x \in Kids PROVE <<x, a>> \in L <=> x = a \/ <<x, par[a]>> \in L
      <4>1. x = a \/ <<x, par[a]>> \in L => <<x, a>> \in L
        <5> HIDE DEF L
        <5> QED BY <1>1, <3>1
      <4>2. ASSUME <<x, a>> \in L PROVE x = a \/ <<x, par[a]>> \in L
        <5>1. <<x, a>> \in M
          BY <1>3, <4>2
        <5> HIDE DEF L
        <5> QED BY <5>1
      <4> QED BY <4>1, <4>2
    <3> HIDE DEF L
    <3>3. f[a] = {x \in Kids : <<x, a>> \in L} /\ f[par[a]] = {x \in Kids : <<x, par[a]>> \in L}
      BY <3>1
    <3> HIDE DEF f, Go
    <3>4. f[a] = {a} \cup f[par[a]]
      BY <3>1, <3>2, <3>3
    <3> QED BY <2>2, <3>4
  <2> QED BY <2>1, <2>2
<1>5. f \in [Kids \cup {Main} -> SUBSET Kids]
  OBVIOUS
<1> HIDE DEF f
<1>6. Upward(f, par, halt)
  BY <1>4, <1>5 DEF Upward
<1> QED BY <1>6

\* Parents came before their children.
Older(par) == par \in [Kids -> Kids \cup {Main}] /\ \A a \in Kids : par[a] < a

\* Two choices of parents that differ at c, which is nobody's parent.
SameBut(c, p, q) == \A a \in Kids \ {c} : p[a] = q[a] /\ p[a] # c

\* Two walks by parents that differ at c alone differ at c alone, if c has no children.
LEMMA WalksAgree ==
  ASSUME NEW p, Older(p), NEW q, NEW f, NEW g, NEW c, Upward(f, p, {}), Upward(g, q, {}), SameBut(c, p, q)
  PROVE  \A a \in (Kids \cup {Main}) \ {c} : f[a] = g[a]
<1> SUFFICES ASSUME {a \in (Kids \cup {Main}) \ {c} : f[a] # g[a]} # {} PROVE FALSE
  OBVIOUS
<1> DEFINE T == {a \in (Kids \cup {Main}) \ {c} : f[a] # g[a]}
<1>0. Kids \cup {Main} \subseteq Nat
  BY KidsAreNumbers DEF Main
<1>1. PICK m \in T : \A k \in T : m <= k
  BY <1>0, LeastOf
<1>2. m \in Kids /\ f[m] = {m} \cup f[p[m]] /\ g[m] = {m} \cup g[q[m]]
  BY <1>1 DEF Upward
<1>3. p[m] < m /\ p[m] \in Kids \cup {Main} /\ p[m] # c /\ q[m] = p[m]
  BY <1>1, <1>2 DEF Older, SameBut
<1>4. p[m] \in T
  BY <1>1, <1>2, <1>3
<1> QED BY <1>0, <1>1, <1>3, <1>4

\* A walk that stops collects no more ...
LEMMA StopsShort ==
  ASSUME NEW p, Older(p), NEW halt, NEW f, NEW g, Upward(f, p, {}), Upward(g, p, halt)
  PROVE  \A a \in Kids \cup {Main} : g[a] \subseteq f[a]
<1> SUFFICES ASSUME {a \in Kids \cup {Main} : ~(g[a] \subseteq f[a])} # {} PROVE FALSE
  OBVIOUS
<1> DEFINE T == {a \in Kids \cup {Main} : ~(g[a] \subseteq f[a])}
<1>0. Kids \cup {Main} \subseteq Nat
  BY KidsAreNumbers DEF Main
<1>1. PICK m \in T : \A k \in T : m <= k
  BY <1>0, LeastOf
<1>2. m \in Kids /\ f[m] = {m} \cup f[p[m]] /\ g[m] = {m} \cup g[p[m]]
  BY <1>1 DEF Upward
<1>3. p[m] < m /\ p[m] \in T
  BY <1>1, <1>2 DEF Older
<1> QED BY <1>0, <1>1, <1>3

\* ... and reaches a if it stops nowhere between a parent and a.
LEMMA Reaches ==
  ASSUME NEW p, Older(p), NEW halt, NEW f, NEW g, Upward(f, p, {}), Upward(g, p, halt), NEW a \in Kids,
         \A b \in Kids : a \in f[b] /\ (\E c \in Kids : p[c] = b) => b \notin halt
  PROVE  \A c \in Kids : a \in f[p[c]] => a \in g[p[c]]
<1> SUFFICES ASSUME {c \in Kids : a \in f[p[c]] /\ a \notin g[p[c]]} # {} PROVE FALSE
  OBVIOUS
<1> DEFINE T == {c \in Kids : a \in f[p[c]] /\ a \notin g[p[c]]}
<1>0. Kids \subseteq Nat
  BY KidsAreNumbers
<1>1. PICK m \in T : \A k \in T : m <= k
  BY <1>0, LeastOf
<1>2. p[m] \in Kids
  <2>1. f[Main] = {}
    BY DEF Upward
  <2> QED BY <1>1, <2>1 DEF Older
<1>3. f[p[m]] = {p[m]} \cup f[p[p[m]]] /\ g[p[m]] = {p[m]} \cup g[p[p[m]]]
  <2>1. p[m] # Main /\ p[m] \notin halt
    BY <1>1, <1>2, KidsAreNumbers DEF Main
  <2> QED BY <1>2, <2>1 DEF Upward
<1>4. p[m] < m /\ p[m] \in T
  BY <1>1, <1>2, <1>3 DEF Older
<1>5. m <= p[m] /\ m \in Nat /\ p[m] \in Nat
  BY <1>0, <1>1, <1>2, <1>4
<1> QED BY <1>4, <1>5

\* What a walk collects are agents.
LEMMA WalksStay ==
  ASSUME NEW p, Older(p), NEW f, Upward(f, p, {}) PROVE \A a \in Kids \cup {Main} : f[a] \subseteq Kids
<1> SUFFICES ASSUME {a \in Kids \cup {Main} : ~(f[a] \subseteq Kids)} # {} PROVE FALSE
  OBVIOUS
<1> DEFINE T == {a \in Kids \cup {Main} : ~(f[a] \subseteq Kids)}
<1>0. Kids \cup {Main} \subseteq Nat
  BY KidsAreNumbers DEF Main
<1>1. PICK m \in T : \A k \in T : m <= k
  BY <1>0, LeastOf
<1>2. m \in Kids /\ f[m] = {m} \cup f[p[m]]
  BY <1>1 DEF Upward
<1>3. p[m] < m /\ p[m] \in T
  BY <1>1, <1>2 DEF Older
<1> QED BY <1>0, <1>1, <1>3

\* An agent without children is above nobody else.
LEMMA ChildlessAlone ==
  ASSUME NEW p, Older(p), NEW f, Upward(f, p, {}), NEW c \in Kids, \A a \in Kids : p[a] # c
  PROVE  \A b \in Kids : c \in f[b] <=> b = c
<1>0. Kids \subseteq Nat /\ Main \notin Kids /\ f[Main] = {} /\ \A b \in Kids : f[b] = {b} \cup f[p[b]] /\ p[b] < b /\ p[b] \in Kids \cup {Main}
  BY KidsAreNumbers DEF Main, Upward, Older
<1> DEFINE T == {b \in Kids : b # c /\ c \in f[b]}
<1>1. ASSUME T # {} PROVE FALSE
  <2>1. PICK m \in T : \A k \in T : m <= k
    BY <1>0, <1>1, LeastOf
  <2>2. c \in f[p[m]] /\ p[m] # c /\ p[m] < m
    BY <1>0, <2>1
  <2>3. p[m] \in T
    BY <1>0, <2>1, <2>2
  <2>4. m <= p[m] /\ m \in Nat /\ p[m] \in Nat
    BY <1>0, <2>1, <2>3
  <2> QED BY <2>2, <2>4
<1> QED BY <1>0, <1>1

-----------------------------------------------------------------------------

KidRecord ==
  [parent : Kids \cup {Main}, status : {"none", "running", "stopped", "completed", "error"},
   inMap : BOOLEAN, session : BOOLEAN, run : {"none", "first", "again"}, signal : BOOLEAN,
   steers : Nat, total : Nat]
KidTyped ==
  /\ kids \in [Kids -> KidRecord]
  /\ kspend \in [Kids -> [first : Nat, again : Nat]]

\* Agents start in the order of their ids, children after their parents.
InOrder ==
  /\ \A a, b \in Kids : b < a /\ kids[b].status = "none" => kids[a].status = "none"
  /\ \A a \in Kids : kids[a].status = "none" => kids[a] = NoKid /\ kspend[a] = [first |-> 0, again |-> 0]
  /\ \A a \in Kids : kids[a].parent < a /\ (kids[a].parent \in Kids => kids[kids[a].parent].status # "none")

KidsInv == KidTyped /\ InOrder /\ RunsFolded

\* A call waits for an agent that was started.
Purposes == {"spawn", "resume", "wait"}
CallsKnown == \A w \in kcalls : w.on \in Kids /\ kids[w.on].status # "none" /\ w.for \in Purposes

Parents == [a \in Kids |-> kids[a].parent]
FirstRuns == [b \in Kids |-> kspend[b].first]

LEMMA LineageIs == KidTyped => Upward(lineage, Parents, {})
<1> SUFFICES ASSUME KidTyped PROVE Upward(lineage, Parents, {})
  OBVIOUS
<1> DEFINE Eq(f) == [a \in Kids \cup {Main} |-> IF a = Main THEN {} ELSE {a} \cup f[kids[a].parent]]
<1>1. Parents \in [Kids -> Kids \cup {Main}]
  BY DEF KidTyped, KidRecord, Parents
<1>2. PICK f : Upward(f, Parents, {})
  BY <1>1, UpwardExists
<1>3. f = Eq(f)
  BY <1>2 DEF Upward, Parents
<1>4. lineage = Eq(lineage)
  <2>1. lineage = CHOOSE l : l = Eq(l)
    BY DEF lineage
  <2> HIDE DEF Eq
  <2> QED BY <1>3, <2>1
<1> QED BY <1>1, <1>4 DEF Upward, Parents

OutOfMap == {a \in Kids : ~kids[a].inMap}
LEMMA AncestorsAre == KidTyped => Upward(ancestors, Parents, OutOfMap)
<1> SUFFICES ASSUME KidTyped PROVE Upward(ancestors, Parents, OutOfMap)
  OBVIOUS
<1> DEFINE Eq(f) == [a \in Kids \cup {Main} |-> IF a = Main \/ ~kids[a].inMap THEN {} ELSE {a} \cup f[kids[a].parent]]
<1>1. Parents \in [Kids -> Kids \cup {Main}]
  BY DEF KidTyped, KidRecord, Parents
<1>2. PICK f : Upward(f, Parents, OutOfMap)
  BY <1>1, UpwardExists
<1>3. f = Eq(f)
  BY <1>2 DEF Upward, Parents, OutOfMap
<1>4. ancestors = Eq(ancestors)
  <2>1. ancestors = CHOOSE l : l = Eq(l)
    BY DEF ancestors
  <2> HIDE DEF Eq
  <2> QED BY <1>3, <2>1
<1> QED BY <1>1, <1>4 DEF Upward, Parents, OutOfMap

\* The same of the next state.
LineageWalks == Upward(lineage, Parents, {})
LEMMA LineageNext == KidTyped' => Upward(lineage', Parents', {})
<1>1. KidTyped => LineageWalks
  BY LineageIs DEF LineageWalks
<1>2. (KidTyped => LineageWalks)'
  BY <1>1, PTL
<1> QED BY <1>2 DEF LineageWalks

LEMMA SpentIs == ASSUME NEW f, NEW S PROVE spent(f, S) = SumOf(f, S)
  BY DEF spent, SumOf, MapThenSumSet, MapThenFoldSet

LEMMA ParentsOlder == KidTyped /\ InOrder => Older(Parents) /\ FirstRuns \in [Kids -> Int]
  BY DEF KidTyped, KidRecord, InOrder, Older, Parents, FirstRuns

\* What the equation of RunsFolded needs of a step: nobody's parent changes and no record
\* comes into the map, so the families stay and fewer are complete.
LEMMA FamiliesKept ==
  ASSUME KidTyped, InOrder, KidTyped', InOrder', Parents' = Parents, OutOfMap \subseteq OutOfMap'
  PROVE  \A a \in Kids : Family(a)' = Family(a) /\ (Complete(a)' => Complete(a))
<1>1. Upward(lineage, Parents, {}) /\ Older(Parents)
  BY LineageIs, ParentsOlder
<1>2. Upward(lineage', Parents, {})
  BY LineageNext
<1>3. \A a \in Kids : lineage'[a] = lineage[a]
  <2>1. \A a \in Kids \ {-1} : Parents[a] # -1
    BY <1>1, KidsAreNumbers DEF Older, Main
  <2>2. \A a \in (Kids \cup {Main}) \ {-1} : lineage[a] = lineage'[a]
    <3>1. PICK c : c = -1
      OBVIOUS
    <3>2. PICK f : f = lineage'
      OBVIOUS
    <3>3. Upward(f, Parents, {}) /\ SameBut(c, Parents, Parents)
      BY <1>2, <2>1, <3>1, <3>2 DEF SameBut
    <3>4. \A a \in (Kids \cup {Main}) \ {c} : lineage[a] = f[a]
      BY <1>1, <3>3, WalksAgree
    <3> QED BY <3>1, <3>2, <3>4
  <2>3. Kids \subseteq (Kids \cup {Main}) \ {-1}
    BY KidsAreNumbers
  <2> QED BY <2>2, <2>3
<1>4. \A a \in Kids : kids'[a].parent = kids[a].parent
  BY DEF Parents
<1>5. \A a \in Kids : kids'[a].inMap => kids[a].inMap
  BY DEF OutOfMap
<1> QED BY <1>3, <1>4, <1>5 DEF Family, Complete, HasChild

\* Most steps change neither parents nor spend.
Softened(k, l) ==
  /\ l \in [Kids -> KidRecord]
  /\ \A a \in Kids :
       /\ l[a].parent = k[a].parent /\ l[a].total = k[a].total /\ (l[a].inMap => k[a].inMap)
       /\ IF k[a].status = "none" THEN l[a] = k[a] ELSE l[a].status # "none"

LEMMA SoftenedKeeps ==
  ASSUME KidsInv, Softened(kids, kids'), kspend' = kspend PROVE KidsInv'
<1>1. KidTyped'
  BY DEF KidsInv, KidTyped, Softened
<1>2. InOrder'
  BY DEF KidsInv, InOrder, Softened
<1>3. Parents' = Parents /\ OutOfMap \subseteq OutOfMap' /\ \A a \in Kids : kids'[a].total = kids[a].total
  BY DEF Softened, Parents, OutOfMap
<1>4. \A a \in Kids : Family(a)' = Family(a) /\ (Complete(a)' => Complete(a))
  BY <1>1, <1>2, <1>3, FamiliesKept DEF KidsInv
<1>5. RunsFolded'
  BY <1>3, <1>4 DEF KidsInv, RunsFolded
<1> QED BY <1>1, <1>2, <1>5 DEF KidsInv

LEMMA SoftenedTwice == ASSUME NEW k, NEW l, NEW m, Softened(k, l), Softened(l, m) PROVE Softened(k, m)
  BY DEF Softened

LEMMA AbortSoftens ==
  ASSUME NEW k \in [Kids -> KidRecord], NEW S PROVE Softened(k, kidAbort(k, S))
  BY DEF Softened, kidAbort, KidRecord

LEMMA OneSoftens ==
  ASSUME NEW k \in [Kids -> KidRecord], NEW a \in Kids, k[a].status # "none", NEW r \in KidRecord,
         r.parent = k[a].parent, r.total = k[a].total, r.inMap => k[a].inMap, r.status # "none"
  PROVE  Softened(k, [k EXCEPT ![a] = r])
  BY DEF Softened

-----------------------------------------------------------------------------
(* Each step. *)

\* A child that starts has spent nothing, and its ancestors have a new descendant.
LEMMA ChildKeeps ==
  ASSUME KidsInv, NEW p \in Kids \cup {Main}, p \in Kids => kids[p].status # "none", NEW c \in Kids, Unused(c),
         kids' = [kids EXCEPT ![c] = Child(p)], kspend' = kspend
  PROVE  KidsInv'
<1>0. /\ KidTyped /\ InOrder /\ RunsFolded
      /\ kids[c] = NoKid /\ kspend[c] = [first |-> 0, again |-> 0] /\ Main = 0 /\ Kids \subseteq Nat \ {0}
  BY KidsAreNumbers DEF KidsInv, InOrder, Unused, Main
<1>1. p < c
  BY <1>0 DEF InOrder, Unused
<1>2. Child(p) \in KidRecord /\ Child(p).parent = p /\ Child(p).status = "running" /\ Child(p).inMap /\ Child(p).total = 0
  BY DEF Child, NoKid, KidRecord
<1>3. /\ kids'[c] = Child(p) /\ \A a \in Kids \ {c} : kids'[a] = kids[a]
      /\ kids' \in [Kids -> KidRecord]
  BY <1>0, <1>2 DEF KidTyped
<1>4. KidTyped'
  BY <1>0, <1>3 DEF KidTyped
<1>5. \A a \in Kids : kids[a].parent # c
  BY <1>0 DEF InOrder, NoKid
<1>6. InOrder'
  <2>1. \A a, b \in Kids : b < a /\ kids'[b].status = "none" => kids'[a].status = "none"
    BY <1>0, <1>2, <1>3 DEF InOrder, Unused
  <2>2. \A a \in Kids : kids'[a].status = "none" => kids'[a] = NoKid /\ kspend'[a] = [first |-> 0, again |-> 0]
    BY <1>0, <1>2, <1>3 DEF InOrder
  <2>3. \A a \in Kids : kids'[a].parent < a /\ (kids'[a].parent \in Kids => kids'[kids'[a].parent].status # "none")
    BY <1>0, <1>1, <1>2, <1>3, <1>5 DEF InOrder
  <2> QED BY <2>1, <2>2, <2>3 DEF InOrder
<1>7. Upward(lineage, Parents, {}) /\ Older(Parents) /\ FirstRuns \in [Kids -> Int]
  BY <1>0, LineageIs, ParentsOlder
<1>8. Upward(lineage', Parents', {})
  BY <1>4, LineageNext
<1>9. \A a \in Kids : Parents[a] # c /\ (a # c => Parents'[a] = Parents[a])
  BY <1>3, <1>5 DEF Parents
<1>10. \A a \in (Kids \cup {Main}) \ {c} : lineage[a] = lineage'[a]
  <2>1. SameBut(c, Parents, Parents')
    BY <1>9 DEF SameBut
  <2> QED BY <1>7, <1>8, <2>1, WalksAgree
<1>11. lineage'[c] = {c} \cup lineage[p] /\ lineage[c] = {c}
  <2>1. Parents[c] = Main /\ Parents'[c] = p
    BY <1>0, <1>2, <1>3 DEF Parents, NoKid
  <2>2. lineage[Main] = {} /\ lineage[c] = {c} \cup lineage[Main] /\ lineage'[c] = {c} \cup lineage'[p]
    BY <1>0, <1>7, <1>8, <2>1 DEF Upward
  <2>3. p \in (Kids \cup {Main}) \ {c}
    BY <1>0, <1>1
  <2> QED BY <1>10, <2>2, <2>3
<1>12. \A b \in Kids : c \in lineage[b] <=> b = c
  BY <1>7, <1>9, ChildlessAlone
<1>13. Family(c)' = {c}
  BY <1>10, <1>11, <1>12 DEF Family
<1>14. ASSUME NEW a \in Kids \ {c} PROVE c \notin Family(a) /\ (Family(a)' = Family(a) \/ Family(a)' = Family(a) \cup {c})
  BY <1>10, <1>11 DEF Family
<1>15. ASSUME NEW a \in Kids \ {c}, Complete(a)' PROVE Complete(a)
  <2> SUFFICES ASSUME NEW b \in Family(a), HasChild(b) PROVE kids[b].inMap
    BY DEF Complete
  <2>1. b \in Family(a)' /\ b \in Kids /\ b # c
    BY <1>14 DEF Family
  <2>2. PICK d \in Kids : kids[d].parent = b
    BY DEF HasChild
  <2>3. d # c
    BY <1>0, <2>1, <2>2 DEF NoKid
  <2>4. HasChild(b)'
    BY <1>3, <2>2, <2>3 DEF HasChild
  <2> QED BY <1>3, <1>15, <2>1, <2>4 DEF Complete
<1>16. PICK g : Sums(g, Kids, FirstRuns)
  BY <1>7, KidsAreNumbers, SumExists
<1>17. \A S \in SUBSET Kids : spent(FirstRuns, S) = g[S]
  BY <1>16, SpentIs DEF Sums
<1>18. FirstRuns' = FirstRuns /\ FirstRuns[c] = 0 /\ kspend[c].again = 0
  BY <1>0 DEF FirstRuns
<1>19. \A S \in SUBSET Kids : c \notin S => g[S \cup {c}] = g[S] /\ g[S] \in Int
  <2> SUFFICES ASSUME NEW S \in SUBSET Kids, c \notin S PROVE g[S \cup {c}] = g[S]
    BY <1>16 DEF Sums
  <2>1. S \cup {c} \in SUBSET Kids /\ c \in S \cup {c} /\ (S \cup {c}) \ {c} = S /\ g[S] \in Int
    BY <1>16 DEF Sums
  <2>2. g[S \cup {c}] = g[S] + FirstRuns[c]
    BY <1>16, <2>1 DEF Sums, AddsUp
  <2> QED BY <1>18, <2>1, <2>2
<1>20. g[{c}] = 0
  <2>1. g[{}] = 0 /\ {} \cup {c} = {c}
    BY <1>16 DEF Sums, AddsUp
  <2> QED BY <1>19, <2>1
<1>21. ASSUME NEW a \in Kids, Complete(a)' PROVE kids'[a].total = kspend'[a].again + spent(FirstRuns', Family(a)')
  <2>1. CASE a = c
    <3>1. Family(a)' = {c}
      BY <1>13, <2>1 DEF Family
    <3>2. spent(FirstRuns', Family(a)') = 0 /\ kids'[a].total = 0 /\ kspend'[a].again = 0
      BY <1>2, <1>3, <1>17, <1>18, <1>20, <2>1, <3>1
    <3> QED BY <3>2
  <2>2. CASE a # c
    <3>1. kids[a].total = kspend[a].again + spent(FirstRuns, Family(a)) /\ kids'[a] = kids[a]
      BY <1>0, <1>3, <1>15, <1>21, <2>2 DEF RunsFolded, FirstRuns
    <3>2. Family(a) \in SUBSET Kids /\ g[Family(a)'] = g[Family(a)] /\ Family(a)' \in SUBSET Kids
      BY <1>14, <1>19, <2>2 DEF Family
    <3> QED BY <1>17, <1>18, <3>1, <3>2
  <2> QED BY <2>1, <2>2
<1>22. RunsFolded'
  BY <1>21 DEF RunsFolded, FirstRuns
<1> QED BY <1>4, <1>6, <1>22 DEF KidsInv

\* A turn of a first run is charged to the agent and, while the records between are kept,
\* to every agent above it; one of a resume to the agent alone.
LEMMA TurnKeeps == ASSUME KidsInv, NEW x \in Kids, KidTurn(x) PROVE KidsInv'
<1> DEFINE kind == kids[x].run
           also == IF kind = "first" THEN charged(x) ELSE {}
<1>0. /\ KidTyped /\ InOrder /\ RunsFolded /\ kids[x].status # "none" /\ kind \in {"first", "again"}
      /\ Main = 0 /\ Kids \subseteq Nat \ {0}
  BY KidsAreNumbers DEF KidsInv, InOrder, KidTurn, NoKid, KidTyped, KidRecord, Main
<1>1. /\ kids' = [y \in Kids |-> IF y \in also \cup {x} THEN [kids[y] EXCEPT !.total = @ + 1] ELSE kids[y]]
      /\ kspend' = [kspend EXCEPT ![x][kind] = @ + 1]
  BY DEF KidTurn
<1> HIDE DEF also
<1>2. ASSUME NEW y \in Kids
      PROVE  /\ kids'[y] \in KidRecord /\ kids'[y].total = kids[y].total + (IF y \in also \cup {x} THEN 1 ELSE 0)
             /\ kids'[y].parent = kids[y].parent /\ kids'[y].inMap = kids[y].inMap /\ kids'[y].status = kids[y].status
             /\ y \notin also \cup {x} => kids'[y] = kids[y]
  BY <1>0, <1>1 DEF KidTyped, KidRecord
<1>3. /\ kspend' \in [Kids -> [first : Nat, again : Nat]]
      /\ \A y \in Kids \ {x} : kspend'[y] = kspend[y]
      /\ kspend'[x].first = kspend[x].first + (IF kind = "first" THEN 1 ELSE 0)
      /\ kspend'[x].again = kspend[x].again + (IF kind = "first" THEN 0 ELSE 1)
  BY <1>0, <1>1 DEF KidTyped
<1>4. KidTyped'
  BY <1>1, <1>2, <1>3 DEF KidTyped
<1>5. Upward(lineage, Parents, {}) /\ Upward(ancestors, Parents, OutOfMap) /\ Older(Parents) /\ FirstRuns \in [Kids -> Int]
  BY <1>0, LineageIs, AncestorsAre, ParentsOlder
<1>6. \A y \in also : y \in lineage[kids[x].parent] /\ kind = "first"
  <2>1. Parents[x] = kids[x].parent /\ kids[x].parent \in Kids \cup {Main}
    BY <1>0 DEF Parents, KidTyped, KidRecord
  <2>2. ancestors[kids[x].parent] \subseteq lineage[kids[x].parent]
    BY <1>5, <2>1, StopsShort
  <2> QED BY <2>2 DEF also, charged
<1>7. ASSUME NEW y \in also PROVE y \in Kids /\ kids[y].status # "none"
  <2>1. lineage[Main] = {} /\ kids[x].parent \in Kids \cup {Main} /\ y \in lineage[kids[x].parent]
    BY <1>0, <1>5, <1>6, <1>7 DEF Upward, KidTyped, KidRecord
  <2>2. kids[x].parent \in Kids /\ kids[kids[x].parent].status # "none"
    BY <1>0, <2>1 DEF InOrder
  <2>3. Parents[x] = kids[x].parent /\ y \in Kids
    <3>1. Parents[x] = kids[x].parent
      BY DEF Parents
    <3> QED BY <1>5, <2>1, <2>2, <3>1, WalksStay
  <2>4. CASE \A a \in Kids : Parents[a] # y
    <3>1. y = kids[x].parent
      BY <1>5, <2>1, <2>2, <2>3, <2>4, ChildlessAlone
    <3> QED BY <2>2, <2>3, <3>1
  <2>5. CASE \E a \in Kids : Parents[a] = y
    BY <1>0, <2>3, <2>5 DEF Parents, InOrder
  <2> QED BY <2>4, <2>5
<1>8. InOrder'
  <2>1. \A y \in Kids : kids[y].status = "none" => kids'[y] = kids[y] /\ kspend'[y] = kspend[y]
    BY <1>0, <1>2, <1>3, <1>7
  <2>2. \A a, b \in Kids : b < a /\ kids'[b].status = "none" => kids'[a].status = "none"
    BY <1>0, <1>2 DEF InOrder
  <2>3. \A y \in Kids : kids'[y].status = "none" => kids'[y] = NoKid /\ kspend'[y] = [first |-> 0, again |-> 0]
    BY <1>0, <1>2, <2>1 DEF InOrder
  <2>4. \A y \in Kids : kids'[y].parent < y /\ (kids'[y].parent \in Kids => kids'[kids'[y].parent].status # "none")
    BY <1>0, <1>2 DEF InOrder
  <2> QED BY <2>2, <2>3, <2>4 DEF InOrder
<1>9. \A a \in Kids : Family(a)' = Family(a) /\ (Complete(a)' => Complete(a))
  <2>1. Parents' = Parents /\ OutOfMap \subseteq OutOfMap'
    BY <1>2 DEF Parents, OutOfMap
  <2> QED BY <1>0, <1>4, <1>8, <2>1, FamiliesKept
<1>10. ASSUME NEW a \in Kids, Complete(a), kind = "first" PROVE x \in Family(a) <=> a \in also \cup {x}
  <2>1. Parents[x] = kids[x].parent /\ lineage[x] = {x} \cup lineage[kids[x].parent]
    BY <1>0, <1>5 DEF Upward, Parents
  <2>2. \A b \in Kids : a \in lineage[b] /\ (\E c \in Kids : Parents[c] = b) => b \notin OutOfMap
    BY <1>10 DEF Complete, Family, HasChild, Parents, OutOfMap
  <2>3. a \in lineage[kids[x].parent] => a \in ancestors[kids[x].parent]
    BY <1>5, <2>1, <2>2, Reaches
  <2> QED BY <1>6, <1>10, <2>1, <2>3 DEF Family, also, charged
<1>11. /\ FirstRuns' \in [Kids -> Int] /\ \A y \in Kids \ {x} : FirstRuns'[y] = FirstRuns[y]
       /\ FirstRuns'[x] - FirstRuns[x] = IF kind = "first" THEN 1 ELSE 0
  BY <1>0, <1>3 DEF FirstRuns, KidTyped
<1>12. ASSUME NEW S \in SUBSET Kids
       PROVE  spent(FirstRuns', S) = spent(FirstRuns, S) + (IF x \in S THEN FirstRuns'[x] - FirstRuns[x] ELSE 0) /\ spent(FirstRuns, S) \in Int
  <2>1. PICK h : h = FirstRuns'
    OBVIOUS
  <2>2. SumOf(h, S) = SumOf(FirstRuns, S) + (IF x \in S THEN h[x] - FirstRuns[x] ELSE 0) /\ SumOf(FirstRuns, S) \in Int
    <3>1. IsFiniteSet(Kids) /\ FirstRuns \in [Kids -> Int] /\ h \in [Kids -> Int] /\ \A y \in Kids \ {x} : h[y] = FirstRuns[y]
      BY <1>5, <1>11, <2>1, KidsAreNumbers
    <3> HIDE DEF kind
    <3> QED BY <3>1, SumChanges
  <2> QED BY <2>1, <2>2, SpentIs
<1>13. ASSUME NEW a \in Kids, Complete(a)' PROVE kids'[a].total = kspend'[a].again + spent(FirstRuns', Family(a)')
  <2>1. Complete(a) /\ Family(a)' = Family(a) /\ Family(a) \in SUBSET Kids
    BY <1>9, <1>13 DEF Family
  <2>2. kids[a].total = kspend[a].again + spent(FirstRuns, Family(a)) /\ kspend[a].again \in Nat
    BY <1>0, <2>1 DEF RunsFolded, FirstRuns, KidTyped
  <2>3. spent(FirstRuns', Family(a)) = spent(FirstRuns, Family(a)) + (IF x \in Family(a) /\ kind = "first" THEN 1 ELSE 0) /\ spent(FirstRuns, Family(a)) \in Int
    <3>1. /\ spent(FirstRuns', Family(a)) = spent(FirstRuns, Family(a)) + (IF x \in Family(a) THEN FirstRuns'[x] - FirstRuns[x] ELSE 0)
          /\ spent(FirstRuns, Family(a)) \in Int
      BY <1>12, <2>1
    <3>2. FirstRuns'[x] - FirstRuns[x] = IF kind = "first" THEN 1 ELSE 0
      BY <1>11
    <3> QED BY <3>1, <3>2
  <2>4. kind = "first" => (x \in Family(a) <=> a \in also \cup {x})
    BY <1>10, <2>1
  <2>5. kind # "first" => also = {}
    BY DEF also
  <2>6. kspend'[a].again = kspend[a].again + (IF a = x /\ kind # "first" THEN 1 ELSE 0)
    BY <1>0, <1>3, <2>2
  <2> QED BY <1>2, <2>1, <2>2, <2>3, <2>4, <2>5, <2>6
<1>14. RunsFolded'
  BY <1>13 DEF RunsFolded, FirstRuns
<1> QED BY <1>4, <1>8, <1>14 DEF KidsInv

\* The steps of the manager and the tools that soften.
LEMMA EndSoftens ==
  ASSUME KidsInv, NEW a \in Kids, NEW result \in {"completed", "error"}, KidEnds(a, result)
  PROVE  Softened(kids, kids') /\ kspend' = kspend
<1> DEFINE k == [kids EXCEPT ![a].run = "none", ![a].signal = FALSE,
                             ![a].status = IF kids[a].run = "first" /\ @ = "stopped" THEN @ ELSE result]
<1>1. kids \in [Kids -> KidRecord] /\ kids[a].status # "none"
  BY DEF KidsInv, KidTyped, InOrder, NoKid, KidEnds
<1>2. k \in [Kids -> KidRecord] /\ Softened(kids, k)
  <2> DEFINE r == [kids[a] EXCEPT !.run = "none", !.signal = FALSE,
                                  !.status = IF kids[a].run = "first" /\ kids[a].status = "stopped" THEN "stopped" ELSE result]
  <2>1. r \in KidRecord /\ r.parent = kids[a].parent /\ r.total = kids[a].total /\ r.inMap = kids[a].inMap /\ r.status # "none"
    BY <1>1 DEF KidRecord
  <2>2. k = [kids EXCEPT ![a] = r]
    BY <1>1
  <2> HIDE DEF k, r
  <2>3. Softened(kids, k)
    BY <1>1, <2>1, <2>2, OneSoftens
  <2> QED BY <2>3 DEF Softened
<1>3. kids' = kidAbort(k, {c \in Kids : k[c].parent = a}) /\ kspend' = kspend
  BY DEF KidEnds, abortOwnedChildren
<1> HIDE DEF k
<1> QED BY <1>2, <1>3, AbortSoftens, SoftenedTwice

LEMMA SignalSoftens ==
  ASSUME KidsInv, CallsKnown, NEW w \in kcalls, SignalReaches(w)
  PROVE  Softened(kids, kids') /\ kspend' = kspend
<1>1. kids \in [Kids -> KidRecord] /\ w.on \in Kids /\ kids[w.on].status # "none"
  BY DEF KidsInv, KidTyped, CallsKnown
<1>2. kspend' = kspend /\ (kids' = kidAbort(kids, {w.on}) \/ kids' = [kids EXCEPT ![w.on].signal = TRUE] \/ kids' = kids)
  <2>1. CASE w.for = "spawn"
    BY <2>1 DEF SignalReaches
  <2>2. CASE w.for = "resume"
    BY <2>2 DEF SignalReaches
  <2>3. CASE w.for = "wait"
    BY <2>3 DEF SignalReaches
  <2> QED BY <2>1, <2>2, <2>3 DEF CallsKnown, Purposes
<1>3. Softened(kids, kidAbort(kids, {w.on}))
  BY <1>1, AbortSoftens
<1>4. Softened(kids, [kids EXCEPT ![w.on].signal = TRUE])
  <2> DEFINE r == [kids[w.on] EXCEPT !.signal = TRUE]
  <2>1. r \in KidRecord /\ r.parent = kids[w.on].parent /\ r.total = kids[w.on].total /\ r.inMap = kids[w.on].inMap /\ r.status = kids[w.on].status
    BY <1>1 DEF KidRecord
  <2>2. [kids EXCEPT ![w.on].signal = TRUE] = [kids EXCEPT ![w.on] = r]
    BY <1>1
  <2> HIDE DEF r
  <2> QED BY <1>1, <2>1, <2>2, OneSoftens
<1>5. Softened(kids, kids)
  BY <1>1 DEF Softened
<1> QED BY <1>2, <1>3, <1>4, <1>5

LEMMA ResumeSoftens ==
  ASSUME KidsInv, NEW p \in Kids, NEW c \in Kids, NestedResume(p, c)
  PROVE  Softened(kids, kids') /\ kspend' = kspend
<1>1. kids \in [Kids -> KidRecord] /\ kids[c].status # "none" /\ kspend' = kspend
  BY DEF KidsInv, KidTyped, InOrder, NoKid, NestedResume
<1>2. CASE kids[c].run = "none"
  <2>1. kids' = [kids EXCEPT ![c].status = "running", ![c].run = "again"]
    BY <1>2 DEF NestedResume
  <2> QED BY <1>1, <2>1 DEF Softened, KidRecord
<1>3. CASE kids[c].run # "none"
  <2> DEFINE k == [kids EXCEPT ![c].status = "error"]
  <2>1. kids' = kidAbort(k, {x \in Kids : k[x].parent = c})
    BY <1>3 DEF NestedResume, abortOwnedChildren
  <2>2. k \in [Kids -> KidRecord] /\ Softened(kids, k)
    BY <1>1 DEF Softened, KidRecord
  <2> HIDE DEF k
  <2> QED BY <1>1, <2>1, <2>2, AbortSoftens, SoftenedTwice
<1> QED BY <1>2, <1>3

LEMMA KidsStep == ASSUME KidsInv, CallsKnown, [KidsNext]_kidvars PROVE KidsInv' /\ CallsKnown'
<1>0. kids \in [Kids -> KidRecord] /\ \A a \in Kids : kids[a].status = "none" => kids[a] = NoKid
  BY DEF KidsInv, KidTyped, InOrder
<1>1. ASSUME Softened(kids, kids'), kspend' = kspend,
             \A w \in kcalls' : w \in kcalls \/ (w.on \in Kids /\ kids[w.on].status # "none" /\ w.for \in Purposes)
      PROVE  KidsInv' /\ CallsKnown'
  <2>1. \A a \in Kids : kids[a].status # "none" => kids'[a].status # "none"
    BY <1>1 DEF Softened
  <2> QED BY <1>1, <2>1, SoftenedKeeps DEF CallsKnown
<1>2. ASSUME NEW p \in Kids \cup {Main}, p \in Kids => kids[p].status # "none", NEW c \in Kids, Unused(c),
             kids' = [kids EXCEPT ![c] = Child(p)], kspend' = kspend, \A w \in kcalls' : w \in kcalls \/ (w.on = c /\ w.for \in Purposes)
      PROVE  KidsInv' /\ CallsKnown'
  <2>1. KidsInv'
    BY <1>2, ChildKeeps
  <2>2. kids'[c].status = "running" /\ \A a \in Kids \ {c} : kids'[a] = kids[a]
    BY <1>0, <1>2 DEF Child, NoKid
  <2> QED BY <1>2, <2>1, <2>2 DEF CallsKnown
<1>3. ASSUME NEW a \in Kids, StartTop(a) PROVE KidsInv' /\ CallsKnown'
  <2>1. Main \notin Kids
    BY KidsAreNumbers DEF Main
  <2>2. Unused(a) /\ kids' = [kids EXCEPT ![a] = Child(Main)] /\ kspend' = kspend /\ kcalls' = kcalls
    BY <1>3 DEF StartTop
  <2> QED BY <1>2, <2>1, <2>2
<1>4. ASSUME NEW a \in Kids, KidSession(a) PROVE KidsInv' /\ CallsKnown'
  <2>1. Softened(kids, kids')
    <3> DEFINE r == [kids[a] EXCEPT !.session = TRUE, !.steers = 0]
    <3>1. kids[a].status # "none" /\ kids[a] \in KidRecord
      BY <1>0, <1>4 DEF KidSession, NoKid
    <3>2. r \in KidRecord /\ r.parent = kids[a].parent /\ r.total = kids[a].total /\ r.inMap = kids[a].inMap /\ r.status = kids[a].status
      BY <3>1 DEF KidRecord
    <3>3. kids' = [kids EXCEPT ![a] = r]
      BY <1>0, <1>4 DEF KidSession
    <3> HIDE DEF r
    <3> QED BY <1>0, <3>1, <3>2, <3>3, OneSoftens
  <2> QED BY <1>1, <1>4, <2>1 DEF KidSession
<1>5. ASSUME NEW a \in Kids, KidTurn(a) PROVE KidsInv' /\ CallsKnown'
  <2>1. KidsInv'
    BY <1>5, TurnKeeps
  <2>2. \A b \in Kids : kids'[b].status = kids[b].status
    BY <1>0, <1>5 DEF KidTurn, KidRecord
  <2> QED BY <1>5, <2>1, <2>2 DEF CallsKnown, KidTurn
<1>6. ASSUME NEW a \in Kids, StopTop(a) PROVE KidsInv' /\ CallsKnown'
  <2>1. Softened(kids, kids')
    BY <1>0, <1>6, AbortSoftens DEF StopTop
  <2> QED BY <1>1, <1>6, <2>1 DEF StopTop
<1>7. ASSUME NEW a \in Kids, KidEvicted(a) PROVE KidsInv' /\ CallsKnown'
  <2>1. Softened(kids, kids')
    <3> DEFINE r == [kids[a] EXCEPT !.inMap = FALSE, !.session = FALSE]
    <3>1. kids[a].status # "none" /\ kids[a] \in KidRecord
      BY <1>0, <1>7 DEF KidEvicted, NoKid
    <3>2. r \in KidRecord /\ r.parent = kids[a].parent /\ r.total = kids[a].total /\ r.inMap = FALSE /\ r.status = kids[a].status
      BY <3>1 DEF KidRecord
    <3>3. kids' = [kids EXCEPT ![a] = r]
      BY <1>0, <1>7 DEF KidEvicted
    <3> HIDE DEF r
    <3> QED BY <1>0, <3>1, <3>2, <3>3, OneSoftens
  <2> QED BY <1>1, <1>7, <2>1 DEF KidEvicted
<1>8. ASSUME NEW a \in Kids, NEW result \in {"completed", "error"}, KidEnds(a, result) PROVE KidsInv' /\ CallsKnown'
  <2>1. Softened(kids, kids') /\ kspend' = kspend
    BY <1>8, EndSoftens
  <2>2. kcalls' \subseteq kcalls
    BY <1>8 DEF KidEnds
  <2> QED BY <1>1, <2>1, <2>2
<1>9. ASSUME NEW w \in kcalls, SignalReaches(w) PROVE KidsInv' /\ CallsKnown'
  <2>1. Softened(kids, kids') /\ kspend' = kspend
    BY <1>9, SignalSoftens
  <2>2. kcalls' \subseteq kcalls
    BY <1>9 DEF SignalReaches
  <2> QED BY <1>1, <2>1, <2>2
<1>10. ASSUME NEW p \in Kids, NEW c \in Kids, NestedResume(p, c) PROVE KidsInv' /\ CallsKnown'
  <2>1. Softened(kids, kids') /\ kspend' = kspend
    BY <1>10, ResumeSoftens
  <2>2. kids[c].status # "none"
    BY <1>0, <1>10 DEF NestedResume, NoKid
  <2>3. kcalls' = kcalls \/ kcalls' = kcalls \cup {[by |-> p, on |-> c, for |-> "resume"]}
    BY <1>10 DEF NestedResume
  <2> QED BY <1>1, <2>1, <2>2, <2>3 DEF Purposes
<1>11. ASSUME NEW p \in Kids, NEW c \in Kids, NestedWait(p, c) PROVE KidsInv' /\ CallsKnown'
  <2>1. Softened(kids, kids')
    BY <1>0, <1>11 DEF NestedWait, Softened
  <2>2. kcalls' = kcalls \cup {[by |-> p, on |-> c, for |-> "wait"]} /\ kids[c].status # "none" /\ kspend' = kspend
    BY <1>11 DEF NestedWait
  <2> QED BY <1>1, <2>1, <2>2 DEF Purposes
<1>12. ASSUME NEW p \in Kids, NEW c \in Kids, NestedSteer(p, c) PROVE KidsInv' /\ CallsKnown'
  <2>1. Softened(kids, kids')
    BY <1>0, <1>12 DEF NestedSteer, Softened, KidRecord
  <2> QED BY <1>1, <1>12, <2>1 DEF NestedSteer
<1>13. ASSUME NEW p \in Kids, NEW c \in Kids, NEW ty, NEW enabled, NEW background \in BOOLEAN,
              NestedAgent(p, c, ty, enabled, background)
       PROVE  KidsInv' /\ CallsKnown'
  <2>1. kids[p].status # "none" /\ Unused(c) /\ kids' = [kids EXCEPT ![c] = Child(p)] /\ kspend' = kspend
    BY <1>0, <1>13 DEF NestedAgent, HasTools, NoKid
  <2>2. kcalls' = kcalls \/ kcalls' = kcalls \cup {[by |-> p, on |-> c, for |-> "spawn"]}
    BY <1>13 DEF NestedAgent
  <2>3. \A w \in kcalls' : w \in kcalls \/ (w.on = c /\ w.for \in Purposes)
    BY <2>2 DEF Purposes
  <2>4. p \in Kids \cup {Main}
    OBVIOUS
  <2> QED BY <1>2, <2>1, <2>3, <2>4
<1>14. CASE UNCHANGED kidvars
  <2>1. Softened(kids, kids')
    BY <1>0, <1>14 DEF kidvars, Softened
  <2> QED BY <1>1, <1>14, <2>1 DEF kidvars
<1> QED BY <1>3, <1>4, <1>5, <1>6, <1>7, <1>8, <1>9, <1>10, <1>11, <1>12, <1>13, <1>14 DEF KidsNext

\* Spend reaches every ancestor once: while the records between them are kept, the record
\* of an agent carries what it and its descendants spent in the runs they were spawned
\* for, at any depth (the callback of onAssistantUsage).
THEOREM SpendReachesAncestors == KidsSpec => []RunsFolded
<1>1. KidsInit => KidsInv /\ CallsKnown
  <2> SUFFICES ASSUME KidsInit PROVE KidsInv /\ CallsKnown
    OBVIOUS
  <2>1. \A a \in Kids : kids[a] = NoKid /\ kspend[a] = [first |-> 0, again |-> 0]
    BY DEF KidsInit
  <2>2. NoKid \in KidRecord /\ NoKid.parent = 0 /\ NoKid.total = 0 /\ NoKid.status = "none" /\ Main = 0
    BY DEF NoKid, KidRecord, Main
  <2>3. KidTyped
    BY <2>1, <2>2 DEF KidsInit, KidTyped
  <2>4. InOrder
    BY <2>1, <2>2, KidsAreNumbers DEF InOrder
  <2>5. FirstRuns \in [Kids -> Int] /\ \A b \in Kids : FirstRuns[b] = 0
    BY <2>1 DEF FirstRuns
  <2>6. \A S \in SUBSET Kids : spent(FirstRuns, S) = 0
    <3> SUFFICES ASSUME NEW S \in SUBSET Kids PROVE spent(FirstRuns, S) = 0
      OBVIOUS
    <3>1. SumOf(FirstRuns, S) = 0
      BY <2>5, KidsAreNumbers, SumOfZeros
    <3> QED BY <3>1, SpentIs
  <2>7. RunsFolded
    BY <2>1, <2>2, <2>6 DEF RunsFolded, FirstRuns, Family
  <2> QED BY <2>3, <2>4, <2>7 DEF KidsInv, CallsKnown, KidsInit
<1>2. KidsInv /\ CallsKnown /\ [KidsNext]_kidvars => (KidsInv /\ CallsKnown)'
  BY KidsStep
<1>3. KidsInv => RunsFolded
  BY DEF KidsInv
<1> QED BY <1>1, <1>2, <1>3, PTL DEF KidsSpec
=============================================================================
