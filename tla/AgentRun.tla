------------------------------ MODULE AgentRun ------------------------------
(***************************************************************************)
(* pi-subagents/src/agent-runner.ts: one agent's session.  runAgent sets   *)
(* it up over several awaits, gives it its tools and prompts it; the       *)
(* agent's extensions register tools of their own at any time; turns are   *)
(* counted; the answer and the error come from the messages of this        *)
(* invocation alone, also when the session is resumed.                     *)
(***************************************************************************)
EXTENDS Naturals, Sequences, FiniteSets, SequencesExt

CONSTANTS
  Builtins,       \* BUILTIN_TOOL_NAMES
  Orchestration,  \* EXCLUDED_TOOL_NAMES, which the nested tools are named after
  ToolsOf,        \* the tools each extension may register
  AgentConfigs,   \* agents' definitions
  TurnLimits,     \* max_turns; 0 for none
  GraceTurns,
  MaxMessages     \* bound: assistant messages of the session

ASSUME AgentRunAssumption ==
  GraceTurns \in Nat \ {0} /\ MaxMessages \in Nat /\ Builtins \cap Orchestration = {}

Structured == "StructuredOutput"
Extensions == DOMAIN ToolsOf

VARIABLES
  config,      \* the agent's definition, with what the caller asked for
  phase,       \* where runAgent or resumeAgent is
  loaded,      \* extensions the loader kept
  registered,  \* tools the extensions have registered
  activeTools, \* the session's active tools
  turnTools,   \* the tools the current turn was given
  ran,         \* tools that were executed
  turnCount, softLimitReached, hardAborted,
  signalled,   \* the caller's AbortSignal has fired
  listening,   \* forwardAbortSignal has subscribed
  startedLate, \* a prompt was sent after the signal had fired
  messages,    \* assistant messages: the invocation they belong to, text or none, stop reason
  startLen, invocation,
  capture,     \* StructuredCapture: "none", "invalid" or "json"
  retried,     \* structuredRetried
  steers,      \* a steering message: "none", "pending" or "sent"
  answer       \* what the last invocation returned

runvars == <<config, phase, loaded, registered, activeTools, turnTools, ran, turnCount,
             softLimitReached, hardAborted, signalled, listening, startedLate, messages,
             startLen, invocation, capture, retried, steers, answer>>
toolVars == <<loaded, registered, activeTools, turnTools, ran>>
limitVars == <<turnCount, softLimitReached, hardAborted>>
talkVars == <<messages, startLen, invocation, capture, retried, answer>>

NoAnswer == [text |-> 0, status |-> "none"]

AgentRunInit ==
  /\ config \in {[c EXCEPT !.maxTurns = n] : c \in AgentConfigs, n \in TurnLimits}
  /\ phase = "new" /\ loaded = {} /\ registered = {} /\ activeTools = {} /\ turnTools = {} /\ ran = {}
  /\ turnCount = 0 /\ softLimitReached = FALSE /\ hardAborted = FALSE
  /\ signalled = FALSE /\ listening = FALSE /\ startedLate = FALSE
  /\ messages = <<>> /\ startLen = 0 /\ invocation = 0 /\ capture = "none" /\ retried = FALSE
  /\ steers = "none" /\ answer = NoAnswer

-----------------------------------------------------------------------------
(* Tools. extensionsOverride: exclude wins.                                *)
extensionsOverride ==
  IF config.noExtensions THEN {}
  ELSE {e \in Extensions : e \in config.extensions /\ e \notin config.exclude}

nestedToolNames == IF config.nested THEN Orchestration ELSE {}
structuredToolNames == IF config.schema THEN {Structured} ELSE {}
readmitToolNames == (nestedToolNames \ config.disallowed) \cup structuredToolNames

(* What the session's registry admits: an allowlist without extensions, a  *)
(* denylist with them, as their tools come later.                          *)
sessionTools ==
  ((config.tools \ Orchestration) \ config.disallowed)
    \cup (nestedToolNames \ config.disallowed) \cup structuredToolNames

sessionExcludeTools ==
  (Orchestration \ nestedToolNames) \cup (Builtins \ config.tools)
    \cup (config.disallowed \ structuredToolNames)

(* pi's registry.                                                          *)
Registry(tools) ==
  LET all == Builtins \cup tools \cup nestedToolNames \cup structuredToolNames
  IN IF config.noExtensions THEN all \cap sessionTools ELSE all \ sessionExcludeTools

(* parseExtSelectors: ext:e admits all tools of e, ext:e/t only t.         *)
Narrowed(e) == IF config.narrowing[e] = {} THEN ToolsOf[e] ELSE config.narrowing[e]
Selected == IF config.extNames = {} THEN loaded ELSE loaded \cap config.extNames

inScope ==
  LET fromExtensions == UNION {(ToolsOf[e] \cap registered \cap Narrowed(e)) \ config.disallowed : e \in Selected}
  IN (((config.tools \ config.disallowed) \cup fromExtensions) \ Orchestration) \cup readmitToolNames

renarrow == Registry(registered) \cap inScope

Renarrowed ==
  /\ activeTools' = IF config.noExtensions THEN activeTools ELSE renarrow
  /\ turnTools' = activeTools'

-----------------------------------------------------------------------------
(* The setup: environment, loader, session, extensions, each an await.     *)
SetupStep(from, to) == phase = from /\ phase' = to

detectEnv ==
  /\ SetupStep("new", "reloading") /\ invocation' = 1
  /\ UNCHANGED <<config, toolVars, limitVars, signalled, listening, startedLate, messages, startLen,
                 capture, retried, answer, steers>>

loaderReload ==
  /\ SetupStep("reloading", "creating")
  /\ loaded' = extensionsOverride
  /\ UNCHANGED <<config, registered, activeTools, turnTools, ran, limitVars, signalled, listening,
                 startedLate, talkVars, steers>>

(* pi activates its defaults; without extensions that is the allowlist.    *)
createAgentSession ==
  /\ SetupStep("creating", "binding")
  /\ activeTools' = Registry(registered)
  /\ UNCHANGED <<config, loaded, registered, turnTools, ran, limitVars, signalled, listening,
                 startedLate, talkVars, steers>>

(* The scope is installed, the record gets its session, early steers are   *)
(* passed on, the abort signal is forwarded and the prompt sent.           *)
bindExtensions ==
  /\ SetupStep("binding", "prompting") /\ Renarrowed
  /\ steers' = IF steers = "pending" THEN "sent" ELSE steers
  /\ listening' = TRUE /\ startedLate' = signalled
  /\ startLen' = Len(messages)
  /\ UNCHANGED <<config, loaded, registered, ran, limitVars, signalled, messages, invocation,
                 capture, retried, answer>>

(* An extension registers a tool, which pi may activate; in the first turn *)
(* before_agent_start still precedes the turn's snapshot of the tools.     *)
registerTool(e, t) ==
  /\ phase \in {"binding", "prompting"} /\ e \in loaded
  /\ t \in ToolsOf[e] \ registered
  /\ registered' = registered \cup {t}
  /\ LET widened == IF t \in Registry(registered') THEN activeTools \cup {t} ELSE activeTools IN
     /\ activeTools' \in {activeTools, widened}
     /\ turnTools' = IF phase = "prompting" /\ turnCount = 0 THEN activeTools' ELSE turnTools
  /\ UNCHANGED <<config, phase, loaded, ran, limitVars, signalled, listening, startedLate, talkVars, steers>>

\* Mutant: what the turn was given may be called.
beforeToolCallOpen(t) == t \in turnTools

(* Blocked unless in scope now.                                            *)
beforeToolCall(t) == config.noExtensions \/ t \in inScope

CallTool(t) ==
  /\ phase = "prompting" /\ t \in turnTools /\ beforeToolCall(t)
  /\ ran' = ran \cup {t}
  /\ \/ t = Structured /\ capture' \in (IF capture = "json" THEN {"json"} ELSE {"invalid", "json"})
     \/ t # Structured /\ UNCHANGED capture
  /\ UNCHANGED <<config, phase, loaded, registered, activeTools, turnTools, limitVars, signalled,
                 listening, startedLate, messages, startLen, invocation, retried, answer, steers>>

-----------------------------------------------------------------------------
(* Turns.  The runner's subscription counts those of runAgent only; a      *)
(* session aborted, by the limit or by the signal, has had its last.       *)
Message(stop, text) ==
  messages' = Append(messages, [of |-> invocation, text |-> text, stop |-> stop])

ending == hardAborted \/ (signalled /\ listening /\ ~startedLate)

CountTurn ==
  IF invocation > 1 THEN UNCHANGED limitVars
  ELSE /\ turnCount' = turnCount + 1
       /\ softLimitReached' = (softLimitReached \/ (config.maxTurns > 0 /\ turnCount' >= config.maxTurns))
       /\ hardAborted' = (softLimitReached /\ turnCount' >= config.maxTurns + GraceTurns)

turn_end(text) ==
  /\ phase = "prompting" /\ ~ending /\ Len(messages) < MaxMessages
  /\ Message("toolUse", text) /\ CountTurn /\ Renarrowed
  /\ UNCHANGED <<config, phase, loaded, registered, ran, signalled, listening, startedLate,
                 startLen, invocation, capture, retried, answer, steers>>

(* One more prompt when a schema was asked for and nothing came of it.     *)
structuredRetry ==
  /\ config.schema /\ invocation = 1 /\ capture # "json" /\ ~retried
  /\ ~hardAborted' /\ ~signalled

\* Mutant: the whole history is searched.
getLastAssistantTextEver(ms) == SelectLastInSeq(ms, LAMBDA m : m.text)

(* collectResponseText, and getLastAssistantText: the last text from       *)
(* startLen on, as the index of its message, or 0; finalTurnError.         *)
getLastAssistantText(ms) == SelectLastInSubSeq(ms, startLen + 1, Len(ms), LAMBDA m : m.text)

finalTurnError(ms) ==
  /\ Len(ms) > startLen
  /\ \/ Last(ms).stop = "error"
     \/ Last(ms).stop = "length" /\ ~Last(ms).text

(* The status AgentManager gives a run that was not stopped.               *)
Outcome(ms) ==
  IF hardAborted' THEN "aborted"
  ELSE IF finalTurnError(ms) \/ (config.schema /\ invocation = 1 /\ capture # "json") THEN "error"
  ELSE IF softLimitReached' /\ invocation = 1 THEN "steered" ELSE "completed"

(* session.prompt returns, after a last turn or, aborted, without one.     *)
PromptEnds(said, stop, text) ==
  /\ phase = "prompting"
  /\ IF said THEN ~ending /\ Len(messages) < MaxMessages /\ Message(stop, text) /\ CountTurn /\ Renarrowed
     ELSE ending /\ UNCHANGED <<messages, limitVars, activeTools, turnTools>>
  /\ IF structuredRetry
     THEN /\ retried' = TRUE
          /\ UNCHANGED <<phase, listening, answer>>
     ELSE /\ phase' = "idle" /\ listening' = FALSE
          /\ answer' = [text |-> getLastAssistantText(messages'), status |-> Outcome(messages')]
          /\ UNCHANGED retried
  /\ UNCHANGED <<config, loaded, registered, ran, signalled, startedLate, startLen, invocation, capture, steers>>

(* resumeAgent.                                                            *)
resumeAgent ==
  /\ phase = "idle" /\ phase' = "prompting"
  /\ invocation' = invocation + 1 /\ startLen' = Len(messages)
  /\ turnTools' = activeTools
  /\ signalled' = FALSE /\ listening' = TRUE /\ startedLate' = FALSE /\ hardAborted' = FALSE
  /\ invocation < 2
  /\ UNCHANGED <<config, loaded, registered, activeTools, ran, turnCount, softLimitReached,
                 messages, capture, retried, answer, steers>>

(* AgentManager.abort; steer_subagent, before or after there is a session. *)
Signal ==
  /\ phase # "idle" /\ ~signalled /\ signalled' = TRUE
  /\ UNCHANGED <<config, phase, toolVars, limitVars, listening, startedLate, talkVars, steers>>

steerAgent ==
  /\ steers = "none" /\ phase # "idle"
  /\ steers' = IF phase = "prompting" THEN "sent" ELSE "pending"
  /\ UNCHANGED <<config, phase, toolVars, limitVars, signalled, listening, startedLate, talkVars>>

AgentRunNext ==
  \/ detectEnv \/ loaderReload \/ createAgentSession \/ bindExtensions
  \/ \E e \in Extensions : \E t \in ToolsOf[e] : registerTool(e, t)
  \/ \E t \in turnTools : CallTool(t)
  \/ \E text \in BOOLEAN : turn_end(text)
  \/ \E stop \in {"stop", "error", "length"}, text \in BOOLEAN : PromptEnds(TRUE, stop, text)
  \/ PromptEnds(FALSE, "stop", FALSE)
  \/ resumeAgent \/ Signal \/ steerAgent

AgentRunSpec == AgentRunInit /\ [][AgentRunNext]_runvars

-----------------------------------------------------------------------------
(* No agent ever runs a tool its definition denies it: not one of          *)
(* disallowed_tools, not one that starts agents unless it was granted, not *)
(* a built-in it did not ask for, and a tool of an extension, however late *)
(* it was registered, only if `tools' names it or an extension brings it   *)
(* that is neither excluded nor left out by the ext: selectors.            *)
ScopeRespected ==
  \A t \in ran \ structuredToolNames :
    /\ t \notin config.disallowed
    /\ t \in Orchestration => config.nested
    /\ t \in Builtins => t \in config.tools
    /\ \/ t \in Orchestration \cup config.tools
       \/ \E e \in Extensions :
            /\ t \in ToolsOf[e] /\ e \in config.extensions /\ e \notin config.exclude /\ ~config.noExtensions
            /\ config.extNames # {} => e \in config.extNames
            /\ config.narrowing[e] # {} => t \in config.narrowing[e]

(* The answer of a resumed session is of this invocation, never the        *)
(* previous one's, also when the new one ends without a word.              *)
OwnAnswer ==
  phase = "idle" /\ answer.text # 0 => messages[answer.text].of = invocation

(* An agent that is stopped is not given its prompt.  Not kept: an abort   *)
(* during the setup is not looked at again (forwardAbortSignal).           *)
AbortHeeded == ~startedLate
=============================================================================
