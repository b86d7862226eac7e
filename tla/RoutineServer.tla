---------------------------- MODULE RoutineServer ----------------------------
(***************************************************************************)
(* pi-routines: the API server (server.ts) and its token store             *)
(* (tokens.ts), for one routine with an api trigger.  Starting and         *)
(* stopping await the socket; a request awaits its token's check and its   *)
(* body, and the server, the token and the routine may change meanwhile.   *)
(* /routine-server start takes any port; 0, "any free port", is one that   *)
(* turns out to be free.                                                   *)
(***************************************************************************)
EXTENDS Integers, Sequences, FiniteSets

CONSTANTS
  Calls,      \* calls of startServer: the command, and session_start after a reload
  Ports,      \* ports a server may be asked to listen on
  Requests,   \* HTTP requests
  Capacity,   \* RATE_LIMIT_CAPACITY
  MaxTokens   \* bound: tokens ever generated, mutations waiting

ASSUME ServerAssumption == Capacity \in Nat \ {0} /\ MaxTokens \in Nat
                    /\ "none" \notin Calls /\ "none" \notin Ports

NoServer == "none"
NoPort == "none"

VARIABLES
  active, closing,  \* the server in use, the one being closed
  bound,            \* servers with a socket that listens
  desired,          \* desiredPort
  call,             \* stage of each startServer
  port,             \* the port each was asked for
  clashed,          \* history: a start began while one for another port was under way
  cache, file,      \* the token in memory and on disk: 0 for none, -1 for not loaded
  chain,            \* token mutations waiting on mutationChain, the head in progress
  last,             \* tokens generated so far
  replaced,         \* tokens whose replacement or removal has returned
  req,              \* each request: stage, token and whether it was replaced on arrival
  rate,             \* fires counted in the rate window
  stored, quiet,    \* the routine is in the store; it is paused
  queued            \* requests whose fire was queued

svars == <<active, closing, bound, desired, call, port, clashed, cache, file, chain, last,
           replaced, req, rate, stored, quiet, queued>>
serverVars == <<active, closing, bound, desired, call, port, clashed>>
tokenVars == <<cache, file, chain, last, replaced>>

ServerInit ==
  /\ active = NoServer /\ closing = NoServer /\ bound = {} /\ desired = NoPort
  /\ call = [c \in Calls |-> "none"] /\ port = [c \in Calls |-> NoPort] /\ clashed = FALSE
  /\ cache = -1 /\ file \in {0, 1} /\ chain = <<>> /\ last = file /\ replaced = {}
  /\ req = [q \in Requests |-> [stage |-> "none", token |-> 0, old |-> FALSE]]
  /\ rate \in 0..Capacity /\ stored = TRUE /\ quiet = FALSE /\ queued = {}

-----------------------------------------------------------------------------
(* startServer: at once when a server is active, after the one being       *)
(* closed otherwise.  Past these awaits it looks at neither again.         *)
UnderWay == {c \in Calls : call[c] \in {"wait", "check", "listen"}}

startServer(c, p) ==
  /\ call[c] = "none"
  /\ call' = [call EXCEPT ![c] = IF active # NoServer THEN "done"
                                 ELSE IF closing # NoServer THEN "wait" ELSE "check"]
  /\ port' = [port EXCEPT ![c] = p]
  /\ clashed' = (clashed \/ (active = NoServer /\ \E d \in UnderWay : port[d] # p))
  /\ UNCHANGED <<active, closing, bound, desired, tokenVars, req, rate, stored, quiet, queued>>

(* session_start after a reload, and /routine-server start.                *)
restartServerIfConfigured(c) == desired # NoPort /\ startServer(c, desired)
StartCommand(c, p) == active = NoServer /\ startServer(c, p)

(* assertTokenStoreSafe, then listen; both may fail.                       *)
TokenStoreChecked(c, safe) ==
  /\ call[c] = "check"
  /\ call' = [call EXCEPT ![c] = IF safe THEN "listen" ELSE "failed"]
  /\ UNCHANGED <<active, closing, bound, desired, port, clashed, tokenVars, req, rate, stored,
                 quiet, queued>>

(* free: no other process holds the port.                                  *)
Listening(c, free) ==
  /\ call[c] = "listen"
  /\ IF free /\ \A s \in bound : port[s] # port[c]
     THEN /\ bound' = bound \cup {c} /\ active' = c /\ desired' = port[c] /\ rate' = 0
          /\ call' = [call EXCEPT ![c] = "done"]
     ELSE /\ call' = [call EXCEPT ![c] = "failed"]
          /\ UNCHANGED <<bound, active, desired, rate>>
  /\ UNCHANGED <<closing, port, clashed, tokenVars, req, stored, quiet, queued>>

stopServer(preserveIntent) ==
  /\ desired' = IF preserveIntent THEN desired ELSE NoPort
  /\ IF closing = NoServer /\ active # NoServer
     THEN closing' = active /\ active' = NoServer
     ELSE UNCHANGED <<closing, active>>
  /\ UNCHANGED <<bound, call, port, clashed, tokenVars, req, rate, stored, quiet, queued>>

(* /routine-server stop, and the cleanup of the instance a reload replaces.*)
StopCommand == active # NoServer /\ stopServer(FALSE)
Cleanup == stopServer(TRUE)

Closed ==
  /\ closing # NoServer
  /\ bound' = bound \ {closing} /\ closing' = NoServer
  /\ call' = [c \in Calls |-> IF call[c] = "wait" THEN "check" ELSE call[c]]
  /\ UNCHANGED <<active, desired, port, clashed, tokenVars, req, rate, stored, quiet, queued>>

-----------------------------------------------------------------------------
(* Tokens: mutations run one after the other on mutationChain; each loads, *)
(* changes a copy, writes it and only then replaces the cache.             *)
Mutate(token) ==
  /\ chain' = Append(chain, token)
  /\ UNCHANGED <<serverVars, cache, file, replaced, req, rate, quiet, queued>>

(* /routine-token generate, rotate and revoke.                             *)
TokenCommand(revoke) ==
  /\ stored /\ UNCHANGED stored
  /\ IF revoke THEN Len(chain) < MaxTokens /\ UNCHANGED last /\ Mutate(0)
     ELSE last < MaxTokens /\ last' = last + 1 /\ Mutate(last + 1)

\* Mutant: the cache keeps the tokens it had.
saveTokensUncached(ok) ==
  LET old == IF cache = -1 THEN file ELSE cache
      new == Head(chain)
  IN
  /\ chain # <<>>
  /\ chain' = Tail(chain)
  /\ IF ok THEN file' = new /\ cache' = old /\ replaced' = replaced \cup ({old} \ {0, new})
     ELSE file' \in {file, new} /\ cache' \in {cache, old} /\ UNCHANGED replaced
  /\ UNCHANGED <<serverVars, last, req, rate, stored, quiet, queued>>

(* deleteRoutine removes the routine, saves, and revokes its token.        *)
deleteAndRevoke ==
  /\ stored /\ stored' = FALSE /\ UNCHANGED last /\ Mutate(0)

\* It may fail before the load, before the rename and after it.
saveTokens(ok) ==
  LET old == IF cache = -1 THEN file ELSE cache
      new == Head(chain)
  IN
  /\ chain # <<>>
  /\ chain' = Tail(chain)
  /\ IF ok THEN file' = new /\ cache' = new /\ replaced' = replaced \cup ({old} \ {0, new})
     ELSE file' \in {file, new} /\ cache' \in {cache, old} /\ UNCHANGED replaced
  /\ UNCHANGED <<serverVars, last, req, rate, stored, quiet, queued>>

PauseRoutine ==
  /\ stored /\ quiet' = ~quiet
  /\ UNCHANGED <<serverVars, tokenVars, req, rate, stored, queued>>

-----------------------------------------------------------------------------
Answer(q, status) == req' = [req EXCEPT ![q].stage = status]

(* handleRequest up to `await verifyToken`, on the socket of server s: 503 *)
(* when no server is in use, 403 when the Host header names another port   *)
(* than that of the one in use (bare: it names none).                      *)
Arrive(q, token, s, bare) ==
  /\ req[q].stage = "none" /\ s \in bound
  /\ req' = [req EXCEPT ![q] = [stage |-> CASE active = NoServer -> "503"
                                            [] active # NoServer /\ ~bare
                                                 /\ port[s] # port[active] -> "403"
                                            [] OTHER -> IF stored THEN "verify" ELSE "401",
                                token |-> token, old |-> token \in replaced]]
  /\ UNCHANGED <<serverVars, tokenVars, rate, stored, quiet, queued>>

(* Past it: token, pause, rate limit. A server stopped meanwhile makes     *)
(* isRateLimited throw: 500.                                               *)
TokenVerified(q) ==
  LET current == IF cache = -1 THEN file ELSE cache
      status == IF req[q].token # current THEN "401"
                ELSE IF quiet THEN "423"
                ELSE IF active = NoServer THEN "500"
                ELSE IF rate >= Capacity THEN "429" ELSE "body"
  IN
  /\ req[q].stage = "verify"
  /\ Answer(q, status)
  /\ rate' = IF status = "body" THEN rate + 1 ELSE rate
  /\ cache' = current
  /\ UNCHANGED <<serverVars, file, chain, last, replaced, stored, quiet, queued>>

\* A token file wider than 0600 is not read: handleRequest throws.
LoadRefused(q) ==
  /\ req[q].stage = "verify" /\ cache = -1
  /\ Answer(q, "500")
  /\ UNCHANGED <<serverVars, tokenVars, rate, stored, quiet, queued>>

(* The body is read, or is refused: malformed and, with the same effect,   *)
(* too large or late (413, 408); enqueueFireRequest looks the routine up   *)
(* again.                                                                  *)
BodyRead(q, status) ==
  /\ req[q].stage = "body"
  /\ Answer(q, status)
  /\ queued' = IF status = "202" /\ stored /\ ~quiet THEN queued \cup {q} ELSE queued
  /\ UNCHANGED <<serverVars, tokenVars, rate, stored, quiet>>

RateWindowPasses ==
  /\ rate > 0 /\ rate' = rate - 1
  /\ UNCHANGED <<serverVars, tokenVars, req, stored, quiet, queued>>

ServerNext ==
  \/ \E c \in Calls, p \in Ports : StartCommand(c, p)
  \/ \E c \in Calls : restartServerIfConfigured(c)
  \/ \E c \in Calls, safe \in BOOLEAN : TokenStoreChecked(c, safe)
  \/ \E c \in Calls, free \in BOOLEAN : Listening(c, free)
  \/ StopCommand \/ Cleanup
  \/ \E revoke \in BOOLEAN : TokenCommand(revoke)
  \/ Closed \/ deleteAndRevoke \/ PauseRoutine \/ RateWindowPasses
  \/ \E ok \in BOOLEAN : saveTokens(ok)
  \/ \E q \in Requests, token \in 1..MaxTokens, s \in Calls, bare \in BOOLEAN :
       Arrive(q, token, s, bare)
  \/ \E q \in Requests : TokenVerified(q) \/ LoadRefused(q)
  \/ \E q \in Requests, status \in {"202", "400"} : BodyRead(q, status)

ServerSpec == ServerInit /\ [][ServerNext]_svars

-----------------------------------------------------------------------------
(* The server in use listens, is not the one being closed, and no two      *)
(* servers share a port.  Starts that overlap keep stopServer's reach over *)
(* every socket, one server at a time, unless they are for different ports *)
(* (startServer takes no second look at active).                           *)
ServerBound ==
  /\ active # NoServer => active \in bound /\ active # closing
  /\ closing # NoServer => closing \in bound
  /\ \A s, t \in bound : s # t => port[s] # port[t]
  /\ ~clashed => bound = {active, closing} \ {NoServer} /\ NoServer \in {active, closing}

(* The singleton of server.ts and the cleanup of a reload reach every      *)
(* server.  Not kept: a start that listens while another server has become *)
(* active takes its place, and the socket of the other stays open.         *)
SocketsReachable == bound \subseteq {active, closing}

(* A token that was rotated or revoked before the request came never fires *)
(* the routine, although checks read a cache that mutations replace late.  *)
OldTokenRefused == \A q \in Requests : req[q].stage = "202" => ~req[q].old

(* The servers hold the sockets the code knows of, and the routine stays   *)
(* closed to an old token (startServer, stopServer, mutateTokens).         *)
ServerSound == ServerBound /\ OldTokenRefused
==============================================================================
