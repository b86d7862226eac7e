---------------------------- MODULE RoutineProofs ---------------------------
(***************************************************************************)
(* Proofs about pi-routines: the API server with its tokens, for any       *)
(* number of starts, requests and tokens; the timers and polls of a        *)
(* trigger, for any number of updates, timeouts and GitHub events; and the *)
(* life of a fire, for any number of routines, fires, sessions, reloads    *)
(* and crashes.                                                            *)
(***************************************************************************)
EXTENDS RoutineServer, RoutineTimers, RoutineFires, FoldLemmas

-----------------------------------------------------------------------------
(* The sockets: who listens while servers start, close and overtake each   *)
(* other.                                                                  *)

Stages == {"none", "wait", "check", "listen", "failed", "done"}
PortsTypeOK ==
  /\ call \in [Calls -> Stages] /\ port \in [Calls -> Ports \cup {NoPort}]
  /\ active \in Calls \cup {NoServer} /\ closing \in Calls \cup {NoServer} /\ bound \subseteq Calls

\* Only a start that has returned has a socket, and only a server that closes is waited for.
SocketsHeld ==
  /\ active # NoServer => active \in bound /\ active # closing
  /\ closing # NoServer => closing \in bound
  /\ \A s, t \in bound : s # t => port[s] # port[t]
  /\ \A s \in bound : call[s] = "done"

\* Starts under way ask for one port, that of the server which is in use or closes.
OnePort ==
  /\ bound = {active, closing} \ {NoServer} /\ NoServer \in {active, closing}
  /\ \A c, d \in UnderWay : port[c] = port[d]
  /\ active # NoServer => \A c \in UnderWay : port[c] = port[active]
  /\ closing # NoServer => \A c \in UnderWay : call[c] # "wait" => port[c] = port[closing]

PortInv == PortsTypeOK /\ SocketsHeld /\ (~clashed => OnePort)

\* A start begins: it returns at once, waits for the closing server, or goes ahead.
LEMMA StartPort ==
  ASSUME PortInv, NEW c \in Calls, NEW p \in Ports \cup {NoPort}, startServer(c, p)
  PROVE  PortInv'
<1> DEFINE stage == IF active # NoServer THEN "done" ELSE IF closing # NoServer THEN "wait" ELSE "check"
<1>1. /\ call[c] = "none" /\ call' = [call EXCEPT ![c] = stage] /\ port' = [port EXCEPT ![c] = p]
      /\ clashed' = (clashed \/ (active = NoServer /\ \E d \in UnderWay : port[d] # p))
      /\ UNCHANGED <<active, closing, bound>>
  BY DEF startServer
<1>2. /\ call'[c] = stage /\ port'[c] = p /\ c \notin bound
      /\ \A d \in Calls : d # c => call'[d] = call[d] /\ port'[d] = port[d]
  BY <1>1 DEF PortInv, PortsTypeOK, SocketsHeld
<1>3. PortsTypeOK'
  BY <1>1 DEF PortInv, PortsTypeOK, Stages
<1>4. SocketsHeld'
  BY <1>1, <1>2 DEF PortInv, PortsTypeOK, SocketsHeld
<1>5. ASSUME ~clashed' PROVE OnePort'
  <2>1. OnePort /\ (active = NoServer => \A d \in UnderWay : port[d] = p)
    BY <1>1, <1>5 DEF PortInv
  <2>2. CASE active # NoServer
    <3>1. UnderWay' = UnderWay /\ c \notin UnderWay
      BY <1>1, <1>2, <2>2 DEF UnderWay
    <3>2. \A d \in UnderWay : d \in Calls /\ port'[d] = port[d] /\ call'[d] = call[d]
      BY <1>2, <3>1 DEF UnderWay
    <3> QED BY <1>1, <1>2, <2>1, <2>2, <3>1, <3>2 DEF OnePort, PortInv, PortsTypeOK, SocketsHeld
  <2>3. CASE active = NoServer
    <3>1. UnderWay' = UnderWay \cup {c} /\ c \notin UnderWay
      BY <1>1, <1>2, <2>3 DEF UnderWay
    <3>2. \A d \in UnderWay : d \in Calls /\ port'[d] = port[d] /\ call'[d] = call[d]
      BY <1>2, <3>1 DEF UnderWay
    <3>3. \A d \in UnderWay' : port'[d] = p
      BY <1>2, <2>1, <2>3, <3>1, <3>2
    <3>4. closing # NoServer => call'[c] = "wait" /\ port'[closing] = port[closing]
      BY <1>2, <2>3 DEF PortInv, PortsTypeOK, SocketsHeld
    <3> QED BY <1>1, <1>2, <2>1, <2>3, <3>1, <3>2, <3>3, <3>4 DEF OnePort
  <2> QED BY <2>2, <2>3
<1> QED BY <1>3, <1>4, <1>5 DEF PortInv

\* A server listens, unless its port is held: with one port asked for, nobody else does.
LEMMA ListenPort ==
  ASSUME PortInv, NEW c \in Calls, NEW free \in BOOLEAN, Listening(c, free)
  PROVE  PortInv'
<1>1. call[c] = "listen" /\ port' = port /\ clashed' = clashed /\ closing' = closing /\ c \in UnderWay
  BY DEF Listening, UnderWay
<1>2. CASE bound' = bound \cup {c} /\ active' = c /\ call' = [call EXCEPT ![c] = "done"]
           /\ \A s \in bound : port[s] # port[c]
  <2>1. c \notin bound /\ c # closing /\ c # NoServer
    BY <1>1, <1>2, ServerAssumption DEF PortInv, PortsTypeOK, SocketsHeld, NoServer
  <2>2. PortsTypeOK'
    BY <1>1, <1>2 DEF PortInv, PortsTypeOK, Stages
  <2>3. SocketsHeld'
    BY <1>1, <1>2, <2>1 DEF PortInv, PortsTypeOK, SocketsHeld
  <2>4. ASSUME ~clashed PROVE OnePort'
    <3>1. active = NoServer /\ closing = NoServer /\ bound = {}
      BY <1>1, <1>2, <2>4 DEF PortInv, OnePort, SocketsHeld
    <3>2. UnderWay' \subseteq UnderWay
      BY <1>1, <1>2 DEF UnderWay, PortInv, PortsTypeOK
    <3> QED BY <1>1, <1>2, <2>1, <2>4, <3>1, <3>2 DEF PortInv, OnePort
  <2> QED BY <1>1, <2>2, <2>3, <2>4 DEF PortInv
<1>3. CASE call' = [call EXCEPT ![c] = "failed"] /\ UNCHANGED <<bound, active>>
  <2>1. PortsTypeOK'
    BY <1>1, <1>3 DEF PortInv, PortsTypeOK, Stages
  <2>2. SocketsHeld'
    BY <1>1, <1>3 DEF PortInv, PortsTypeOK, SocketsHeld
  <2>3. UnderWay' \subseteq UnderWay /\ \A d \in UnderWay' : call'[d] = call[d]
    BY <1>1, <1>3 DEF UnderWay, PortInv, PortsTypeOK
  <2>4. ~clashed => OnePort'
    BY <1>1, <1>3, <2>3 DEF PortInv, OnePort
  <2> QED BY <1>1, <2>1, <2>2, <2>4 DEF PortInv
<1> QED BY <1>2, <1>3 DEF Listening

\* The server in use is handed to be closed, and closes.
LEMMA StopPort ==
  ASSUME PortInv, (\E preserve \in BOOLEAN : stopServer(preserve)) \/ Closed
  PROVE  PortInv'
<1>1. ASSUME NEW preserve \in BOOLEAN, stopServer(preserve) PROVE PortInv'
  <2>1. UNCHANGED <<bound, call, port, clashed>> /\ UnderWay' = UnderWay
    BY <1>1 DEF stopServer, UnderWay
  <2>2. \/ closing = NoServer /\ active # NoServer /\ closing' = active /\ active' = NoServer
        \/ UNCHANGED <<closing, active>>
    BY <1>1 DEF stopServer
  <2>3. PortsTypeOK' /\ SocketsHeld'
    BY <2>1, <2>2 DEF PortInv, PortsTypeOK, SocketsHeld
  <2>4. ~clashed => OnePort'
    BY <2>1, <2>2 DEF PortInv, OnePort
  <2> QED BY <2>1, <2>3, <2>4 DEF PortInv
<1>2. CASE Closed
  <2>1. /\ closing # NoServer /\ bound' = bound \ {closing} /\ closing' = NoServer
        /\ call' = [c \in Calls |-> IF call[c] = "wait" THEN "check" ELSE call[c]]
        /\ UNCHANGED <<active, port, clashed>>
    BY <1>2 DEF Closed
  <2>2. UnderWay' = UnderWay
    BY <2>1 DEF UnderWay
  <2>3. PortsTypeOK'
    BY <2>1 DEF PortInv, PortsTypeOK, Stages
  <2>4. SocketsHeld'
    BY <2>1 DEF PortInv, PortsTypeOK, SocketsHeld
  <2>5. ~clashed => OnePort'
    BY <2>1, <2>2 DEF PortInv, OnePort
  <2> QED BY <2>1, <2>3, <2>4, <2>5 DEF PortInv
<1> QED BY <1>1, <1>2

\* Steps that touch no server.
LEMMA PortsAside ==
  ASSUME PortInv, UNCHANGED <<active, closing, bound, call, port, clashed>> PROVE PortInv'
<1>1. UnderWay' = UnderWay
  BY DEF UnderWay
<1> QED BY <1>1 DEF PortInv, PortsTypeOK, SocketsHeld, OnePort

LEMMA CheckPort ==
  ASSUME PortInv, NEW c \in Calls, NEW safe \in BOOLEAN, TokenStoreChecked(c, safe) PROVE PortInv'
<1> DEFINE stage == IF safe THEN "listen" ELSE "failed"
<1>1. /\ call[c] = "check" /\ call' = [call EXCEPT ![c] = stage] /\ stage \in {"listen", "failed"}
      /\ UNCHANGED <<active, closing, bound, port, clashed>>
  BY DEF TokenStoreChecked
<1> HIDE DEF stage
<1>2. /\ UnderWay' \subseteq UnderWay
      /\ \A d \in UnderWay' : call'[d] = call[d] \/ (d = c /\ call[d] # "wait")
  BY <1>1 DEF UnderWay, PortInv, PortsTypeOK
<1>3. PortsTypeOK' /\ SocketsHeld'
  BY <1>1 DEF PortInv, PortsTypeOK, SocketsHeld, Stages
<1>4. ~clashed => OnePort'
  BY <1>1, <1>2 DEF PortInv, OnePort
<1> QED BY <1>1, <1>3, <1>4 DEF PortInv

\* Starts and stops, in whatever order their awaits end, keep it so.
LEMMA PortNext ==
  PortInv /\ desired \in Ports \cup {NoPort} /\ [ServerNext]_svars
    => PortInv' /\ desired' \in Ports \cup {NoPort}
<1> SUFFICES ASSUME PortInv, desired \in Ports \cup {NoPort}, [ServerNext]_svars
             PROVE  PortInv' /\ desired' \in Ports \cup {NoPort}
  OBVIOUS
<1> DEFINE Good == PortInv' /\ desired' \in Ports \cup {NoPort}
<1>1. CASE UNCHANGED serverVars
  <2>1. UNCHANGED <<active, closing, bound, desired, call, port, clashed>>
    BY <1>1 DEF serverVars
  <2> QED BY <2>1, PortsAside
<1>2. ASSUME NEW c \in Calls, NEW p \in Ports \cup {NoPort}, startServer(c, p) PROVE Good
  BY <1>2, StartPort DEF startServer
<1>3. ASSUME NEW c \in Calls, NEW free \in BOOLEAN, Listening(c, free) PROVE Good
  <2>1. desired' = port[c] \/ desired' = desired
    BY <1>3 DEF Listening
  <2> QED BY <1>3, <2>1, ListenPort DEF PortInv, PortsTypeOK
<1>4. ASSUME NEW preserve \in BOOLEAN, stopServer(preserve) PROVE Good
  <2>1. desired' = desired \/ desired' = NoPort
    BY <1>4 DEF stopServer
  <2> QED BY <1>4, <2>1, StopPort
<1>5. CASE Closed
  BY <1>5, StopPort DEF Closed
<1>6. ASSUME NEW c \in Calls, NEW safe \in BOOLEAN, TokenStoreChecked(c, safe) PROVE Good
  BY <1>6, CheckPort DEF TokenStoreChecked
<1>7. ASSUME NEW q \in Requests, NEW token \in 1..MaxTokens, NEW s \in Calls, NEW bare \in BOOLEAN,
             Arrive(q, token, s, bare)
      PROVE  Good
  BY <1>1, <1>7 DEF Arrive
<1>8. ASSUME NEW q \in Requests, TokenVerified(q) \/ LoadRefused(q) PROVE Good
  BY <1>1, <1>8 DEF TokenVerified, LoadRefused
<1>9. ASSUME NEW q \in Requests, NEW status \in {"202", "400"}, BodyRead(q, status) PROVE Good
  BY <1>1, <1>9 DEF BodyRead
<1>10. ASSUME NEW ok \in BOOLEAN, saveTokens(ok) PROVE Good
  BY <1>1, <1>10 DEF saveTokens
<1>11. ASSUME NEW token, Mutate(token) PROVE Good
  BY <1>1, <1>11 DEF Mutate
<1>12. CASE PauseRoutine \/ RateWindowPasses
  BY <1>1, <1>12 DEF PauseRoutine, RateWindowPasses
<1>13. CASE UNCHANGED svars
  BY <1>1, <1>13 DEF svars, serverVars
<1>14. CASE deleteAndRevoke \/ \E revoke \in BOOLEAN : TokenCommand(revoke)
  <2>1. \E token : Mutate(token)
    BY <1>14 DEF deleteAndRevoke, TokenCommand
  <2> QED BY <1>11, <2>1
<1>15. CASE (\E c \in Calls, p \in Ports : StartCommand(c, p)) \/ \E c \in Calls : restartServerIfConfigured(c)
  BY <1>2, <1>15 DEF restartServerIfConfigured, StartCommand
<1>16. CASE StopCommand \/ Cleanup
  BY <1>4, <1>16 DEF StopCommand, Cleanup
<1>17. ServerNext \/ UNCHANGED svars
  OBVIOUS
<1>18. Good
  <2>1. CASE \E c \in Calls, free \in BOOLEAN : Listening(c, free)
    BY <2>1, <1>3
  <2>2. CASE \E c \in Calls, safe \in BOOLEAN : TokenStoreChecked(c, safe)
    BY <2>2, <1>6
  <2>3. CASE \E q \in Requests, token \in 1..MaxTokens, s \in Calls, bare \in BOOLEAN :
               Arrive(q, token, s, bare)
    BY <2>3, <1>7
  <2>4. CASE \E q \in Requests : TokenVerified(q) \/ LoadRefused(q)
    BY <2>4, <1>8
  <2>5. CASE \E q \in Requests, status \in {"202", "400"} : BodyRead(q, status)
    BY <2>5, <1>9
  <2>6. CASE \E ok \in BOOLEAN : saveTokens(ok)
    BY <2>6, <1>10
  <2> QED BY <1>5, <1>12, <1>13, <1>14, <1>15, <1>16, <1>17, <2>1, <2>2, <2>3, <2>4, <2>5, <2>6 DEF ServerNext
<1> QED BY <1>18 DEF Good

-----------------------------------------------------------------------------
(* Tokens: each one waiting on the chain is newer than any in use or       *)
(* replaced, so the token a check compares with was never taken back.      *)

ReqType == [stage : {"none", "verify", "body", "202", "400", "401", "403", "423", "429", "500", "503"},
            token : Nat, old : BOOLEAN]

TokenTypeOK ==
  /\ cache \in Nat \cup {-1} /\ file \in Nat /\ last \in Nat
  /\ chain \in Seq(Nat) /\ replaced \subseteq Nat
  /\ req \in [Requests -> ReqType]

\* The token a request is compared with.
Current == IF cache = -1 THEN file ELSE cache

\* Nothing is newer than the last token made; what waits is newer than what is in
\* use or replaced, and in order.
TokensInOrder ==
  /\ cache <= last /\ file <= last
  /\ \A t \in replaced : t <= last /\ t # 0
  /\ \A i \in 1..Len(chain) : chain[i] # 0 =>
       /\ chain[i] <= last /\ chain[i] > cache /\ chain[i] > file
       /\ \A t \in replaced : chain[i] > t
       /\ \A j \in 1..Len(chain) : j < i => chain[i] > chain[j]

CurrentNotReplaced == Current \notin replaced

\* A request with an old token was one when it came, and is never let through.
OldStopped ==
  \A q \in Requests : req[q].old => req[q].token \in replaced /\ req[q].stage \notin {"body", "202"}

TokenInv == TokenTypeOK /\ TokensInOrder /\ CurrentNotReplaced /\ OldStopped

\* A mutation joins the chain, with a token that is new.
LEMMA MutateOrdered ==
  ASSUME TokenInv, NEW token \in Nat, Mutate(token), last' \in Nat, last' >= last,
         token # 0 => token = last' /\ last' > last
  PROVE  TokenInv'
<1>1. chain' = Append(chain, token) /\ UNCHANGED <<cache, file, replaced, req>>
  BY DEF Mutate
<1>2. /\ chain' \in Seq(Nat) /\ Len(chain') = Len(chain) + 1 /\ Len(chain) \in Nat
      /\ \A i \in 1..Len(chain') : chain'[i] = IF i = Len(chain) + 1 THEN token ELSE chain[i]
      /\ \A i \in 1..Len(chain) : chain[i] \in Nat
  BY <1>1 DEF TokenInv, TokenTypeOK
<1>3. TokenTypeOK'
  BY <1>1, <1>2 DEF TokenInv, TokenTypeOK
<1>4. TokensInOrder'
  <2>1. cache' <= last' /\ file' <= last' /\ \A t \in replaced' : t <= last' /\ t # 0
    BY <1>1 DEF TokenInv, TokenTypeOK, TokensInOrder
  <2>2. ASSUME NEW i \in 1..Len(chain'), chain'[i] # 0
        PROVE  /\ chain'[i] <= last' /\ chain'[i] > cache' /\ chain'[i] > file'
               /\ \A t \in replaced' : chain'[i] > t
               /\ \A j \in 1..Len(chain') : j < i => chain'[i] > chain'[j]
    <3>1. CASE i = Len(chain) + 1
      <4>1. chain'[i] = last' /\ last' > last
        BY <1>2, <2>2, <3>1
      <4>2. \A j \in 1..Len(chain) : chain[j] <= last
        BY <1>2, SMTT(30) DEF TokenInv, TokenTypeOK, TokensInOrder
      <4> QED BY <1>1, <1>2, <3>1, <4>1, <4>2 DEF TokenInv, TokenTypeOK, TokensInOrder
    <3>2. CASE i # Len(chain) + 1
      BY <1>1, <1>2, <2>2, <3>2 DEF TokenInv, TokenTypeOK, TokensInOrder
    <3> QED BY <3>1, <3>2
  <2> QED BY <2>1, <2>2 DEF TokensInOrder
<1>5. CurrentNotReplaced' /\ OldStopped'
  BY <1>1 DEF TokenInv, CurrentNotReplaced, Current, OldStopped
<1> QED BY <1>3, <1>4, <1>5 DEF TokenInv

\* The head of the chain takes effect, in the file, in the cache, or in neither.
LEMMA SaveOrdered ==
  ASSUME TokenInv, NEW ok \in BOOLEAN, saveTokens(ok) PROVE TokenInv'
<1> DEFINE old == IF cache = -1 THEN file ELSE cache
           new == Head(chain)
<1>1. /\ chain # <<>> /\ chain' = Tail(chain) /\ last' = last /\ req' = req
      /\ \/ file' = new /\ cache' = new /\ replaced' = replaced \cup ({old} \ {0, new})
         \/ file' \in {file, new} /\ cache' \in {cache, old} /\ replaced' = replaced
  BY DEF saveTokens
<1>2. /\ Len(chain) \in Nat /\ Len(chain) > 0 /\ new = chain[1] /\ new \in Nat /\ old \in Nat
      /\ chain' \in Seq(Nat) /\ Len(chain') = Len(chain) - 1
      /\ \A i \in 1..Len(chain') : chain'[i] = chain[i + 1] /\ i + 1 \in 1..Len(chain)
      /\ \A i \in 1..Len(chain) : chain[i] \in Nat
  BY <1>1 DEF TokenInv, TokenTypeOK
<1>3. old <= last /\ new <= last /\ old \notin replaced /\ (new # 0 => new > old)
      /\ (new # 0 => new \notin replaced) /\ 0 \notin replaced
  BY <1>2 DEF TokenInv, TokenTypeOK, TokensInOrder, CurrentNotReplaced, Current
<1>4. \A i \in 1..Len(chain') : chain'[i] # 0 =>
        /\ chain'[i] <= last /\ chain'[i] > cache /\ chain'[i] > file /\ chain'[i] > new /\ chain'[i] > old
        /\ \A t \in replaced : chain'[i] > t
        /\ \A j \in 1..Len(chain') : j < i => chain'[i] > chain'[j]
  <2> SUFFICES ASSUME NEW i \in 1..Len(chain'), chain'[i] # 0
               PROVE /\ chain'[i] <= last /\ chain'[i] > cache /\ chain'[i] > file /\ chain'[i] > new /\ chain'[i] > old
                     /\ \A t \in replaced : chain'[i] > t
                     /\ \A j \in 1..Len(chain') : j < i => chain'[i] > chain'[j]
    OBVIOUS
  <2>1. i + 1 \in 1..Len(chain) /\ chain'[i] = chain[i + 1] /\ chain[i + 1] # 0 /\ 1 \in 1..Len(chain) /\ 1 < i + 1
    BY <1>2
  <2>2. \A j \in 1..Len(chain') : j < i => j + 1 \in 1..Len(chain) /\ j + 1 < i + 1 /\ chain'[j] = chain[j + 1]
    BY <1>2
  <2> QED BY <1>2, <2>1, <2>2 DEF TokenInv, TokensInOrder
<1> HIDE DEF old, new
<1>5. TokenTypeOK'
  BY <1>1, <1>2 DEF TokenInv, TokenTypeOK
<1>6. TokensInOrder'
  BY <1>1, <1>2, <1>3, <1>4 DEF TokenInv, TokenTypeOK, TokensInOrder
<1>7. CurrentNotReplaced'
  <2>1. Current = old
    BY DEF Current, old
  <2>2. Current' \in {old, new}
    BY <1>1, <1>2, <2>1 DEF Current, old, TokenInv, TokenTypeOK
  <2> QED BY <1>1, <1>2, <1>3, <2>1, <2>2 DEF CurrentNotReplaced, Current, TokenInv, TokenTypeOK
<1>8. OldStopped'
  BY <1>1 DEF TokenInv, OldStopped
<1> QED BY <1>5, <1>6, <1>7, <1>8 DEF TokenInv

\* Steps that touch neither the tokens nor the requests.
LEMMA TokensAside == ASSUME TokenInv, UNCHANGED <<tokenVars, req>> PROVE TokenInv'
<1>1. UNCHANGED <<cache, file, chain, last, replaced, req>>
  BY DEF tokenVars
<1>2. TokenTypeOK' /\ TokensInOrder' /\ CurrentNotReplaced' /\ OldStopped'
  BY <1>1 DEF TokenInv, TokenTypeOK, TokensInOrder, CurrentNotReplaced, Current, OldStopped
<1> QED BY <1>2 DEF TokenInv

\* A request comes: what it carries is judged against the tokens replaced so far.
LEMMA ArriveOrdered ==
  ASSUME TokenInv, NEW q \in Requests, NEW token \in 1..MaxTokens, NEW server \in Calls,
         NEW bare \in BOOLEAN, Arrive(q, token, server, bare)
  PROVE  TokenInv'
<1>1. UNCHANGED <<cache, file, chain, last, replaced>>
  BY DEF Arrive, tokenVars
<1>2. PICK r \in ReqType : /\ req' = [req EXCEPT ![q] = r]
                           /\ r.old => r.token \in replaced
                           /\ r.stage \notin {"body", "202"}
  <2> DEFINE g == CASE active = NoServer -> "503"
                    [] active # NoServer /\ ~bare /\ port[server] # port[active] -> "403"
                    [] OTHER -> IF stored THEN "verify" ELSE "401"
             o == token \in replaced
             s == [stage |-> g, token |-> token, old |-> o]
  <2>1. g \in {"503", "403", "verify", "401"} /\ o \in BOOLEAN /\ token \in Nat /\ (o => token \in replaced)
    BY ServerAssumption
  <2>2. req' = [req EXCEPT ![q] = s]
    BY DEF Arrive
  <2> HIDE DEF g, o
  <2>3. s \in ReqType /\ s.old = o /\ s.token = token /\ s.stage = g
    BY <2>1 DEF ReqType
  <2> HIDE DEF s
  <2> QED BY <2>1, <2>2, <2>3
<1>3. TokenTypeOK' /\ TokensInOrder' /\ CurrentNotReplaced'
  BY <1>1, <1>2 DEF TokenInv, TokenTypeOK, TokensInOrder, CurrentNotReplaced, Current
<1>4. OldStopped'
  BY <1>1, <1>2 DEF TokenInv, TokenTypeOK, OldStopped
<1> QED BY <1>3, <1>4 DEF TokenInv

\* An answer moves a request on; one whose token was replaced goes no further.
LEMMA AnswerOrdered ==
  ASSUME TokenInv, NEW q \in Requests, NEW status, Answer(q, status),
         status \in {"none", "verify", "body", "202", "400", "401", "403", "423", "429", "500", "503"},
         req[q].old => status \notin {"body", "202"},
         UNCHANGED replaced
  PROVE  req' \in [Requests -> ReqType] /\ OldStopped'
<1>1. /\ req \in [Requests -> ReqType] /\ req[q] \in ReqType
      /\ req' = [req EXCEPT ![q] = [@ EXCEPT !.stage = status]]
  BY DEF TokenInv, TokenTypeOK, Answer
<1>2. PICK r : /\ r = [req[q] EXCEPT !.stage = status]
               /\ r \in ReqType /\ r.stage = status /\ r.old = req[q].old /\ r.token = req[q].token
  BY <1>1 DEF ReqType
<1>3. req' = [req EXCEPT ![q] = r] /\ req' \in [Requests -> ReqType]
  BY <1>1, <1>2
<1>4. OldStopped'
  BY <1>1, <1>2, <1>3 DEF TokenInv, OldStopped
<1> QED BY <1>3, <1>4

\* verifyToken lets through only the current token, and that one was never replaced.
LEMMA VerifyOrdered ==
  ASSUME TokenInv, NEW q \in Requests, TokenVerified(q) PROVE TokenInv'
<1>1. cache' = Current /\ UNCHANGED <<file, chain, last, replaced>>
  BY DEF TokenVerified, Current
<1>2. PICK status : /\ Answer(q, status) /\ status \in {"401", "423", "500", "429", "body"}
                    /\ status = "body" => req[q].token = Current
  BY DEF TokenVerified, Current
<1>3. req[q].old => status \notin {"body", "202"}
  BY <1>2 DEF TokenInv, CurrentNotReplaced, OldStopped
<1>4. req' \in [Requests -> ReqType] /\ OldStopped'
  BY <1>1, <1>2, <1>3, AnswerOrdered
<1>5. Current \in Nat /\ Current' = Current
  BY <1>1 DEF Current, TokenInv, TokenTypeOK
<1>6. TokenTypeOK'
  BY <1>1, <1>4, <1>5 DEF TokenInv, TokenTypeOK
<1>7. TokensInOrder'
  BY <1>1 DEF TokenInv, TokensInOrder, Current
<1>8. CurrentNotReplaced'
  BY <1>1, <1>5 DEF TokenInv, CurrentNotReplaced
<1> QED BY <1>4, <1>6, <1>7, <1>8 DEF TokenInv

\* A request ends, refused or with its body read.
LEMMA EndOrdered ==
  ASSUME TokenInv, NEW q \in Requests, NEW status \in {"202", "400", "500"}, Answer(q, status),
         status = "202" => req[q].stage = "body", UNCHANGED tokenVars
  PROVE  TokenInv'
<1>1. UNCHANGED <<cache, file, chain, last, replaced>>
  BY DEF tokenVars
<1>2. req[q].old => status \notin {"body", "202"}
  BY DEF TokenInv, OldStopped
<1>3. req' \in [Requests -> ReqType] /\ OldStopped'
  BY <1>1, <1>2, AnswerOrdered
<1>4. TokenTypeOK' /\ TokensInOrder' /\ CurrentNotReplaced'
  BY <1>1, <1>3 DEF TokenInv, TokenTypeOK, TokensInOrder, CurrentNotReplaced, Current
<1> QED BY <1>3, <1>4 DEF TokenInv

\* Every step keeps the tokens in order and stops the old ones.
LEMMA TokenNext == TokenInv /\ [ServerNext]_svars => TokenInv'
<1> SUFFICES ASSUME TokenInv, [ServerNext]_svars PROVE TokenInv'
  OBVIOUS
<1>1. CASE UNCHANGED <<tokenVars, req>>
  BY <1>1, TokensAside
<1>2. ASSUME NEW c \in Calls, NEW p, startServer(c, p) PROVE TokenInv'
  BY <1>1, <1>2 DEF startServer
<1>3. ASSUME NEW c \in Calls, NEW safe \in BOOLEAN, TokenStoreChecked(c, safe) PROVE TokenInv'
  BY <1>1, <1>3 DEF TokenStoreChecked
<1>4. ASSUME NEW c \in Calls, NEW free \in BOOLEAN, Listening(c, free) PROVE TokenInv'
  BY <1>1, <1>4 DEF Listening
<1>5. ASSUME NEW preserve \in BOOLEAN, stopServer(preserve) PROVE TokenInv'
  BY <1>1, <1>5 DEF stopServer
<1>6. CASE Closed \/ PauseRoutine \/ RateWindowPasses
  BY <1>1, <1>6 DEF Closed, PauseRoutine, RateWindowPasses
<1>7. ASSUME NEW revoke \in BOOLEAN, TokenCommand(revoke) PROVE TokenInv'
  <2>1. last \in Nat
    BY DEF TokenInv, TokenTypeOK
  <2>2. CASE revoke
    BY <1>7, <2>1, <2>2, MutateOrdered DEF TokenCommand
  <2>3. CASE ~revoke
    BY <1>7, <2>1, <2>3, MutateOrdered DEF TokenCommand
  <2> QED BY <2>2, <2>3
<1>8. CASE deleteAndRevoke
  <2>1. last \in Nat
    BY DEF TokenInv, TokenTypeOK
  <2> QED BY <1>8, <2>1, MutateOrdered DEF deleteAndRevoke
<1>9. ASSUME NEW ok \in BOOLEAN, saveTokens(ok) PROVE TokenInv'
  BY <1>9, SaveOrdered
<1>10. ASSUME NEW q \in Requests, NEW token \in 1..MaxTokens, NEW s \in Calls, NEW bare \in BOOLEAN,
              Arrive(q, token, s, bare)
       PROVE  TokenInv'
  BY <1>10, ArriveOrdered
<1>11. ASSUME NEW q \in Requests, TokenVerified(q) PROVE TokenInv'
  BY <1>11, VerifyOrdered
<1>12. ASSUME NEW q \in Requests, LoadRefused(q) PROVE TokenInv'
  BY <1>12, EndOrdered DEF LoadRefused
<1>13. ASSUME NEW q \in Requests, NEW status \in {"202", "400"}, BodyRead(q, status) PROVE TokenInv'
  BY <1>13, EndOrdered DEF BodyRead
<1>14. CASE UNCHANGED svars
  BY <1>1, <1>14 DEF svars, tokenVars
<1> QED BY <1>2, <1>3, <1>4, <1>5, <1>6, <1>7, <1>8, <1>9, <1>10, <1>11, <1>12, <1>13, <1>14
     DEF ServerNext, StartCommand, restartServerIfConfigured, StopCommand, Cleanup

\* The server starts closed, with at most one token on disk.
LEMMA ServerStarts == ServerInit => PortInv /\ desired \in Ports \cup {NoPort} /\ TokenInv
<1> SUFFICES ASSUME ServerInit PROVE PortInv /\ desired \in Ports \cup {NoPort} /\ TokenInv
  OBVIOUS
<1>1. PortInv /\ desired \in Ports \cup {NoPort}
  BY DEF ServerInit, PortInv, PortsTypeOK, SocketsHeld, OnePort, UnderWay, Stages
<1>2. /\ cache = -1 /\ file \in {0, 1} /\ chain = <<>> /\ last = file /\ replaced = {}
      /\ req = [q \in Requests |-> [stage |-> "none", token |-> 0, old |-> FALSE]]
  BY DEF ServerInit
<1>3. TokenTypeOK
  BY <1>2 DEF TokenTypeOK, ReqType
<1>4. TokensInOrder /\ CurrentNotReplaced /\ OldStopped
  BY <1>2 DEF TokensInOrder, CurrentNotReplaced, OldStopped, Current
<1> QED BY <1>1, <1>3, <1>4 DEF TokenInv

-----------------------------------------------------------------------------
(* However starts and stops overlap, for any ports: the server in use      *)
(* listens and is not the one being closed, no two servers share a port,   *)
(* and no socket is out of stopServer's reach unless a start began while   *)
(* one for another port was under way.  And a request that came with a     *)
(* token already rotated or revoked never fires the routine, however its   *)
(* awaits fall between the mutations.                                      *)
THEOREM TakenBackStaysClosed == ServerSpec => []ServerSound
<1> DEFINE Inv == PortInv /\ desired \in Ports \cup {NoPort} /\ TokenInv
<1>1. ServerInit => Inv
  BY ServerStarts
<1>2. Inv /\ [ServerNext]_svars => Inv'
  BY PortNext, TokenNext
<1>3. Inv => ServerSound
  BY DEF PortInv, SocketsHeld, OnePort, TokenInv, OldStopped, ServerSound, ServerBound, OldTokenRefused
<1> QED BY <1>1, <1>2, <1>3, PTL DEF ServerSpec

-----------------------------------------------------------------------------
(* Timers: a routine is edited while its timeouts and polls are under way. *)

TriggerTypes == {"pulse", "cron", "oneoff", "github", "hook"}
TimerType == [id : Nat, ver : Versions, kind : TriggerTypes]
PollType == [id : Nat, ver : Versions, page : Nat, stage : {"gh", "save"}]

\* Saves end in the order they began, so the newest version is the last to be scheduled.
TimersTypeOK ==
  /\ made \in 0..MaxVersions /\ ver \in {0, made} /\ kind \in [Versions -> TriggerTypes]
  /\ creating \subseteq 1..made /\ (creating # {} => made \in creating)
  /\ timers \subseteq TimerType /\ IsFiniteSet(timers)
  /\ polls \subseteq PollType /\ IsFiniteSet(polls)
  /\ lastId \in Nat /\ cursor \in [Versions -> Nat] /\ events \in Nat
  /\ fired \in [1..MaxEvents -> Nat]

\* A chain goes on whatever overtakes it.
GoesOn ==
  Live /\ creating = {} =>
    /\ kind[ver] = "github" => (\E t \in timers : t.kind = "github") \/ polls # {}
    /\ kind[ver] = "cron" => \E t \in timers : t.kind = "cron"
    /\ kind[ver] = "oneoff" /\ ver \notin spent => \E t \in timers : t.kind = "oneoff" /\ t.ver = ver

\* One timeout or one poll at a time, and the entry in runtime.timers leads to it.
OneChain ==
  ~overlap =>
    /\ \A t \in timers : known /\ t.id = handle
    /\ \A t, u \in timers : t = u
    /\ \A p \in polls : known /\ OnGithub /\ p.ver = ver /\ timers = {}
    /\ \A p, q \in polls : p = q

\* Once the newest version is scheduled, the chain is the one of its trigger.
ChainRight ==
  ~overlap /\ Live /\ creating = {} =>
    /\ \A t \in timers : t.kind = kind[ver] /\ t.ver = ver
    /\ kind[ver] = "cron" => timers # {}
    /\ kind[ver] = "oneoff" => (timers = {} <=> ver \in spent)
    /\ kind[ver] = "hook" => timers = {}

TInv == TimersTypeOK /\ GoesOn /\ OneChain /\ ChainRight

\* What arming adds to the pending timeouts.
LEMMA ArmedTyped ==
  ASSUME TimersTypeOK, NEW v \in Versions
  PROVE  NewTimer(v) \in TimerType /\ NewTimer(v).id = lastId + 1 /\ NewTimer(v).ver = v
         /\ NewTimer(v).kind = kind[v]
BY DEF TimersTypeOK, NewTimer, TimerType

\* A successor keeps its version and kind.
LEMMA RearmTyped ==
  ASSUME TimersTypeOK, NEW t \in timers, Rearm(t)
  PROVE  \E u \in TimerType : /\ timers' = (timers \ {t}) \cup {u} /\ u.id = lastId + 1
                              /\ u.ver = t.ver /\ u.kind = t.kind
                              /\ IsFiniteSet(timers')
<1>1. t \in TimerType
  BY DEF TimersTypeOK
<1>2. PICK u : u = [t EXCEPT !.id = lastId + 1]
  OBVIOUS
<1>3. u \in TimerType /\ u.id = lastId + 1 /\ u.ver = t.ver /\ u.kind = t.kind
  BY <1>1, <1>2, SMTT(30) DEF TimersTypeOK, TimerType
<1>4. timers' = (timers \ {t}) \cup {u}
  BY <1>2 DEF Rearm
<1>5. IsFiniteSet(timers \ {t})
  BY FS_RemoveElement DEF TimersTypeOK
<1>6. IsFiniteSet(timers')
  BY <1>4, <1>5, FS_AddElement
<1> QED BY <1>3, <1>4, <1>6

\* Clearing the entry's timeout leaves fewer.
LEMMA ClearedTyped ==
  ASSUME TimersTypeOK PROVE Cleared \subseteq timers /\ IsFiniteSet(Cleared)
<1>1. Cleared \subseteq timers
  BY DEF Cleared
<1> QED BY <1>1, FS_Subset DEF TimersTypeOK

\* scheduleRoutine, with what is left of the timeouts and what it arms.
LEMMA ScheduleTyped ==
  ASSUME TimersTypeOK, NEW v \in Versions, scheduleRoutine(v)
  PROVE  /\ timers' \subseteq TimerType /\ IsFiniteSet(timers') /\ lastId' \in Nat
         /\ timers' = Cleared \cup (IF Arms(v) THEN {NewTimer(v)} ELSE {})
<1>1. /\ timers' = Cleared \cup (IF Arms(v) THEN {NewTimer(v)} ELSE {})
      /\ lastId' = IF Arms(v) THEN lastId + 1 ELSE lastId
  BY DEF scheduleRoutine
<1>2. timers' = Cleared \/ timers' = Cleared \cup {NewTimer(v)}
  BY <1>1
<1>3. IsFiniteSet(timers')
  BY <1>2, ClearedTyped, FS_AddElement
<1>4. timers' \subseteq TimerType
  BY <1>2, ClearedTyped, ArmedTyped DEF TimersTypeOK
<1> QED BY <1>1, <1>3, <1>4 DEF TimersTypeOK

\* createRoutine: the new version waits for its save, the old timeouts are gone.
LEMMA CreateKeeps ==
  ASSUME TInv, NEW k \in TriggerKinds, createRoutine(k) PROVE TInv'
<1>1. /\ made < MaxVersions /\ made' = made + 1 /\ ver' = made + 1
      /\ kind' = [kind EXCEPT ![made + 1] = k] /\ creating' = creating \cup {made + 1}
      /\ (timers' = Cleared \/ timers' = timers) /\ (~Live => UNCHANGED <<known, handle, timers>> /\ made = 0)
      /\ (Live => unscheduleRoutine)
      /\ (~overlap' => ~overlap /\ polls = {})
      /\ UNCHANGED <<lastId, polls, cursor, events, fired, spent>>
  BY DEF createRoutine, unscheduleRoutine
<1>2. made + 1 \in Versions /\ k \in TriggerTypes
  BY <1>1, TimersAssumption DEF TInv, TimersTypeOK, Versions, TriggerTypes
<1>3. timers' \subseteq timers /\ IsFiniteSet(timers')
  BY <1>1, ClearedTyped DEF TInv, TimersTypeOK
<1>4. kind' \in [Versions -> TriggerTypes] /\ creating' \subseteq 1..made'
  BY <1>1, <1>2 DEF TInv, TimersTypeOK
<1>5. TimersTypeOK'
  BY <1>1, <1>2, <1>3, <1>4 DEF TInv, TimersTypeOK, Versions, PollType, TimerType
<1>6. OneChain'
  BY <1>1, <1>3 DEF TInv, OneChain, unscheduleRoutine, Cleared
<1>7. creating' # {}
  BY <1>1
<1> QED BY <1>5, <1>6, <1>7 DEF TInv, GoesOn, ChainRight

\* scheduleRoutine after the save: of the chain before nothing is left, and the
\* version scheduled last is the stored one.
LEMMA ScheduleKeeps ==
  ASSUME TInv, NEW v \in Versions, ScheduleCreated(v) PROVE TInv'
<1>1. /\ v \in creating /\ (\A u \in creating : v <= u) /\ creating' = creating \ {v} /\ scheduleRoutine(v)
      /\ overlap' = (overlap \/ polls # {})
      /\ UNCHANGED <<ver, made, kind, paused, spent, polls, cursor, events, fired>>
  BY DEF ScheduleCreated
<1>2. /\ timers' \subseteq TimerType /\ IsFiniteSet(timers') /\ lastId' \in Nat
      /\ timers' = Cleared \cup (IF Arms(v) THEN {NewTimer(v)} ELSE {})
  BY <1>1, ScheduleTyped DEF TInv
<1>3. NewTimer(v).id = lastId + 1 /\ NewTimer(v).ver = v /\ NewTimer(v).kind = kind[v]
  BY ArmedTyped DEF TInv
<1>4. creating' # {} => made \in creating'
  <2> SUFFICES ASSUME creating' # {}, v = made PROVE FALSE
    BY <1>1 DEF TInv, TimersTypeOK
  <2>1. PICK u \in creating : u # v
    BY <1>1
  <2>2. creating \subseteq Nat /\ \A w \in creating : w <= made
    BY DEF TInv, TimersTypeOK
  <2> QED BY <1>1, <2>1, <2>2
<1>5. creating' = {} => v = made
  BY <1>1 DEF TInv, TimersTypeOK
<1>6. TimersTypeOK'
  BY <1>1, <1>2, <1>4 DEF TInv, TimersTypeOK, Versions, PollType, TimerType
<1>7. GoesOn'
  BY <1>1, <1>2, <1>3, <1>5 DEF GoesOn, OnGithub, Live, Arms, TInv, TimersTypeOK
<1>8. ~overlap' => Cleared = {} /\ polls' = {} /\ ~overlap
  BY <1>1 DEF TInv, OneChain, Cleared
<1>9. OneChain'
  BY <1>1, <1>2, <1>3, <1>8 DEF OneChain, scheduleRoutine
<1>10. ChainRight'
  BY <1>1, <1>2, <1>3, <1>5, <1>8 DEF ChainRight, Live, Arms, TInv, TimersTypeOK
<1> QED BY <1>6, <1>7, <1>9, <1>10 DEF TInv

\* deleteRoutine: nothing is asked of a routine that is not stored.
LEMMA DeleteKeeps == ASSUME TInv, DeleteLive PROVE TInv'
<1>1. /\ ver' = 0 /\ timers' = Cleared /\ known' = FALSE /\ (~overlap' => ~overlap /\ polls = {})
      /\ UNCHANGED <<made, kind, lastId, creating, polls, cursor, events, fired>>
  BY DEF DeleteLive, unscheduleRoutine
<1>2. TimersTypeOK'
  BY <1>1, ClearedTyped DEF TInv, TimersTypeOK, Versions, PollType, TimerType
<1>3. OneChain'
  BY <1>1 DEF TInv, OneChain, Cleared
<1> QED BY <1>1, <1>2, <1>3 DEF TInv, GoesOn, OnGithub, Live, ChainRight

\* A timeout is due and its successor is armed, for another kind than github's or
\* for a poll that is put off.
LEMMA RearmKeeps ==
  ASSUME TInv, NEW t \in timers, Rearm(t),
         UNCHANGED <<ver, made, kind, spent, known, creating, polls, cursor, events, fired, overlap>>
  PROVE  TInv'
<1>1. PICK u \in TimerType : /\ timers' = (timers \ {t}) \cup {u} /\ u.id = lastId + 1
                             /\ u.ver = t.ver /\ u.kind = t.kind
                             /\ IsFiniteSet(timers')
  BY RearmTyped DEF TInv
<1>2. handle' = (IF known THEN lastId + 1 ELSE handle) /\ lastId' = lastId + 1
  BY DEF Rearm
<1>3. TimersTypeOK'
  BY <1>1, <1>2 DEF TInv, TimersTypeOK, Versions, PollType, TimerType
<1>4. GoesOn'
  BY <1>1 DEF TInv, GoesOn, OnGithub, Live
<1>5. OneChain'
  BY <1>1, <1>2 DEF TInv, OneChain, OnGithub, Live
<1>6. ChainRight'
  BY <1>1 DEF TInv, OneChain, ChainRight, OnGithub, Live
<1> QED BY <1>3, <1>4, <1>5, <1>6 DEF TInv

\* A timeout is due and has no successor.
LEMMA EndKeeps ==
  ASSUME TInv, NEW t \in timers, timers' = timers \ {t}, ~OnGithub \/ t.kind # "github",
         Live => t.kind \notin {"cron"},
         spent' = (IF t.kind = "oneoff" THEN spent \cup {t.ver} ELSE spent),
         UNCHANGED <<ver, made, kind, known, creating, polls, cursor, events, fired, overlap, lastId>>
  PROVE  TInv'
<1>1. IsFiniteSet(timers')
  BY FS_RemoveElement DEF TInv, TimersTypeOK
<1>2. TimersTypeOK'
  BY <1>1 DEF TInv, TimersTypeOK, Versions, PollType, TimerType
<1>3. GoesOn'
  BY DEF TInv, GoesOn, OnGithub, Live
<1>4. ~overlap => timers' = {} /\ polls' = {}
  BY DEF TInv, OneChain
<1>5. OneChain'
  BY <1>4 DEF OneChain
<1>6. ChainRight'
  BY <1>4 DEF TInv, ChainRight, Live
<1> QED BY <1>2, <1>3, <1>5, <1>6 DEF TInv

\* A poll moves on within itself.
LEMMA PollMoves ==
  ASSUME TInv, NEW p \in polls, polls' = (polls \ {p}) \cup {[p EXCEPT !.stage = "save"]},
         cursor' \in [Versions -> Nat], fired' \in [1..MaxEvents -> Nat],
         UNCHANGED <<known, handle, timers>> \/ (~Live /\ unscheduleRoutine),
         UNCHANGED <<ver, made, kind, spent, lastId, creating, events, overlap>>
  PROVE  TInv'
<1>1. PICK q \in PollType : /\ polls' = (polls \ {p}) \cup {q} /\ q.ver = p.ver
  <2>1. PICK q : q = [p EXCEPT !.stage = "save"]
    OBVIOUS
  <2>2. p \in PollType
    BY DEF TInv, TimersTypeOK
  <2>3. q \in PollType /\ q.ver = p.ver
    BY <2>1, <2>2 DEF PollType
  <2> QED BY <2>1, <2>3
<1>2. IsFiniteSet(polls')
  <2>1. IsFiniteSet(polls \ {p})
    BY FS_RemoveElement DEF TInv, TimersTypeOK
  <2>2. IsFiniteSet((polls \ {p}) \cup {q})
    BY <2>1, FS_AddElement
  <2> QED BY <1>1, <2>2, Zenon
<1>3. timers' \subseteq timers /\ IsFiniteSet(timers')
  BY ClearedTyped DEF TInv, TimersTypeOK, unscheduleRoutine
<1>4. TimersTypeOK'
  BY <1>1, <1>2, <1>3 DEF TInv, TimersTypeOK, Versions, PollType, TimerType
<1>5. GoesOn' /\ ChainRight'
  BY <1>1 DEF TInv, GoesOn, ChainRight, OnGithub, Live
<1>6. OneChain'
  BY <1>1 DEF TInv, OneChain, OnGithub, Live
<1> QED BY <1>4, <1>5, <1>6 DEF TInv

\* A poll begins in place of its timeout.
LEMMA PollBegins ==
  ASSUME TInv, NEW t \in timers, t.kind = "github", OnGithub, timers' = timers \ {t},
         polls' = polls \cup {[id |-> t.id, ver |-> ver, page |-> events, stage |-> "gh"]},
         UNCHANGED <<ver, made, kind, spent, known, handle, lastId, creating, cursor, events, fired, overlap>>
  PROVE  TInv'
<1>1. PICK q \in PollType : polls' = polls \cup {q} /\ q.ver = ver
  <2>1. PICK q : q = [id |-> t.id, ver |-> ver, page |-> events, stage |-> "gh"]
    OBVIOUS
  <2>2. t.id \in Nat /\ ver \in Versions /\ events \in Nat
    BY DEF TInv, TimersTypeOK, TimerType, OnGithub, Live, Versions
  <2>3. q \in PollType /\ q.ver = ver
    BY <2>1, <2>2 DEF PollType
  <2> QED BY <2>1, <2>3
<1>2. IsFiniteSet(polls')
  <2>1. IsFiniteSet(polls \cup {q})
    BY FS_AddElement DEF TInv, TimersTypeOK
  <2> QED BY <1>1, <2>1, Zenon
<1>3. IsFiniteSet(timers')
  BY FS_RemoveElement DEF TInv, TimersTypeOK
<1>4. TimersTypeOK'
  BY <1>1, <1>2, <1>3 DEF TInv, TimersTypeOK, Versions, PollType, TimerType
<1>5. GoesOn'
  BY <1>1 DEF GoesOn, OnGithub
<1>6. OneChain'
  BY <1>1 DEF TInv, OneChain, OnGithub, Live
<1>7. ChainRight'
  BY DEF TInv, ChainRight, OnGithub, Live
<1> QED BY <1>4, <1>5, <1>6, <1>7 DEF TInv

\* A poll is over, and the next timeout is set if the routine still has the trigger.
LEMMA PollEnds == ASSUME TInv, NEW p \in polls, PollRearm(p) PROVE TInv'
<1>1. /\ polls' = polls \ {p}
      /\ UNCHANGED <<ver, made, kind, spent, known, creating, cursor, events, fired, overlap>>
  BY DEF PollRearm
<1>2. IsFiniteSet(polls')
  BY <1>1, FS_RemoveElement DEF TInv, TimersTypeOK
<1>3. CASE OnGithub
  <2>1. PICK u : u = [id |-> lastId + 1, ver |-> p.ver, kind |-> "github"]
    OBVIOUS
  <2>2. u \in TimerType /\ u.id = lastId + 1 /\ u.ver = p.ver /\ u.kind = "github"
    BY <2>1 DEF TInv, TimersTypeOK, PollType, TimerType, TriggerTypes
  <2>3. timers' = timers \cup {u} /\ handle' = (IF known THEN lastId + 1 ELSE handle) /\ lastId' = lastId + 1
    BY <1>3, <2>1 DEF PollRearm
  <2>4. IsFiniteSet(timers')
    <3>1. IsFiniteSet(timers \cup {u})
      BY FS_AddElement DEF TInv, TimersTypeOK
    <3> QED BY <2>3, <3>1, Zenon
  <2>5. TimersTypeOK'
    BY <1>1, <1>2, <2>2, <2>3, <2>4 DEF TInv, TimersTypeOK, Versions, PollType, TimerType
  <2>6. GoesOn'
    BY <1>1, <1>3, <2>2, <2>3 DEF GoesOn, OnGithub
  <2>7. OneChain'
    BY <1>1, <2>2, <2>3 DEF TInv, OneChain
  <2>8. ChainRight'
    BY <1>1, <1>3, <2>2, <2>3 DEF TInv, OneChain, ChainRight, OnGithub, Live
  <2> QED BY <2>5, <2>6, <2>7, <2>8 DEF TInv
<1>4. CASE ~OnGithub
  <2>1. UNCHANGED <<timers, handle, lastId>>
    BY <1>4 DEF PollRearm
  <2>2. overlap
    BY <1>4 DEF TInv, OneChain
  <2>3. TimersTypeOK'
    BY <1>1, <1>2, <2>1 DEF TInv, TimersTypeOK, Versions, PollType, TimerType
  <2> QED BY <1>1, <1>4, <2>1, <2>2, <2>3 DEF TInv, GoesOn, OneChain, ChainRight, OnGithub, Live
<1> QED BY <1>3, <1>4

\* Steps that leave the chain alone.
LEMMA ChainAside ==
  ASSUME TInv, events' \in Nat, UNCHANGED <<ver, made, kind, spent, known, handle, timers, lastId,
                                            creating, polls, cursor, fired, overlap>>
  PROVE  TInv'
BY DEF TInv, TimersTypeOK, GoesOn, OneChain, ChainRight, OnGithub, Live, Versions, PollType, TimerType

\* Every step keeps the chain.
LEMMA ChainNext == TInv /\ [TimersNext]_tvars => TInv'
<1> SUFFICES ASSUME TInv, [TimersNext]_tvars PROVE TInv'
  OBVIOUS
<1>1. ASSUME NEW t \in timers, PulseFire(t) PROVE TInv'
  <2>1. CASE Rearm(t)
    BY <1>1, <2>1, RearmKeeps DEF PulseFire
  <2>2. CASE timers' = timers \ {t} /\ UNCHANGED <<handle, lastId>>
    BY <1>1, <2>2, EndKeeps DEF PulseFire
  <2> QED BY <1>1, <2>1, <2>2 DEF PulseFire
<1>2. ASSUME NEW t \in timers, CronFire(t) PROVE TInv'
  <2>1. CASE Live
    BY <1>2, <2>1, RearmKeeps DEF CronFire
  <2>2. CASE ~Live
    BY <1>2, <2>2, EndKeeps DEF CronFire
  <2> QED BY <2>1, <2>2
<1>3. ASSUME NEW t \in timers, OneoffFire(t) PROVE TInv'
  BY <1>3, EndKeeps DEF OneoffFire
<1>4. ASSUME NEW t \in timers, tickGithub(t) PROVE TInv'
  <2>1. CASE OnGithub /\ ~paused
    BY <1>4, <2>1, PollBegins DEF tickGithub
  <2>2. CASE OnGithub /\ paused
    BY <1>4, <2>2, RearmKeeps DEF tickGithub
  <2>3. CASE ~OnGithub
    BY <1>4, <2>3, EndKeeps DEF tickGithub
  <2> QED BY <2>1, <2>2, <2>3
<1>5. ASSUME NEW p \in polls, PollAnswered(p) PROVE TInv'
  <2>1. p.ver \in Versions /\ p.page \in Nat
    BY DEF TInv, TimersTypeOK, PollType
  <2>2. cursor' = [cursor EXCEPT ![p.ver] = IF p.page = 0 THEN @ ELSE p.page]
    BY <1>5 DEF PollAnswered
  <2>3. cursor' \in [Versions -> Nat]
    BY <2>1, <2>2 DEF TInv, TimersTypeOK
  <2>4. PICK fresh : fired' = [e \in DOMAIN fired |-> fired[e] + IF e \in fresh THEN 1 ELSE 0]
    BY <1>5 DEF PollAnswered
  <2>5. fired' \in [1..MaxEvents -> Nat]
    BY <2>4 DEF TInv, TimersTypeOK
  <2> QED BY <1>5, <2>3, <2>5, PollMoves DEF PollAnswered
<1>6. ASSUME NEW p \in polls, PollFailed(p) PROVE TInv'
  <2>1. cursor' \in [Versions -> Nat] /\ fired' \in [1..MaxEvents -> Nat]
    BY <1>6 DEF PollFailed, TInv, TimersTypeOK
  <2> QED BY <1>6, <2>1, PollMoves DEF PollFailed
<1>7. CASE PauseOrResume
  BY <1>7, ChainAside DEF PauseOrResume, TInv, TimersTypeOK
<1>8. CASE NewEvent
  BY <1>8, ChainAside DEF NewEvent, TInv, TimersTypeOK
<1>9. ASSUME NEW status, RunEnds(status) PROVE TInv'
  BY <1>9, ChainAside DEF RunEnds, TInv, TimersTypeOK
<1>10. CASE UNCHANGED tvars
  BY <1>10, ChainAside DEF tvars, TInv, TimersTypeOK
<1> QED BY <1>1, <1>2, <1>3, <1>4, <1>5, <1>6, <1>7, <1>8, <1>9, <1>10,
           CreateKeeps, ScheduleKeeps, DeleteKeeps, PollEnds DEF TimersNext

-----------------------------------------------------------------------------
(* Events: what has been fired is behind the cursor of the stored version, *)
(* once that has one, and behind the page of a poll under way.             *)

CursorsUnmade == \A v \in Versions : v > made => cursor[v] = 0
PollsMade == \A p \in polls : p.ver <= made
SeenFired ==
  OnGithub => \A e \in 1..MaxEvents :
                e <= cursor[ver] /\ e \notin missed => fired[e] >= 1 \/ e \in skipped

\* The events the routine was given, to fire or to skip.
Acted(e) == fired[e] > 0 \/ e \in skipped
ActedOnce ==
  \A e \in 1..MaxEvents : fired[e] <= 1 /\ (e \in skipped => fired[e] = 0) /\ (Acted(e) => e <= events)
ActedBehind == Live /\ cursor[ver] # 0 => \A e \in 1..MaxEvents : Acted(e) => e <= cursor[ver]
PageAhead ==
  \A p \in polls : p.stage = "gh" =>
    p.page <= events /\ \A e \in 1..MaxEvents : Acted(e) => e <= p.page

EInv == /\ CursorsUnmade /\ PollsMade /\ SeenFired
        /\ ~overlap => ActedOnce /\ ActedBehind /\ PageAhead

\* The answer of a poll: what is new to the cursor is queued or skipped, and no more.
LEMMA AnswerExact == ASSUME TInv, EInv, NEW p \in polls, PollAnswered(p) PROVE EInv'
<1>1. /\ p.stage = "gh" /\ polls' = (polls \ {p}) \cup {[p EXCEPT !.stage = "save"]}
      /\ UNCHANGED <<ver, made, kind, paused, events, overlap>>
      /\ cursor' = [cursor EXCEPT ![p.ver] = IF p.page = 0 THEN @ ELSE p.page]
  BY DEF PollAnswered
<1>2. PICK c, n, fresh, enqueued :
        /\ c = cursor[p.ver] /\ n = p.page /\ fresh = eventsAfterCursor(n, c)
        /\ enqueued = IF Live /\ ~paused THEN fresh ELSE {}
  OBVIOUS
<1>3. /\ fired' = [e \in DOMAIN fired |-> fired[e] + IF e \in enqueued THEN 1 ELSE 0]
      /\ skipped' = (IF Live /\ paused THEN skipped \cup fresh ELSE skipped)
      /\ missed' = missed \cup ((c + 1..n) \ fresh)
  BY <1>2, Zenon DEF PollAnswered
<1>4. /\ p \in PollType /\ p.ver \in Versions /\ p.ver <= made /\ made \in Nat /\ ver \in {0, made}
      /\ c \in Nat /\ n \in Nat /\ events \in Nat
      /\ fired \in [1..MaxEvents -> Nat] /\ cursor \in [Versions -> Nat] /\ Versions \subseteq Nat
  BY <1>2 DEF TInv, EInv, PollsMade, TimersTypeOK, Live, Versions, PollType
<1>5. \A e \in 1..MaxEvents : fired'[e] = IF e \in enqueued THEN fired[e] + 1 ELSE fired[e]
  BY <1>3, <1>4
<1>6. \A e : e \in fresh <=> e \in 1..n /\ c \in 1..n /\ c > n - PageSize /\ e > c
  BY <1>2, <1>4, TimersAssumption DEF eventsAfterCursor, OnPage
<1>7. cursor'[p.ver] = (IF n = 0 THEN c ELSE n) /\ \A v \in Versions : v # p.ver => cursor'[v] = cursor[v]
  BY <1>1, <1>2, <1>4
<1>8. [p EXCEPT !.stage = "save"].stage = "save" /\ [p EXCEPT !.stage = "save"].ver = p.ver
  BY <1>4 DEF PollType
<1>9. CursorsUnmade'
  BY <1>1, <1>4, <1>7 DEF EInv, CursorsUnmade, Versions
<1>10. PollsMade'
  BY <1>1, <1>4, <1>8 DEF EInv, PollsMade
<1>11. SeenFired'
  <2> SUFFICES ASSUME OnGithub, NEW e \in 1..MaxEvents, e <= cursor'[ver], e \notin missed'
               PROVE  fired'[e] >= 1 \/ e \in skipped'
    BY <1>1 DEF SeenFired, OnGithub, Live
  <2>1. ver \in Versions /\ Live /\ e \notin missed /\ e \in Nat
    BY <1>3, <1>4 DEF OnGithub, Live, TInv, TimersTypeOK, Versions
  <2>2. CASE e <= cursor[ver]
    <3>1. fired[e] >= 1 \/ e \in skipped
      BY <2>1, <2>2 DEF EInv, SeenFired
    <3>2. fired[e] \in Nat /\ fired'[e] >= fired[e] /\ skipped \subseteq skipped'
      BY <1>3, <1>4, <1>5
    <3> QED BY <1>4, <1>5, <3>1, <3>2
  <2>3. CASE ~(e <= cursor[ver])
    <3>1. ver = p.ver /\ cursor[ver] = c /\ e > c /\ n # 0 /\ e <= n
      BY <1>2, <1>4, <1>7, <2>1, <2>3
    <3>2. e \in fresh
      BY <1>3, <1>4, <2>1, <3>1
    <3> QED BY <1>2, <1>3, <1>4, <1>5, <2>1, <3>2
  <2> QED BY <2>2, <2>3
<1>12. ASSUME ~overlap PROVE ActedOnce' /\ ActedBehind' /\ PageAhead'
  <2>1. OnGithub /\ Live /\ p.ver = ver /\ polls = {p} /\ ver = made
    BY <1>4, <1>12 DEF TInv, OneChain, OnGithub, Live
  <2>2. /\ ActedOnce /\ ActedBehind
        /\ n <= events /\ \A e \in 1..MaxEvents : Acted(e) => e <= n
    BY <1>1, <1>2, <1>12 DEF EInv, PageAhead
  <2>3. \A e \in 1..MaxEvents : e \in fresh => ~Acted(e) /\ e <= n
    BY <1>2, <1>4, <1>6, <2>1, <2>2 DEF ActedBehind
  <2>4. \A e \in 1..MaxEvents : Acted(e)' => e \in fresh \/ Acted(e)
    BY <1>2, <1>3, <1>4, <1>5 DEF Acted
  <2>5. \A e \in 1..MaxEvents : Acted(e)' => e <= n
    BY <2>2, <2>3, <2>4
  <2>6. ActedOnce'
    <3>1. ASSUME NEW e \in 1..MaxEvents
          PROVE  fired'[e] <= 1 /\ (e \in skipped' => fired'[e] = 0) /\ (Acted(e)' => e <= events')
      <4>1. fired[e] \in Nat /\ fired[e] <= 1 /\ (e \in skipped => fired[e] = 0) /\ (e \in fresh => fired[e] = 0 /\ e \notin skipped)
        BY <1>4, <2>2, <2>3 DEF ActedOnce, Acted
      <4>2. fired'[e] <= 1 /\ (e \in skipped' => fired'[e] = 0)
        BY <1>2, <1>3, <1>5, <4>1
      <4>3. Acted(e)' => e <= events'
        BY <1>1, <1>4, <2>2, <2>5
      <4> QED BY <4>2, <4>3
    <3> QED BY <3>1 DEF ActedOnce, Acted
  <2>7. ActedBehind'
    <3>1. ASSUME NEW e \in 1..MaxEvents, Acted(e)', cursor'[ver] # 0 PROVE e <= cursor'[ver]
      BY <1>4, <1>7, <2>1, <2>5, <3>1
    <3> QED BY <1>1, <3>1 DEF ActedBehind, Acted, Live
  <2>8. PageAhead'
    BY <1>1, <1>8, <2>1 DEF PageAhead
  <2> QED BY <2>6, <2>7, <2>8
<1> QED BY <1>1, <1>9, <1>10, <1>11, <1>12 DEF EInv

\* The other steps.
LEMMA EventsAside ==
  ASSUME EInv, ~overlap' => ~overlap, polls' \subseteq polls,
         UNCHANGED <<ver, made, kind, cursor, events, fired, skipped, missed>>
  PROVE  EInv'
BY DEF EInv, CursorsUnmade, PollsMade, SeenFired, Acted, ActedOnce, ActedBehind, PageAhead, OnGithub, Live, Versions

\* A poll begins, and sees every event there is.
LEMMA TickExact == ASSUME TInv, EInv, NEW t \in timers, tickGithub(t) PROVE EInv'
<1>1. UNCHANGED <<ver, made, kind, cursor, events, fired, skipped, missed, overlap>>
  BY DEF tickGithub
<1>2. CASE polls' = polls
  BY <1>1, <1>2, EventsAside
<1>3. CASE polls' # polls
  <2>1. PICK q : q = [id |-> t.id, ver |-> ver, page |-> events, stage |-> "gh"]
    OBVIOUS
  <2>2. polls' = polls \cup {q} /\ q.page = events /\ q.ver = ver
    BY <1>3, <2>1 DEF tickGithub
  <2>3. events \in Nat /\ made \in Nat /\ ver <= made
    BY DEF TInv, TimersTypeOK
  <2> QED BY <1>1, <2>2, <2>3 DEF EInv, CursorsUnmade, PollsMade, SeenFired, Acted, ActedOnce, ActedBehind, PageAhead, OnGithub, Live, Versions
<1> QED BY <1>2, <1>3

\* A new version has no cursor yet.
LEMMA CreateExact == ASSUME TInv, EInv, NEW k \in TriggerKinds, createRoutine(k) PROVE EInv'
<1>1. /\ made < MaxVersions /\ made' = made + 1 /\ ver' = made + 1 /\ polls' = polls
      /\ (~overlap' => ~overlap /\ polls = {})
      /\ UNCHANGED <<cursor, events, fired, skipped, missed>>
  BY DEF createRoutine
<1>2. /\ made \in Nat /\ cursor \in [Versions -> Nat] /\ made + 1 \in Versions
      /\ \A q \in polls : q.ver \in Nat
  BY <1>1, TimersAssumption DEF TInv, TimersTypeOK, Versions, PollType
<1>3. cursor[made + 1] = 0 /\ CursorsUnmade' /\ PollsMade'
  BY <1>1, <1>2 DEF EInv, CursorsUnmade, PollsMade, Versions
<1>4. SeenFired'
  BY <1>1, <1>3 DEF SeenFired
<1>5. ~overlap' => ActedOnce' /\ ActedBehind' /\ PageAhead'
  BY <1>1, <1>3 DEF EInv, ActedOnce, ActedBehind, PageAhead, Acted
<1> QED BY <1>3, <1>4, <1>5 DEF EInv

\* Every step keeps the account of the events.
LEMMA EventsNext == TInv /\ EInv /\ [TimersNext]_tvars => EInv'
<1> SUFFICES ASSUME TInv, EInv, [TimersNext]_tvars PROVE EInv'
  OBVIOUS
<1>1. ASSUME NEW t \in timers, PulseFire(t) \/ CronFire(t) \/ OneoffFire(t) PROVE EInv'
  BY <1>1, EventsAside DEF PulseFire, CronFire, OneoffFire
<1>2. ASSUME NEW v \in Versions, ScheduleCreated(v) PROVE EInv'
  BY <1>2, EventsAside DEF ScheduleCreated
<1>3. CASE DeleteLive
  BY <1>3 DEF DeleteLive, EInv, CursorsUnmade, PollsMade, SeenFired, Acted, ActedOnce, ActedBehind, PageAhead, OnGithub, Live, Versions
<1>4. CASE NewEvent
  <2>1. events \in Nat /\ events' = events + 1 /\ UNCHANGED <<ver, made, kind, cursor, fired, skipped, missed, polls, overlap>>
    BY <1>4 DEF NewEvent, TInv, TimersTypeOK
  <2>2. \A p \in polls : p.page \in Nat
    BY DEF TInv, TimersTypeOK, PollType
  <2>3. /\ CursorsUnmade => CursorsUnmade'
        /\ PollsMade => PollsMade'
        /\ ActedBehind => ActedBehind'
        /\ SeenFired => SeenFired'
    BY <2>1 DEF CursorsUnmade, PollsMade, ActedBehind, Acted, SeenFired, OnGithub, Live, Versions
  <2>4. (ActedOnce => ActedOnce') /\ (PageAhead => PageAhead')
    BY <2>1, <2>2 DEF ActedOnce, Acted, PageAhead
  <2> QED BY <2>1, <2>3, <2>4 DEF EInv
<1>5. ASSUME NEW p \in polls, PollFailed(p) PROVE EInv'
  <2>1. p \in PollType /\ polls' = (polls \ {p}) \cup {[p EXCEPT !.stage = "save"]}
        /\ UNCHANGED <<ver, made, kind, cursor, events, fired, skipped, missed, overlap>>
    BY <1>5 DEF PollFailed, TInv, TimersTypeOK
  <2>0. [p EXCEPT !.stage = "save"].stage = "save" /\ [p EXCEPT !.stage = "save"].ver = p.ver
    BY <2>1 DEF PollType
  <2>2. PICK q : q = [p EXCEPT !.stage = "save"] /\ q.stage = "save" /\ q.ver = p.ver
    BY <2>0
  <2>3. polls' = (polls \ {p}) \cup {q}
    BY <2>1, <2>2
  <2> QED BY <2>1, <2>2, <2>3 DEF EInv, CursorsUnmade, PollsMade, SeenFired, Acted, ActedOnce, ActedBehind, PageAhead, OnGithub, Live, Versions
<1>6. ASSUME NEW p \in polls, PollRearm(p) PROVE EInv'
  BY <1>6, EventsAside DEF PollRearm
<1>7. CASE PauseOrResume
  BY <1>7, EventsAside DEF PauseOrResume
<1>8. ASSUME NEW status, RunEnds(status) PROVE EInv'
  BY <1>8, EventsAside DEF RunEnds
<1>9. CASE UNCHANGED tvars
  BY <1>9, EventsAside DEF tvars
<1> QED BY <1>1, <1>2, <1>3, <1>4, <1>5, <1>6, <1>7, <1>8, <1>9,
           AnswerExact, TickExact, CreateExact DEF TimersNext

\* Nothing is armed before the first routine.
LEMMA TimersStart == TimersInit => TInv /\ EInv
<1> SUFFICES ASSUME TimersInit PROVE TInv /\ EInv
  OBVIOUS
<1>1. IsFiniteSet({})
  BY FS_EmptySet
<1>2. TimersTypeOK
  BY <1>1, TimersAssumption DEF TimersInit, TimersTypeOK, Versions, TriggerTypes
<1>3. GoesOn /\ OneChain /\ ChainRight
  BY DEF TimersInit, GoesOn, OneChain, ChainRight, OnGithub, Live
<1>4. EInv
  BY DEF TimersInit, EInv, CursorsUnmade, PollsMade, SeenFired, Acted, ActedOnce, ActedBehind, PageAhead, OnGithub, Live, Versions
<1> QED BY <1>2, <1>3, <1>4 DEF TInv

\* The chain counted: one member, or none.
LEMMA ChainCounted ==
  ASSUME TInv
  PROVE  /\ Cardinality(timers) \in Nat /\ Cardinality(polls) \in Nat
         /\ (Cardinality(timers) = 0 <=> timers = {}) /\ (Cardinality(polls) = 0 <=> polls = {})
         /\ ~overlap => Cardinality(timers) <= 1 /\ Cardinality(polls) <= 1
<1>1. /\ Cardinality(timers) \in Nat /\ Cardinality(polls) \in Nat
      /\ (Cardinality(timers) = 0 <=> timers = {}) /\ (Cardinality(polls) = 0 <=> polls = {})
  BY FS_CardinalityType, FS_EmptySet DEF TInv, TimersTypeOK
<1>2. ASSUME ~overlap, NEW t \in timers PROVE Cardinality(timers) = 1
  <2>1. timers = {t}
    BY <1>2 DEF TInv, OneChain
  <2> QED BY <2>1, FS_Singleton
<1>3. ASSUME ~overlap, NEW p \in polls PROVE Cardinality(polls) = 1
  <2>1. polls = {p}
    BY <1>3 DEF TInv, OneChain
  <2> QED BY <2>1, FS_Singleton
<1> QED BY <1>1, <1>2, <1>3

(* A stored routine whose schedule is in place has the timers its trigger  *)
(* calls for, one chain unless an update overtook a poll, and never none;  *)
(* and no GitHub event that a page still showed is lost: it is queued, or  *)
(* skipped by a pause, and once unless an update overtook a poll.  The     *)
(* callbacks of timeouts and polls meet pauses, updates and deletions in   *)
(* any order (armTrigger, tickGithub, createRoutine).                      *)
THEOREM TriggersActExactly == TimersSpec => []TriggersExact
<1>1. TimersInit => TInv /\ EInv
  BY TimersStart
<1>2. TInv /\ EInv /\ [TimersNext]_tvars => (TInv /\ EInv)'
  BY ChainNext, EventsNext
<1>3. TInv /\ EInv => TriggersExact
  <2> SUFFICES ASSUME TInv, EInv PROVE TriggersExact
    OBVIOUS
  <2>1. ASSUME Live, creating = {}, ~overlap
        PROVE  /\ kind[ver] = "cron" => Chains = 1
               /\ kind[ver] = "oneoff" => Chains = IF ver \in spent THEN 0 ELSE 1
               /\ kind[ver] = "pulse" => Chains <= 1
               /\ kind[ver] = "github" => Chains = 1
               /\ kind[ver] = "hook" => Chains = 0
    <3>1. polls # {} => timers = {} /\ kind[ver] = "github"
      BY <2>1 DEF TInv, OneChain, OnGithub
    <3>2. kind[ver] = "github" => timers # {} \/ polls # {}
      BY <2>1 DEF TInv, GoesOn
    <3> QED BY <2>1, <3>1, <3>2, ChainCounted DEF TInv, ChainRight, Chains
  <2>2. ASSUME Live, creating = {}, kind[ver] \in {"cron", "github"} \/ (kind[ver] = "oneoff" /\ ver \notin spent)
        PROVE  Chains >= 1
    <3>1. timers # {} \/ polls # {}
      BY <2>2 DEF TInv, GoesOn
    <3> QED BY <3>1, ChainCounted DEF Chains
  <2>3. Live => kind[ver] \in TriggerTypes
    BY DEF TInv, TimersTypeOK, Live, Versions
  <2>4. TimersArmed
    BY <2>1, <2>2, <2>3 DEF TimersArmed, TriggerTypes
  <2>5. EachEventOnce
    BY DEF EInv, EachEventOnce, ActedOnce, SeenFired
  <2> QED BY <2>4, <2>5 DEF TriggersExact
<1> QED BY <1>1, <1>2, <1>3, PTL DEF TimersSpec

-----------------------------------------------------------------------------
(* Fires: lists.                                                           *)

\* The runs of the entries that are mirrored.
NormalRuns(q) == {e.run : e \in {x \in ToSet(q) : x.deferred = 0}}
Distinct(q) == \A i, j \in DOMAIN q : q[i].run = q[j].run => i = j

\* Array.filter: exactly the entries at the positions D, each once.
LEMMA KeptList ==
  ASSUME NEW E, NEW q \in Seq(E), NEW D \in SUBSET DOMAIN q
  PROVE  /\ Kept(q, D) \in Seq(E) /\ Len(Kept(q, D)) <= Len(q)
         /\ ToSet(Kept(q, D)) = {q[i] : i \in D}
         /\ \A k, l \in DOMAIN Kept(q, D) : k # l => \E i, j \in D : i # j /\ Kept(q, D)[k] = q[i] /\ Kept(q, D)[l] = q[j]
<1> DEFINE rank(i) == Cardinality({j \in D : j <= i})
           at(k) == CHOOSE i \in D : rank(i) = k
           n == Cardinality(D)
           p == [k \in 1..n |-> q[at(k)]]
<1>1. /\ DOMAIN q = 1..Len(q) /\ Len(q) \in Nat /\ IsFiniteSet(DOMAIN q) /\ Cardinality(DOMAIN q) = Len(q)
      /\ D \subseteq Int /\ IsFiniteSet(D) /\ n \in Nat /\ n <= Len(q)
  <2>1. DOMAIN q = 1..Len(q) /\ Len(q) \in Nat
    OBVIOUS
  <2>2. IsFiniteSet(DOMAIN q) /\ Cardinality(DOMAIN q) = Len(q)
    <3>1. PICK m : m = Len(q)
      OBVIOUS
    <3>2. m \in Nat
      BY <2>1, <3>1
    <3>3. Cardinality(1..m) = IF 1 > m THEN 0 ELSE m - 1 + 1
      BY <3>2, FS_Interval
    <3>4. IsFiniteSet(1..m)
      BY <3>2, FS_Interval
    <3>5. Cardinality(1..m) = m
      BY <3>2, <3>3
    <3> QED BY <2>1, <3>1, <3>4, <3>5
  <2>3. IsFiniteSet(D) /\ n <= Len(q) /\ n \in Nat
    BY <2>2, FS_Subset, FS_CardinalityType
  <2>4. D \subseteq Int
    BY <2>1
  <2> QED BY <2>1, <2>2, <2>3, <2>4
<1>2. /\ \A k \in 1..n : \E i \in D : rank(i) = k
      /\ \A i \in D : rank(i) \in 1..n
      /\ \A i, j \in D : i < j => rank(i) < rank(j)
  BY <1>1, Ranks
<1>3. \A k \in 1..n : at(k) \in D /\ rank(at(k)) = k
  <2> HIDE DEF rank
  <2> QED BY <1>2
<1>4. \A i \in D : at(rank(i)) = i /\ rank(i) \in 1..n
  <2> SUFFICES ASSUME NEW i \in D PROVE at(rank(i)) = i
    BY <1>2
  <2>1. rank(i) \in 1..n
    BY <1>2
  <2> DEFINE j == at(rank(i))
  <2>2. j \in D /\ rank(j) = rank(i)
    BY <1>3, <2>1
  <2>3. i \in Int /\ j \in Int
    BY <1>1, <2>2
  <2> HIDE DEF j, rank
  <2>4. ~(i < j) /\ ~(j < i)
    BY <1>1, <1>2, <2>1, <2>2
  <2>5. i = j
    BY <2>3, <2>4
  <2> QED BY <2>5 DEF j
<1> HIDE DEF at, rank
<1>5. p = Kept(q, D)
  BY DEF Kept, at, rank
<1>6. p \in Seq(E) /\ Len(p) = n /\ DOMAIN p = 1..n
  BY <1>1, <1>3
<1>7. ToSet(p) = {q[i] : i \in D}
  <2>1. ASSUME NEW x \in ToSet(p) PROVE x \in {q[i] : i \in D}
    BY <1>3, <1>6 DEF ToSet
  <2>2. ASSUME NEW i \in D PROVE q[i] \in ToSet(p)
    <3>1. rank(i) \in 1..n /\ p[rank(i)] = q[i]
      BY <1>4
    <3> QED BY <1>6, <3>1 DEF ToSet
  <2> QED BY <2>1, <2>2
<1>8. ASSUME NEW k \in 1..n, NEW l \in 1..n, k # l
      PROVE  \E i, j \in D : i # j /\ p[k] = q[i] /\ p[l] = q[j]
  <2>1. at(k) \in D /\ at(l) \in D /\ at(k) # at(l)
    BY <1>3, <1>8
  <2> QED BY <2>1
<1> HIDE DEF p
<1> QED BY <1>1, <1>5, <1>6, <1>7, <1>8

LEMMA KeptEntries ==
  ASSUME NEW q \in Seq(Entry), NEW D \in SUBSET DOMAIN q
  PROVE  /\ Kept(q, D) \in Seq(Entry) /\ Len(Kept(q, D)) <= Len(q)
         /\ ToSet(Kept(q, D)) = {q[i] : i \in D} /\ (Distinct(q) => Distinct(Kept(q, D)))
<1> PICK p : p = Kept(q, D)
  OBVIOUS
<1>1. /\ p \in Seq(Entry) /\ Len(p) <= Len(q) /\ ToSet(p) = {q[i] : i \in D}
      /\ \A k, l \in DOMAIN p : k # l => \E i, j \in D : i # j /\ p[k] = q[i] /\ p[l] = q[j]
  BY KeptList
<1>2. ASSUME Distinct(q) PROVE Distinct(p)
  <2> SUFFICES ASSUME NEW k \in DOMAIN p, NEW l \in DOMAIN p, p[k].run = p[l].run, k # l PROVE FALSE
    BY DEF Distinct
  <2>1. PICK i \in D, j \in D : i # j /\ p[k] = q[i] /\ p[l] = q[j]
    BY <1>1
  <2> QED BY <1>2, <2>1 DEF Distinct
<1> QED BY <1>1, <1>2

\* Taking out the entry at i.
LEMMA RemovedAt ==
  ASSUME NEW q \in Seq(Entry), NEW i \in DOMAIN q, NEW p, p = RemoveAt(q, i)
  PROVE  /\ p \in Seq(Entry) /\ Len(p) = Len(q) - 1
         /\ ToSet(q) = ToSet(p) \cup {q[i]}
         /\ Distinct(q) => Distinct(p) /\ q[i].run \notin RunsOf(p)
<1>1. /\ DOMAIN q = 1..Len(q) /\ Len(q) \in Nat /\ i \in 1..Len(q)
      /\ p \in Seq(Entry) /\ Len(p) = Len(q) - 1 /\ DOMAIN p = 1..(Len(q) - 1)
      /\ \A k \in 1..(Len(q) - 1) : p[k] = IF k < i THEN q[k] ELSE q[k + 1]
  <2>1. DOMAIN q = 1..Len(q) /\ Len(q) \in Nat /\ i \in 1..Len(q)
    OBVIOUS
  <2>2. PICK a : a = SubSeq(q, 1, i - 1)
    OBVIOUS
  <2>3. PICK b : b = SubSeq(q, i + 1, Len(q))
    OBVIOUS
  <2>4. a \in Seq(Entry) /\ Len(a) = i - 1 /\ \A k \in 1..(i - 1) : a[k] = q[k]
    BY <2>1, <2>2
  <2>5. b \in Seq(Entry) /\ Len(b) = Len(q) - i /\ \A k \in 1..(Len(q) - i) : b[k] = q[k + i]
    BY <2>1, <2>3
  <2>6. p = a \o b
    BY <2>2, <2>3 DEF RemoveAt
  <2>7. /\ p \in Seq(Entry) /\ Len(p) = Len(q) - 1 /\ DOMAIN p = 1..(Len(q) - 1)
        /\ \A k \in 1..(Len(q) - 1) : p[k] = IF k <= i - 1 THEN a[k] ELSE b[k - (i - 1)]
    <3>1. /\ p \in Seq(Entry) /\ Len(p) = Len(a) + Len(b) /\ DOMAIN p = 1..(Len(a) + Len(b))
          /\ \A k \in 1..(Len(a) + Len(b)) : p[k] = IF k <= Len(a) THEN a[k] ELSE b[k - Len(a)]
      <4>1. a \in Seq(Entry) /\ b \in Seq(Entry)
        BY <2>4, <2>5
      <4> QED BY <2>6, <4>1
    <3>2. Len(a) + Len(b) = Len(q) - 1
      BY <2>1, <2>4, <2>5
    <3> QED BY <2>4, <3>1, <3>2
  <2>8. ASSUME NEW k \in 1..(Len(q) - 1) PROVE p[k] = IF k < i THEN q[k] ELSE q[k + 1]
    <3>1. CASE k < i
      <4>1. k \in 1..(i - 1) /\ k <= i - 1
        BY <2>1, <3>1
      <4> QED BY <2>4, <2>7, <3>1, <4>1
    <3>2. CASE ~(k < i)
      <4>1. ~(k <= i - 1) /\ k - (i - 1) \in 1..(Len(q) - i) /\ (k - (i - 1)) + i = k + 1
        BY <2>1, <3>2
      <4> QED BY <2>5, <2>7, <3>2, <4>1
    <3> QED BY <3>1, <3>2
  <2> QED BY <2>1, <2>7, <2>8
<1>2. ToSet(q) = ToSet(p) \cup {q[i]}
  <2>1. ASSUME NEW k \in 1..Len(q) PROVE q[k] \in ToSet(p) \cup {q[i]}
    <3>1. CASE k = i
      BY <3>1
    <3>2. CASE k < i
      BY <1>1, <3>2 DEF ToSet
    <3>3. CASE k > i
      <4>1. k - 1 \in 1..(Len(q) - 1) /\ ~(k - 1 < i) /\ (k - 1) + 1 = k
        BY <1>1, <3>3
      <4> QED BY <1>1, <4>1 DEF ToSet
    <3> QED BY <1>1, <3>1, <3>2, <3>3
  <2>2. ASSUME NEW k \in 1..(Len(q) - 1) PROVE p[k] \in ToSet(q)
    BY <1>1 DEF ToSet
  <2> QED BY <1>1, <2>1, <2>2 DEF ToSet
<1>3. ASSUME Distinct(q) PROVE Distinct(p) /\ q[i].run \notin RunsOf(p)
  <2> DEFINE was(k) == IF k < i THEN k ELSE k + 1
  <2>1. \A k \in DOMAIN p : was(k) \in DOMAIN q /\ was(k) # i /\ p[k] = q[was(k)]
    BY <1>1
  <2>2. \A k, l \in DOMAIN p : was(k) = was(l) => k = l
    BY <1>1
  <2> HIDE DEF was
  <2> QED BY <1>1, <1>3, <2>1, <2>2 DEF Distinct, RunsOf
<1> QED BY <1>1, <1>2, <1>3

\* Putting an entry in at i.
LEMMA Inserted ==
  ASSUME NEW q \in Seq(Entry), NEW i \in 1..(Len(q) + 1), NEW e \in Entry, NEW p, p = InsertAt(q, i, e)
  PROVE  /\ p \in Seq(Entry) /\ Len(p) = Len(q) + 1
         /\ ToSet(p) = ToSet(q) \cup {e}
         /\ Distinct(q) /\ e.run \notin RunsOf(q) => Distinct(p)
<1>1. /\ DOMAIN q = 1..Len(q) /\ Len(q) \in Nat
      /\ p \in Seq(Entry) /\ Len(p) = Len(q) + 1 /\ DOMAIN p = 1..(Len(q) + 1)
      /\ \A k \in 1..(Len(q) + 1) : p[k] = IF k < i THEN q[k] ELSE IF k = i THEN e ELSE q[k - 1]
  <2>1. DOMAIN q = 1..Len(q) /\ Len(q) \in Nat
    OBVIOUS
  <2>2. PICK a : a = SubSeq(q, 1, i - 1)
    OBVIOUS
  <2>3. PICK b : b = SubSeq(q, i, Len(q))
    OBVIOUS
  <2>4. a \in Seq(Entry) /\ Len(a) = i - 1 /\ \A k \in 1..(i - 1) : a[k] = q[k]
    BY <2>1, <2>2
  <2>5. b \in Seq(Entry) /\ Len(b) = Len(q) - i + 1 /\ \A k \in 1..(Len(q) - i + 1) : b[k] = q[k + i - 1]
    BY <2>1, <2>3
  <2>6. PICK c : c = a \o <<e>>
    OBVIOUS
  <2>7. /\ c \in Seq(Entry) /\ Len(c) = i
        /\ \A k \in 1..i : c[k] = IF k = i THEN e ELSE a[k]
    BY <2>1, <2>4, <2>6
  <2>8. p = c \o b
    BY <2>2, <2>3, <2>6 DEF InsertAt
  <2>9. /\ p \in Seq(Entry) /\ Len(p) = Len(q) + 1 /\ DOMAIN p = 1..(Len(q) + 1)
        /\ \A k \in 1..(Len(q) + 1) : p[k] = IF k <= i THEN c[k] ELSE b[k - i]
    <3>1. c \in Seq(Entry) /\ b \in Seq(Entry)
      BY <2>5, <2>7
    <3>2. p \in Seq(Entry)
      BY <2>8, <3>1
    <3>3. Len(p) = Len(c) + Len(b)
      BY <2>8, <3>1
    <3>4. \A k \in 1..(Len(c) + Len(b)) : p[k] = IF k <= Len(c) THEN c[k] ELSE b[k - Len(c)]
      BY <2>8, <3>1
    <3>5. DOMAIN p = 1..Len(p)
      BY <3>2
    <3>6. Len(c) = i /\ Len(c) + Len(b) = Len(q) + 1
      BY <2>1, <2>5, <2>7
    <3> QED BY <3>2, <3>3, <3>4, <3>5, <3>6
  <2>10. ASSUME NEW k \in 1..(Len(q) + 1)
         PROVE  p[k] = IF k < i THEN q[k] ELSE IF k = i THEN e ELSE q[k - 1]
    <3>1. CASE k < i
      <4>1. k \in 1..(i - 1) /\ k \in 1..i /\ k <= i /\ k # i
        BY <2>1, <3>1
      <4> QED BY <2>4, <2>7, <2>9, <3>1, <4>1
    <3>2. CASE k = i
      <4>1. k \in 1..i /\ k <= i /\ ~(k < i)
        BY <2>1, <3>2
      <4> QED BY <2>7, <2>9, <3>2, <4>1
    <3>3. CASE k > i
      <4>1. ~(k <= i) /\ ~(k < i) /\ k # i /\ k - i \in 1..(Len(q) - i + 1) /\ (k - i) + i - 1 = k - 1
        BY <2>1, <3>3
      <4> QED BY <2>5, <2>9, <4>1
    <3> QED BY <2>1, <3>1, <3>2, <3>3
  <2> QED BY <2>1, <2>9, <2>10
<1>2. ToSet(p) = ToSet(q) \cup {e}
  <2>1. ASSUME NEW k \in 1..Len(q) PROVE q[k] \in ToSet(p)
    <3>1. CASE k < i
      BY <1>1, <3>1 DEF ToSet
    <3>2. CASE k >= i
      <4>1. k + 1 \in 1..(Len(q) + 1) /\ ~(k + 1 < i) /\ k + 1 # i /\ (k + 1) - 1 = k
        BY <1>1, <3>2
      <4>2. p[k + 1] = q[k]
        BY <1>1, <4>1
      <4> QED BY <1>1, <4>1, <4>2 DEF ToSet
    <3> QED BY <1>1, <3>1, <3>2
  <2>2. e \in ToSet(p)
    BY <1>1 DEF ToSet
  <2>3. ASSUME NEW k \in 1..(Len(q) + 1) PROVE p[k] \in ToSet(q) \cup {e}
    BY <1>1 DEF ToSet
  <2> QED BY <1>1, <2>1, <2>2, <2>3 DEF ToSet
<1>3. ASSUME Distinct(q), e.run \notin RunsOf(q) PROVE Distinct(p)
  <2> DEFINE was(k) == IF k < i THEN k ELSE k - 1
  <2>1. \A k \in DOMAIN p : k # i => was(k) \in DOMAIN q /\ p[k] = q[was(k)]
    BY <1>1
  <2>2. \A k, l \in DOMAIN p : k # i /\ l # i /\ was(k) = was(l) => k = l
    BY <1>1
  <2>3. p[i] = e
    BY <1>1
  <2> HIDE DEF was
  <2> QED BY <1>1, <1>3, <2>1, <2>2, <2>3 DEF Distinct, RunsOf
<1> QED BY <1>1, <1>2, <1>3

\* The queue without its head.
LEMMA Headed ==
  ASSUME NEW q \in Seq(Entry), q # <<>>, NEW p, p = Tail(q)
  PROVE  /\ p \in Seq(Entry) /\ Len(p) = Len(q) - 1 /\ Head(q) \in Entry /\ Head(q) \in ToSet(q)
         /\ ToSet(q) = ToSet(p) \cup {Head(q)}
         /\ Distinct(q) => Distinct(p) /\ Head(q).run \notin RunsOf(p)
<1>1. 1 \in DOMAIN q /\ Head(q) = q[1] /\ p = RemoveAt(q, 1) /\ q[1] \in Entry
  <2>1. DOMAIN q = 1..Len(q) /\ Len(q) \in Nat /\ Len(q) >= 1 /\ Head(q) = q[1] /\ q[1] \in Entry
    OBVIOUS
  <2>2. /\ p \in Seq(Entry) /\ Len(p) = Len(q) - 1 /\ DOMAIN p = 1..(Len(q) - 1)
        /\ \A k \in 1..(Len(q) - 1) : p[k] = q[k + 1]
    BY <2>1
  <2> DEFINE r == RemoveAt(q, 1)
  <2>3. /\ r \in Seq(Entry) /\ Len(r) = Len(q) - 1 /\ DOMAIN r = 1..(Len(q) - 1)
        /\ \A k \in 1..(Len(q) - 1) : r[k] = q[k + 1]
    BY <2>1 DEF RemoveAt
  <2> HIDE DEF r
  <2>4. p = r
    BY <2>2, <2>3
  <2> QED BY <2>1, <2>4 DEF r
<1>2. /\ p \in Seq(Entry) /\ Len(p) = Len(q) - 1 /\ ToSet(q) = ToSet(p) \cup {q[1]}
      /\ Distinct(q) => Distinct(p) /\ q[1].run \notin RunsOf(p)
  BY <1>1, RemovedAt
<1> QED BY <1>1, <1>2 DEF ToSet

LEMMA RunsOfSet == \A q : RunsOf(q) = {e.run : e \in ToSet(q)}
  BY DEF RunsOf, ToSet

-----------------------------------------------------------------------------
(* The runtime.                                                            *)

Times == [Routines -> Nat]
Hooks == [id : 1..MaxSessions, r : Routines]
StoreType == [live : SUBSET Routines, paused : SUBSET Routines, pending : Seq(Entry),
              deferred : Seq(Hooks), ticks : Times, used : Times, usedDay : Times, onceDay : Times]
Waiters == {"drain", "quit", "reload", "new"}
Fates == {"none", "issued", "replay", "opened", "recorded", "interrupted", "skipped", "error",
          "gone", "died"}
Runtime ==
  [queue : Seq(Entry), watchdog : BOOLEAN, turn : BOOLEAN,
   pendingRun : {NoRun} \cup [run : Runs, r : Routines], hookFires : SUBSET Routines,
   store : StoreType, drain : {"no", "persist", "save"}, held : {NoEntry} \cup Entry,
   dirty : BOOLEAN, awaiting : SUBSET Waiters, arrived : SUBSET Waiters,
   fate : [Runs -> Fates], opens : [Runs -> Nat], next : 1..(MaxRuns + 1)]

Holds(s, n) == s.held # NoEntry /\ s.held.run = n

\* The fires that wait in q have run numbers of their own, are no more than the queue
\* takes and have opened no turn.
ListSound(s, q) ==
  /\ Distinct(q) /\ Len(q) <= MaxQueueDepth
  /\ \A e \in ToSet(q) : e.run < s.next /\ s.opens[e.run] = 0 /\ ~Holds(s, e.run)

\* One drain at a time: the entry it holds has opened no turn, and while it persists the
\* removal of the entry no turn is open.
TurnSound(s) ==
  /\ s.held # NoEntry => s.held.run < s.next /\ s.opens[s.held.run] = 0
  /\ \A n \in Runs : s.opens[n] <= 1 /\ (n >= s.next => s.opens[n] = 0)
  /\ s.turn \/ s.pendingRun = NoRun
  /\ s.drain = "persist" <=> s.held # NoEntry
  /\ s.drain = "persist" => ~s.turn
  /\ s.drain = "no" => "drain" \notin s.awaiting
  /\ "drain" \in s.arrived => s.drain # "no" /\ "drain" \notin s.awaiting

Sound(s) ==
  /\ s \in Runtime /\ TurnSound(s)
  /\ ListSound(s, s.queue) /\ ListSound(s, s.store.pending)

\* The mirror holds the fires of the queue, except the deferred hooks'.
Mirror(s) == ToSet(s.store.pending) = {e \in ToSet(s.queue) : e.deferred = 0}
\* An issued fire waits in the queue, in the drain's hand or is one of R.
Queued(s, R) ==
  \A n \in Runs : s.fate[n] = "issued" => n \in NormalRuns(s.queue) \/ Holds(s, n) \/ n \in R
\* An opened one is the pending run or one of R.
Opened(s, R) ==
  \A n \in Runs \ R : s.fate[n] = "opened" => s.turn /\ s.pendingRun # NoRun /\ s.pendingRun.run = n
\* The mirror changes only with a write to come.
Writes(s, t) == t.dirty \/ (~s.dirty /\ t.store.pending = s.store.pending)

\* From s to t neither the drain nor the turn moved.
Quiet(s, t) ==
  /\ t.drain = s.drain /\ t.held = s.held /\ t.awaiting = s.awaiting /\ t.arrived = s.arrived
  /\ t.turn = s.turn /\ t.pendingRun = s.pendingRun
  /\ t.opens = s.opens /\ s.next <= t.next

\* t is as sound as s, and what waits in its queue waited in that of s or is one of X.
Works(s, t, X) ==
  /\ Sound(t) /\ Quiet(s, t) /\ ToSet(t.queue) \subseteq ToSet(s.queue) \cup X
  /\ Mirror(s) => Mirror(t)
  /\ \A R : Queued(s, R) => Queued(t, R)
  /\ \A R : Opened(s, R) => Opened(t, R)
  /\ Writes(s, t)

LEMMA EntryFields ==
  /\ NoEntry \notin Entry
  /\ \A e \in Entry : e.run \in Runs /\ e.r \in Routines /\ e.deferred \in 0..MaxSessions /\ e.kind \in Kinds
  /\ \A q \in Seq(Entry) : ToSet(q) \subseteq Entry
<1>1. ASSUME NEW e \in Entry PROVE e # NoEntry
  <2>1. DOMAIN e = {"r", "run", "kind", "deferred"} /\ DOMAIN NoEntry = {"r"}
    BY DEF Entry, NoEntry
  <2>2. "run" \in DOMAIN e /\ "run" \notin DOMAIN NoEntry
    BY <2>1
  <2> QED BY <2>2
<1>2. \A e \in Entry : e.run \in Runs /\ e.r \in Routines /\ e.deferred \in 0..MaxSessions /\ e.kind \in Kinds
  BY DEF Entry
<1>3. \A q \in Seq(Entry) : ToSet(q) \subseteq Entry
  BY DEF ToSet
<1> QED BY <1>1, <1>2, <1>3

LEMMA RunsAreNat == Runs \subseteq Nat /\ MaxRuns \in Nat /\ MaxQueueDepth \in Nat /\ MaxQueueDepth >= 1
  BY FiresAssumption DEF Runs

LEMMA WorksTrans ==
  ASSUME NEW s, NEW t, NEW u, NEW X, Sound(s), Works(s, t, X), Works(t, u, X) PROVE Works(s, u, X)
<1>1. s.next \in Nat /\ t.next \in Nat /\ u.next \in Nat
  BY RunsAreNat DEF Works, Sound, Runtime
<1>2. Writes(s, u)
  BY DEF Works, Writes
<1> QED BY <1>1, <1>2 DEF Works, Quiet

LEMMA WorksSelf == ASSUME NEW s, NEW X, Sound(s) PROVE Works(s, s, X)
<1>1. s.next \in Nat
  BY RunsAreNat DEF Sound, Runtime
<1>2. Writes(s, s)
  BY DEF Writes, Sound, Runtime
<1> QED BY <1>1, <1>2 DEF Works, Quiet

\* A step that leaves the queue, its mirror and the fates alone.
LEMMA BesideWorks ==
  ASSUME NEW s, Sound(s), NEW t \in Runtime, NEW X,
         Quiet(s, t), t.queue = s.queue, t.store.pending = s.store.pending, t.fate = s.fate,
         s.dirty => t.dirty
  PROVE  Works(s, t, X) /\ \A R : Queued(s, R) => Queued(t, R)
<1>1. s.next \in Nat /\ t.next \in Nat /\ s.next <= t.next
  BY RunsAreNat DEF Sound, Runtime, Quiet
<1>2. \A n : Holds(t, n) <=> Holds(s, n)
  BY DEF Holds, Quiet
<1>3. ASSUME NEW q \in Seq(Entry), ListSound(s, q) PROVE ListSound(t, q)
  <2>1. ASSUME NEW e \in ToSet(q) PROVE e.run < t.next /\ t.opens[e.run] = 0 /\ ~Holds(t, e.run)
    <3>1. e.run \in Nat /\ e.run < s.next
      BY <1>3, EntryFields, RunsAreNat DEF ListSound
    <3> QED BY <1>1, <1>2, <1>3, <3>1 DEF ListSound, Quiet
  <2> QED BY <1>3, <2>1 DEF ListSound
<1>4. ListSound(t, t.queue) /\ ListSound(t, t.store.pending)
  <2>1. s.queue \in Seq(Entry) /\ s.store.pending \in Seq(Entry)
    BY DEF Sound, Runtime, StoreType
  <2> QED BY <1>3, <2>1 DEF Sound
<1>5. TurnSound(t)
  <2>1. TurnSound(s) /\ s.held \in {NoEntry} \cup Entry /\ s.opens \in [Runs -> Nat]
    BY DEF Sound, Runtime
  <2>2. s.held # NoEntry => s.held.run \in Nat
    BY <2>1, EntryFields, RunsAreNat
  <2>3. \A n \in Runs : n \in Nat /\ (n >= t.next => n >= s.next)
    BY <1>1, RunsAreNat
  <2> QED BY <1>1, <2>1, <2>2, <2>3 DEF TurnSound, Quiet
<1>6. Sound(t)
  BY <1>4, <1>5 DEF Sound
<1>7. Mirror(s) => Mirror(t)
  BY DEF Mirror
<1>8. \A R : Queued(s, R) => Queued(t, R)
  BY <1>2 DEF Queued
<1>9. \A R : Opened(s, R) => Opened(t, R)
  BY DEF Opened, Quiet
<1>10. Writes(s, t)
  BY DEF Writes
<1> QED BY <1>6, <1>7, <1>8, <1>9, <1>10 DEF Works

-----------------------------------------------------------------------------
(* The queue.                                                              *)

\* A record of the run leaves the queue as it is; the run is owed no more.
LEMMA RunRecorded ==
  ASSUME NEW s, Sound(s), NEW run \in Runs, NEW status \in Fates \ {"issued", "opened"}, NEW X,
         NEW t, t = recordRun(s, run, status)
  PROVE  /\ Works(s, t, X) /\ \A R : Queued(s, R) => Queued(t, R \ {run})
         /\ t.queue = s.queue /\ t.store = s.store /\ t.dirty /\ t.fate = [s.fate EXCEPT ![run] = status]
<1>4. /\ t \in Runtime /\ Quiet(s, t) /\ t.queue = s.queue /\ t.store = s.store
      /\ t.fate = [s.fate EXCEPT ![run] = status] /\ t.next = s.next
      /\ t.dirty
  <2>1. s \in Runtime /\ t = [[s EXCEPT !.fate = [s.fate EXCEPT ![run] = status]] EXCEPT !.dirty = TRUE]
    BY DEF Sound, recordRun, saveStore, Runtime
  <2>2. PICK f : f = [s.fate EXCEPT ![run] = status]
    OBVIOUS
  <2>3. f \in [Runs -> Fates]
    BY <2>1, <2>2 DEF Runtime
  <2>4. t = [[s EXCEPT !.fate = f] EXCEPT !.dirty = TRUE]
    BY <2>1, <2>2
  <2>5. t \in Runtime
    BY <2>1, <2>3, <2>4 DEF Runtime
  <2>6. /\ t.queue = s.queue /\ t.store = s.store /\ t.fate = f /\ t.next = s.next
        /\ t.held = s.held /\ t.opens = s.opens /\ t.turn = s.turn
        /\ t.pendingRun = s.pendingRun /\ t.drain = s.drain /\ t.awaiting = s.awaiting /\ t.arrived = s.arrived
        /\ t.dirty
    BY <2>1, <2>4 DEF Runtime
  <2>7. s.next \in Nat
    BY <2>1, RunsAreNat DEF Runtime
  <2> QED BY <2>2, <2>5, <2>6, <2>7 DEF Quiet
<1>5. Sound(t) /\ \A n : Holds(t, n) <=> Holds(s, n)
  <2>1. /\ t.held = s.held /\ t.opens = s.opens /\ t.next = s.next /\ t.turn = s.turn
        /\ t.pendingRun = s.pendingRun /\ t.drain = s.drain /\ t.awaiting = s.awaiting /\ t.arrived = s.arrived
    BY <1>4 DEF Quiet
  <2>2. TurnSound(t) /\ \A n : Holds(t, n) <=> Holds(s, n)
    BY <2>1 DEF Sound, TurnSound, Holds
  <2>3. ListSound(t, t.queue) /\ ListSound(t, t.store.pending)
    BY <1>4, <2>1, <2>2 DEF Sound, ListSound
  <2> QED BY <1>4, <2>2, <2>3 DEF Sound
<1>6. Mirror(s) => Mirror(t)
  BY <1>4 DEF Mirror
<1>7. \A n \in Runs : t.fate[n] = IF n = run THEN status ELSE s.fate[n]
  BY <1>4 DEF Sound, Runtime
<1>8. \A R : Queued(s, R) => Queued(t, R \ {run})
  BY <1>4, <1>5, <1>7 DEF Queued
<1>9. \A R : Opened(s, R) => Opened(t, R)
  BY <1>4, <1>7 DEF Opened, Quiet
<1>10. \A R : Queued(s, R) => Queued(t, R)
  BY <1>4, <1>5, <1>7 DEF Queued
<1> QED BY <1>4, <1>5, <1>6, <1>8, <1>9, <1>10 DEF Works, Writes

\* persistQueue makes the mirror that of the queue.
LEMMA QueuePersisted ==
  ASSUME NEW s \in Runtime, TurnSound(s), ListSound(s, s.queue), NEW t, t = persistQueue(s)
  PROVE  /\ Sound(t) /\ Mirror(t) /\ Quiet(s, t)
         /\ t.queue = s.queue /\ t.fate = s.fate /\ t.next = s.next /\ t.dirty
<1> PICK p : p = Kept(s.queue, {i \in DOMAIN s.queue : s.queue[i].deferred = 0})
  OBVIOUS
<1>1. s.queue \in Seq(Entry) /\ s.store \in StoreType
  BY DEF Runtime
<1>2. /\ p \in Seq(Entry) /\ Len(p) <= Len(s.queue)
      /\ ToSet(p) = {s.queue[i] : i \in {j \in DOMAIN s.queue : s.queue[j].deferred = 0}}
      /\ Distinct(p)
  BY <1>1, KeptEntries DEF ListSound
<1>3. ToSet(p) = {e \in ToSet(s.queue) : e.deferred = 0}
  BY <1>2 DEF ToSet
<1>4. t = [s EXCEPT !.store.pending = p, !.dirty = TRUE]
  BY DEF persistQueue, saveStore, Runtime
<1>5. [s.store EXCEPT !.pending = p] \in StoreType
  BY <1>1, <1>2 DEF StoreType
<1>6. t.store = [s.store EXCEPT !.pending = p] /\ t.store.pending = p
  <2>1. t.store = [s.store EXCEPT !.pending = p]
    BY <1>4 DEF Runtime
  <2> QED BY <1>1, <2>1 DEF StoreType
<1>7. /\ t \in Runtime /\ t.queue = s.queue /\ t.fate = s.fate /\ t.next = s.next /\ Quiet(s, t)
      /\ t.dirty
  <2>1. t = [[s EXCEPT !.store = [s.store EXCEPT !.pending = p]] EXCEPT !.dirty = TRUE]
    BY <1>4 DEF Runtime
  <2>2. PICK S : S = [s.store EXCEPT !.pending = p]
    OBVIOUS
  <2>3. S \in StoreType /\ t = [[s EXCEPT !.store = S] EXCEPT !.dirty = TRUE]
    BY <1>5, <2>1, <2>2
  <2>4. t \in Runtime
    BY <2>3 DEF Runtime
  <2>5. /\ t.queue = s.queue /\ t.fate = s.fate /\ t.next = s.next /\ t.dirty
        /\ t.held = s.held /\ t.opens = s.opens /\ t.turn = s.turn
        /\ t.pendingRun = s.pendingRun /\ t.drain = s.drain /\ t.awaiting = s.awaiting /\ t.arrived = s.arrived
    BY <2>3 DEF Runtime
  <2>6. s.next \in Nat
    BY RunsAreNat DEF Runtime
  <2> QED BY <2>4, <2>5, <2>6 DEF Quiet
<1>8. /\ t.held = s.held /\ t.opens = s.opens /\ t.turn = s.turn
      /\ t.pendingRun = s.pendingRun /\ t.drain = s.drain /\ t.awaiting = s.awaiting /\ t.arrived = s.arrived
  BY <1>7 DEF Quiet
<1>9. TurnSound(t) /\ \A n : Holds(t, n) <=> Holds(s, n)
  BY <1>7, <1>8 DEF TurnSound, Holds
<1>10. ListSound(t, t.queue)
  BY <1>7, <1>8, <1>9 DEF ListSound
<1>11. ListSound(t, p)
  <2>1. Len(p) <= MaxQueueDepth
    <3>1. Len(p) \in Nat /\ Len(s.queue) \in Nat /\ Len(s.queue) <= MaxQueueDepth
      BY <1>1, <1>2 DEF ListSound
    <3> QED BY <1>2, <3>1, RunsAreNat
  <2> QED BY <1>2, <1>3, <1>7, <1>8, <1>9, <2>1 DEF ListSound
<1>12. Mirror(t)
  BY <1>3, <1>6, <1>7 DEF Mirror
<1> QED BY <1>6, <1>7, <1>9, <1>10, <1>11, <1>12 DEF Sound

\* Another queue of fires that wait, in the same runtime.
LEMMA QueueReplaced ==
  ASSUME NEW s \in Runtime, TurnSound(s), NEW q \in Seq(Entry), ListSound(s, q), NEW t, t = [s EXCEPT !.queue = q]
  PROVE  /\ t \in Runtime /\ TurnSound(t) /\ ListSound(t, t.queue) /\ Quiet(s, t)
         /\ t.queue = q /\ t.fate = s.fate /\ t.next = s.next /\ t.store = s.store
<1>1. t \in Runtime
  BY DEF Runtime
<1>2. /\ t.queue = q /\ t.fate = s.fate /\ t.next = s.next /\ t.store = s.store
      /\ t.held = s.held /\ t.opens = s.opens /\ t.turn = s.turn
      /\ t.pendingRun = s.pendingRun /\ t.drain = s.drain /\ t.awaiting = s.awaiting /\ t.arrived = s.arrived
  BY DEF Runtime
<1>3. s.next \in Nat
  BY RunsAreNat DEF Runtime
<1>4. TurnSound(t)
  BY <1>2 DEF TurnSound
<1>5. ListSound(t, q)
  BY <1>2 DEF ListSound, Holds
<1> QED BY <1>1, <1>2, <1>3, <1>4, <1>5 DEF Quiet

\* An entry dropped: its run is recorded and no other one is forgotten.
LEMMA EntryDropped ==
  ASSUME NEW s, Sound(s), NEW i \in DOMAIN s.queue, NEW t, t = dropQueuedFireAt(s, i)
  PROVE  /\ Sound(t) /\ Quiet(s, t) /\ Mirror(t) /\ t.next = s.next
         /\ ToSet(s.queue) = ToSet(t.queue) \cup {s.queue[i]} /\ Len(t.queue) = Len(s.queue) - 1
         /\ \A R : Queued(s, R) => Queued(t, R)
         /\ \A R : Opened(s, R) => Opened(t, R)
<1> PICK q : q = RemoveAt(s.queue, i)
  OBVIOUS
<1> PICK d : d = s.queue[i]
  OBVIOUS
<1>1. s.queue \in Seq(Entry) /\ s \in Runtime /\ TurnSound(s) /\ ListSound(s, s.queue) /\ d \in Entry
  BY DEF Sound, Runtime
<1>2. /\ q \in Seq(Entry) /\ Len(q) = Len(s.queue) - 1 /\ ToSet(s.queue) = ToSet(q) \cup {d}
      /\ Distinct(q) /\ d.run \notin RunsOf(q)
  BY <1>1, RemovedAt DEF ListSound
<1>3. ListSound(s, q)
  <2>1. Len(s.queue) \in Nat /\ Len(q) \in Nat
    BY <1>1, <1>2
  <2> QED BY <1>1, <1>2, <2>1, RunsAreNat DEF ListSound
<1>4. PICK s0 : s0 = [s EXCEPT !.queue = q]
  OBVIOUS
<1>5. /\ s0 \in Runtime /\ TurnSound(s0) /\ ListSound(s0, s0.queue) /\ Quiet(s, s0)
      /\ s0.queue = q /\ s0.fate = s.fate /\ s0.next = s.next
  BY <1>1, <1>2, <1>3, <1>4, QueueReplaced
<1>6. PICK s1 : s1 = persistQueue(s0)
  OBVIOUS
<1>7. /\ Sound(s1) /\ Mirror(s1) /\ Quiet(s0, s1) /\ s1.queue = q /\ s1.fate = s.fate /\ s1.next = s.next
  BY <1>5, <1>6, QueuePersisted
<1>8. PICK status : status = IF d.r \in s.store.live THEN "skipped" ELSE "gone"
  OBVIOUS
<1>9. t = recordRun(s1, d.run, status)
  BY <1>4, <1>6, <1>8 DEF dropQueuedFireAt
<1>10. d.run \in Runs /\ status \in Fates \ {"issued", "opened"}
  BY <1>1, <1>8, EntryFields DEF Fates
<1>11. Works(s1, t, {}) /\ t.queue = q /\ t.fate = [s1.fate EXCEPT ![d.run] = status]
  BY <1>7, <1>9, <1>10, RunRecorded
<1>12. Sound(t) /\ Mirror(t) /\ Quiet(s, t)
  <2>1. s.next \in Nat /\ s0.next \in Nat /\ s1.next \in Nat /\ t.next \in Nat
    BY <1>1, <1>5, <1>7, <1>11, RunsAreNat DEF Sound, Runtime, Works
  <2> QED BY <1>5, <1>7, <1>11, <2>1 DEF Works, Quiet
<1>13. t.next = s.next
  BY <1>7, <1>9 DEF recordRun, saveStore, Sound, Runtime
<1>14. \A n \in Runs : t.fate[n] = IF n = d.run THEN status ELSE s.fate[n]
  BY <1>7, <1>11 DEF Sound, Runtime
<1>15. ASSUME NEW R, Queued(s, R), NEW n \in Runs, t.fate[n] = "issued"
       PROVE  n \in NormalRuns(t.queue) \/ Holds(t, n) \/ n \in R
  <2>1. n # d.run /\ s.fate[n] = "issued"
    BY <1>10, <1>14, <1>15
  <2>2. Holds(t, n) <=> Holds(s, n)
    BY <1>12 DEF Quiet, Holds
  <2>3. n \in NormalRuns(s.queue) => n \in NormalRuns(q)
    BY <1>2, <2>1 DEF NormalRuns
  <2> QED BY <1>11, <1>15, <2>1, <2>2, <2>3 DEF Queued
<1>16. \A R : Opened(s, R) => Opened(t, R)
  BY <1>10, <1>12, <1>14 DEF Opened, Quiet
<1> QED BY <1>2, <1>11, <1>12, <1>13, <1>15, <1>16 DEF Queued

\* Where an entry goes in.
LEMMA PlaceInQueue ==
  ASSUME NEW q \in Seq(Entry), NEW D, D = {i \in DOMAIN q : q[i].deferred = 0}
  PROVE  /\ D # {} => Max(D) \in DOMAIN q /\ Min(D) \in 1..(Len(q) + 1)
         /\ Len(q) + 1 \in 1..(Len(q) + 1)
<1>1. D \subseteq 0..Len(q) /\ D \subseteq Nat /\ Len(q) \in Nat /\ D \subseteq DOMAIN q /\ DOMAIN q = 1..Len(q)
  OBVIOUS
<1>2. D # {} => Max(D) \in D /\ Min(D) \in D
  BY <1>1, MaxOf, MinOf
<1> QED BY <1>1, <1>2

\* enqueueRoutineFire makes room: the last normal entry, or the oldest one, is dropped
\* from a full queue.
Room(s, priority) ==
  LET normal == {i \in DOMAIN s.queue : s.queue[i].deferred = 0}
  IN IF Len(s.queue) >= MaxQueueDepth
     THEN dropQueuedFireAt(s, IF priority /\ normal # {} THEN Max(normal) ELSE 1) ELSE s

LEMMA RoomMade ==
  ASSUME NEW s, Sound(s), NEW priority, NEW t, t = Room(s, priority)
  PROVE  /\ Sound(t) /\ Quiet(s, t) /\ t.next = s.next /\ ToSet(t.queue) \subseteq ToSet(s.queue)
         /\ Len(t.queue) + 1 <= MaxQueueDepth
         /\ \A R : Queued(s, R) => Queued(t, R)
         /\ \A R : Opened(s, R) => Opened(t, R)
<1> DEFINE D == {i \in DOMAIN s.queue : s.queue[i].deferred = 0}
<1>1. PICK victim : victim = IF priority /\ D # {} THEN Max(D) ELSE 1
  OBVIOUS
<1>2. s.next \in Nat /\ s.queue \in Seq(Entry) /\ ListSound(s, s.queue)
  BY RunsAreNat DEF Sound, Runtime
<1>3. Len(s.queue) \in Nat /\ DOMAIN s.queue = 1..Len(s.queue) /\ Len(s.queue) <= MaxQueueDepth
  BY <1>2 DEF ListSound
<1>4. CASE Len(s.queue) >= MaxQueueDepth
  <2>1. 1 \in DOMAIN s.queue
    BY <1>3, <1>4, RunsAreNat
  <2>2. D # {} => Max(D) \in DOMAIN s.queue
    BY <1>2, PlaceInQueue
  <2>3. victim \in DOMAIN s.queue
    BY <1>1, <2>1, <2>2
  <2>4. t = dropQueuedFireAt(s, victim)
    BY <1>1, <1>4 DEF Room
  <2> HIDE DEF D
  <2>5. /\ Sound(t) /\ Quiet(s, t) /\ t.next = s.next
        /\ ToSet(s.queue) = ToSet(t.queue) \cup {s.queue[victim]} /\ Len(t.queue) = Len(s.queue) - 1
        /\ \A R : Queued(s, R) => Queued(t, R)
        /\ \A R : Opened(s, R) => Opened(t, R)
    BY <2>3, <2>4, EntryDropped
  <2> QED BY <1>3, <2>5, RunsAreNat
<1>5. CASE ~(Len(s.queue) >= MaxQueueDepth)
  <2>1. t = s
    BY <1>5 DEF Room
  <2>2. Quiet(s, s)
    BY <1>2 DEF Quiet
  <2> QED BY <1>3, <1>5, <2>1, <2>2, RunsAreNat
<1> QED BY <1>4, <1>5

\* The entry in its place, with its fate, mirrored.
Placed(s, i, e) ==
  persistQueue([s EXCEPT !.queue = InsertAt(s.queue, i, e),
                         !.fate[e.run] = IF e.deferred = 0 THEN "issued" ELSE "replay",
                         !.watchdog = TRUE])

LEMMA EntryPlaced ==
  ASSUME NEW s, Sound(s), Len(s.queue) + 1 <= MaxQueueDepth, NEW i \in 1..(Len(s.queue) + 1), NEW e \in Entry,
         e.run \notin RunsOf(s.queue), e.run < s.next, s.opens[e.run] = 0, ~Holds(s, e.run),
         NEW t, t = Placed(s, i, e)
  PROVE  /\ Works(s, t, {e}) /\ Mirror(t) /\ t.next = s.next /\ t.dirty
         /\ \A R : Queued(s, R) => Queued(t, R \ {e.run})
<1>1. s \in Runtime /\ TurnSound(s) /\ s.queue \in Seq(Entry) /\ ListSound(s, s.queue) /\ s.next \in Nat
  BY RunsAreNat DEF Sound, Runtime
<1>2. PICK q : q = InsertAt(s.queue, i, e)
  OBVIOUS
<1>3. q \in Seq(Entry) /\ Len(q) = Len(s.queue) + 1 /\ ToSet(q) = ToSet(s.queue) \cup {e} /\ Distinct(q)
  <2>1. PICK b \in Seq(Entry) : b = s.queue
    BY <1>1
  <2>2. i \in 1..(Len(b) + 1) /\ q = InsertAt(b, i, e)
    BY <1>2, <2>1
  <2>3. /\ q \in Seq(Entry) /\ Len(q) = Len(b) + 1 /\ ToSet(q) = ToSet(b) \cup {e}
        /\ Distinct(b) /\ e.run \notin RunsOf(b) => Distinct(q)
    BY <2>2, Inserted
  <2>4. Distinct(b) /\ e.run \notin RunsOf(b)
    BY <1>1, <2>1 DEF ListSound
  <2> QED BY <2>1, <2>3, <2>4
<1>4. e.run \in Runs
  BY EntryFields
<1>5. PICK fate : fate = IF e.deferred = 0 THEN "issued" ELSE "replay"
  OBVIOUS
<1>6. PICK f : f = [s.fate EXCEPT ![e.run] = fate]
  OBVIOUS
<1>7. f \in [Runs -> Fates] /\ \A n \in Runs : f[n] = IF n = e.run THEN fate ELSE s.fate[n]
  BY <1>1, <1>4, <1>5, <1>6 DEF Runtime, Fates
<1>8. PICK m : m = [s EXCEPT !.fate = f]
  OBVIOUS
<1>9. /\ m \in Runtime /\ m.queue = s.queue /\ m.fate = f /\ m.next = s.next
      /\ m.held = s.held /\ m.opens = s.opens /\ m.turn = s.turn
      /\ m.pendingRun = s.pendingRun /\ m.drain = s.drain /\ m.awaiting = s.awaiting /\ m.arrived = s.arrived
  BY <1>1, <1>7, <1>8 DEF Runtime
<1>10. PICK s2 : s2 = [m EXCEPT !.watchdog = TRUE]
  OBVIOUS
<1>11. /\ s2 \in Runtime /\ s2.queue = s.queue /\ s2.fate = f /\ s2.next = s.next
       /\ s2.held = s.held /\ s2.opens = s.opens /\ s2.turn = s.turn
       /\ s2.pendingRun = s.pendingRun /\ s2.drain = s.drain /\ s2.awaiting = s.awaiting /\ s2.arrived = s.arrived
  BY <1>9, <1>10 DEF Runtime
<1>12. TurnSound(s2) /\ \A n : Holds(s2, n) <=> Holds(s, n)
  BY <1>1, <1>11 DEF TurnSound, Holds
<1>13. ListSound(s2, q)
  BY <1>1, <1>3, <1>4, <1>11, <1>12 DEF ListSound
<1>14. PICK s3 : s3 = [s2 EXCEPT !.queue = q]
  OBVIOUS
<1>15. /\ s3 \in Runtime /\ TurnSound(s3) /\ ListSound(s3, s3.queue) /\ Quiet(s2, s3)
       /\ s3.queue = q /\ s3.fate = f /\ s3.next = s.next
  <2>1. /\ s3 \in Runtime /\ TurnSound(s3) /\ ListSound(s3, s3.queue) /\ Quiet(s2, s3)
        /\ s3.queue = q /\ s3.fate = s2.fate /\ s3.next = s2.next
    BY <1>3, <1>11, <1>12, <1>13, <1>14, QueueReplaced
  <2> QED BY <1>11, <2>1
<1>16. t = persistQueue(s3)
  <2>1. t = persistQueue([s EXCEPT !.queue = q, !.fate[e.run] = fate, !.watchdog = TRUE])
    BY <1>2, <1>5 DEF Placed
  <2>2. s3 = [s EXCEPT !.queue = q, !.fate[e.run] = fate, !.watchdog = TRUE]
    BY <1>1, <1>6, <1>8, <1>10, <1>14 DEF Runtime
  <2> QED BY <2>1, <2>2
<1>17. /\ Sound(t) /\ Mirror(t) /\ Quiet(s3, t) /\ t.queue = q /\ t.fate = f /\ t.next = s.next /\ t.dirty
  BY <1>15, <1>16, QueuePersisted
<1>18. Quiet(s, t) /\ \A n : Holds(t, n) <=> Holds(s, n)
  <2>1. /\ t.held = s.held /\ t.opens = s.opens /\ t.turn = s.turn /\ t.next = s.next
        /\ t.pendingRun = s.pendingRun /\ t.drain = s.drain /\ t.awaiting = s.awaiting /\ t.arrived = s.arrived
    BY <1>11, <1>15, <1>17 DEF Quiet
  <2>2. Quiet(s, t)
    BY <1>1, <2>1 DEF Quiet
  <2>3. \A n : Holds(t, n) <=> Holds(s, n)
    BY <2>1 DEF Holds
  <2> QED BY <2>2, <2>3
<1>19. ASSUME NEW R, Queued(s, R), NEW n \in Runs, t.fate[n] = "issued"
       PROVE  n \in NormalRuns(t.queue) \/ Holds(t, n) \/ n \in R \ {e.run}
  <2>1. CASE n = e.run
    <3>1. e.deferred = 0 /\ e \in ToSet(q)
      BY <1>3, <1>5, <1>7, <1>17, <1>19, <2>1
    <3> QED BY <1>17, <2>1, <3>1 DEF NormalRuns
  <2>2. CASE n # e.run
    <3>1. s.fate[n] = "issued"
      BY <1>7, <1>17, <1>19, <2>2
    <3>2. n \in NormalRuns(s.queue) \/ Holds(s, n) \/ n \in R
      BY <1>19, <3>1 DEF Queued
    <3>3. n \in NormalRuns(s.queue) => n \in NormalRuns(q)
      BY <1>3 DEF NormalRuns
    <3> QED BY <1>17, <1>18, <2>2, <3>2, <3>3
  <2> QED BY <2>1, <2>2
<1>20. \A R : Queued(s, R) => Queued(t, R \ {e.run})
  BY <1>19 DEF Queued
<1>21. \A R : Queued(s, R) => Queued(t, R)
  BY <1>19 DEF Queued
<1>22. \A R : Opened(s, R) => Opened(t, R)
  <2> SUFFICES ASSUME NEW R, Opened(s, R), NEW n \in Runs \ R, t.fate[n] = "opened"
               PROVE  t.turn /\ t.pendingRun # NoRun /\ t.pendingRun.run = n
    BY DEF Opened
  <2>1. s.fate[n] = "opened"
    BY <1>5, <1>7, <1>17
  <2> QED BY <1>18, <2>1 DEF Opened, Quiet
<1> QED BY <1>3, <1>17, <1>18, <1>20, <1>21, <1>22 DEF Works, Writes

\* enqueueRoutineFire: the entry waits, and if it dropped another one to make room, that
\* one is recorded.
LEMMA FireEnqueued ==
  ASSUME NEW s, Sound(s), NEW e \in Entry, NEW priority \in BOOLEAN,
         e.run \notin RunsOf(s.queue), e.run < s.next, s.opens[e.run] = 0, ~Holds(s, e.run),
         NEW t, t = enqueueRoutineFire(s, e, priority)
  PROVE  /\ Works(s, t, {e}) /\ Mirror(t) /\ t.next = s.next /\ t.dirty
         /\ \A R : Queued(s, R) => Queued(t, R \ {e.run})
<1>1. PICK s1 : s1 = Room(s, priority)
  OBVIOUS
<1>2. /\ Sound(s1) /\ Quiet(s, s1) /\ s1.next = s.next /\ ToSet(s1.queue) \subseteq ToSet(s.queue)
      /\ Len(s1.queue) + 1 <= MaxQueueDepth
      /\ \A R : Queued(s, R) => Queued(s1, R)
      /\ \A R : Opened(s, R) => Opened(s1, R)
  BY <1>1, RoomMade
<1> DEFINE D == {i \in DOMAIN s1.queue : s1.queue[i].deferred = 0}
<1>3. PICK i : i = IF priority /\ D # {} THEN Min(D) ELSE Len(s1.queue) + 1
  OBVIOUS
<1>4. i \in 1..(Len(s1.queue) + 1)
  <2>1. s1.queue \in Seq(Entry)
    BY <1>2 DEF Sound, Runtime
  <2>2. D # {} => Min(D) \in 1..(Len(s1.queue) + 1)
    BY <2>1, PlaceInQueue
  <2>3. Len(s1.queue) + 1 \in 1..(Len(s1.queue) + 1)
    BY <2>1, PlaceInQueue
  <2> QED BY <1>3, <2>2, <2>3
<1>5. t = Placed(s1, i, e)
  BY <1>1, <1>3 DEF enqueueRoutineFire, Room, Placed
<1> HIDE DEF D
<1>6. e.run \notin RunsOf(s1.queue) /\ e.run < s1.next /\ s1.opens[e.run] = 0 /\ ~Holds(s1, e.run)
  <2>1. e.run \notin RunsOf(s1.queue)
    BY <1>2, RunsOfSet
  <2> QED BY <1>2, <2>1 DEF Quiet, Holds
<1>7. /\ Works(s1, t, {e}) /\ Mirror(t) /\ t.next = s1.next /\ t.dirty
      /\ \A R : Queued(s1, R) => Queued(t, R \ {e.run})
  BY <1>2, <1>4, <1>5, <1>6, EntryPlaced
<1>8. Quiet(s, t)
  <2>1. s.next \in Nat /\ s1.next \in Nat /\ t.next \in Nat
    BY <1>2, <1>7, RunsAreNat DEF Sound, Runtime, Works
  <2> QED BY <1>2, <1>7, <2>1 DEF Works, Quiet
<1> QED BY <1>2, <1>7, <1>8 DEF Works, Writes

\* A new fire.
LEMMA FireIssued ==
  ASSUME NEW s, Sound(s), NEW r \in Routines, NEW sort \in Kinds, NEW deferred \in 0..MaxSessions,
         NEW priority \in BOOLEAN, NEW X, \A e \in Entry : e.deferred = deferred /\ e.run = s.next => e \in X,
         NEW t, t = newFire(s, r, sort, deferred, priority)
  PROVE  Works(s, t, X)
<1>1. CASE s.next > MaxRuns
  BY <1>1, WorksSelf DEF newFire
<1>2. CASE ~(s.next > MaxRuns)
  <2>1. PICK e : e = [r |-> r, run |-> s.next, kind |-> sort, deferred |-> deferred]
    OBVIOUS
  <2>2. s.next \in Runs /\ s.next \in Nat /\ s \in Runtime
    BY <1>2, RunsAreNat DEF Sound, Runtime, Runs
  <2>3. e \in Entry /\ e.run = s.next /\ e.deferred = deferred /\ e \in X
    BY <2>1, <2>2 DEF Entry
  <2>4. PICK m : m = [s EXCEPT !.next = s.next + 1]
    OBVIOUS
  <2>5. t = enqueueRoutineFire(m, e, priority)
    BY <1>2, <2>1, <2>4 DEF newFire
  <2>6. /\ m \in Runtime /\ m.queue = s.queue /\ m.store = s.store /\ m.fate = s.fate /\ m.next = s.next + 1
        /\ m.held = s.held /\ m.opens = s.opens /\ m.turn = s.turn
        /\ m.pendingRun = s.pendingRun /\ m.drain = s.drain /\ m.awaiting = s.awaiting /\ m.arrived = s.arrived
        /\ m.dirty = s.dirty
    <3>1. s.next + 1 \in 1..(MaxRuns + 1)
      BY <2>2, RunsAreNat DEF Runs
    <3> QED BY <2>2, <2>4, <3>1 DEF Runtime
  <2>7. Quiet(s, m)
    BY <2>2, <2>6 DEF Quiet
  <2>8. Works(s, m, X)
    BY <2>6, <2>7, BesideWorks
  <2>9. e.run \notin RunsOf(m.queue) /\ e.run < m.next /\ m.opens[e.run] = 0 /\ ~Holds(m, e.run)
    <3>1. s.next \notin RunsOf(s.queue)
      <4>1. \A x \in ToSet(s.queue) : x.run < s.next
        BY DEF Sound, ListSound
      <4> QED BY <2>2, <4>1, RunsOfSet
    <3>2. s.opens[s.next] = 0 /\ ~Holds(s, s.next)
      <4>1. TurnSound(s)
        BY DEF Sound
      <4> QED BY <2>2, <4>1 DEF TurnSound, Holds
    <3> QED BY <2>2, <2>3, <2>6, <3>1, <3>2 DEF Holds
  <2>10. Works(m, t, {e})
    BY <2>3, <2>5, <2>8, <2>9, FireEnqueued DEF Works
  <2>11. Works(m, t, X)
    BY <2>3, <2>10 DEF Works
  <2> QED BY <2>8, <2>11, WorksTrans
<1> QED BY <1>1, <1>2

-----------------------------------------------------------------------------
(* What touches neither the queue nor the drain nor the turn.              *)

Aside(s, t) ==
  /\ t \in Runtime /\ t.queue = s.queue /\ t.store.pending = s.store.pending /\ t.fate = s.fate /\ t.next = s.next
  /\ t.held = s.held /\ t.opens = s.opens /\ t.turn = s.turn
  /\ t.pendingRun = s.pendingRun /\ t.drain = s.drain /\ t.awaiting = s.awaiting /\ t.arrived = s.arrived
  /\ s.dirty => t.dirty

LEMMA AsideWorks ==
  ASSUME NEW s, Sound(s), NEW t, Aside(s, t), NEW X
  PROVE  Works(s, t, X) /\ \A R : Queued(s, R) => Queued(t, R)
<1>1. s.next \in Nat
  BY RunsAreNat DEF Sound, Runtime
<1>2. Quiet(s, t)
  BY <1>1 DEF Aside, Quiet
<1> QED BY <1>2, BesideWorks DEF Aside

LEMMA AsideTrans == ASSUME NEW s, NEW t, NEW u, Aside(s, t), Aside(t, u) PROVE Aside(s, u)
  BY DEF Aside

\* The store with other hooks, marks or counts.
LEMMA StoreAside ==
  ASSUME NEW s \in Runtime, NEW S \in StoreType, S.pending = s.store.pending
  PROVE  Aside(s, [s EXCEPT !.store = S])
<1>1. PICK t : t = [s EXCEPT !.store = S]
  OBVIOUS
<1>2. t \in Runtime
  BY <1>1 DEF Runtime
<1>3. /\ t.queue = s.queue /\ t.store.pending = s.store.pending /\ t.fate = s.fate /\ t.next = s.next
      /\ t.held = s.held /\ t.opens = s.opens /\ t.turn = s.turn
      /\ t.pendingRun = s.pendingRun /\ t.drain = s.drain /\ t.awaiting = s.awaiting /\ t.arrived = s.arrived
      /\ t.dirty = s.dirty
  BY <1>1 DEF Runtime
<1> QED BY <1>1, <1>2, <1>3 DEF Aside

LEMMA SaveAside == ASSUME NEW s \in Runtime PROVE Aside(s, saveStore(s))
<1>1. PICK t : t = [s EXCEPT !.dirty = TRUE]
  OBVIOUS
<1>2. t \in Runtime
  BY <1>1 DEF Runtime
<1>3. /\ t.queue = s.queue /\ t.store.pending = s.store.pending /\ t.fate = s.fate /\ t.next = s.next
      /\ t.held = s.held /\ t.opens = s.opens /\ t.turn = s.turn
      /\ t.pendingRun = s.pendingRun /\ t.drain = s.drain /\ t.awaiting = s.awaiting /\ t.arrived = s.arrived
      /\ t.dirty
  BY <1>1 DEF Runtime
<1> QED BY <1>1, <1>2, <1>3 DEF Aside, saveStore

LEMMA KeptHooks ==
  ASSUME NEW q \in Seq(Hooks), NEW D \in SUBSET DOMAIN q PROVE Kept(q, D) \in Seq(Hooks)
  BY KeptList

LEMMA HookRemovedAside ==
  ASSUME NEW s \in Runtime, NEW e PROVE Aside(s, removeDeferredHook(s, e))
<1>1. s.store \in StoreType /\ s.store.deferred \in Seq(Hooks)
  BY DEF Runtime, StoreType
<1>2. PICK p : p = Kept(s.store.deferred, {i \in DOMAIN s.store.deferred : s.store.deferred[i] # [id |-> e.deferred, r |-> e.r]})
  OBVIOUS
<1>3. p \in Seq(Hooks)
  BY <1>1, <1>2, KeptHooks
<1>4. PICK S : S = [s.store EXCEPT !.deferred = p]
  OBVIOUS
<1>5. S \in StoreType /\ S.pending = s.store.pending
  BY <1>1, <1>3, <1>4 DEF StoreType
<1>6. removeDeferredHook(s, e) = [s EXCEPT !.store = S]
  BY <1>2, <1>4 DEF removeDeferredHook, Runtime
<1> QED BY <1>5, <1>6, StoreAside

LEMMA CommitAside ==
  ASSUME NEW s \in Runtime, NEW r \in Routines, day \in Nat PROVE Aside(s, commitHookFire(s, r))
<1>1. s.store \in StoreType /\ s.store.onceDay \in Times
  BY DEF Runtime, StoreType
<1>2. Aside(s, s)
  BY DEF Aside
<1>3. Aside(s, [s EXCEPT !.hookFires = s.hookFires \cup {r}])
  <2>1. PICK t : t = [s EXCEPT !.hookFires = s.hookFires \cup {r}]
    OBVIOUS
  <2>2. PICK h : h = s.hookFires \cup {r}
    OBVIOUS
  <2>3. h \in SUBSET Routines
    BY <2>2 DEF Runtime
  <2>4. t \in Runtime
    BY <2>1, <2>2, <2>3 DEF Runtime
  <2>5. /\ t.queue = s.queue /\ t.store.pending = s.store.pending /\ t.fate = s.fate /\ t.next = s.next
        /\ t.held = s.held /\ t.opens = s.opens /\ t.turn = s.turn
        /\ t.pendingRun = s.pendingRun /\ t.drain = s.drain /\ t.awaiting = s.awaiting /\ t.arrived = s.arrived
        /\ t.dirty = s.dirty
    BY <2>1 DEF Runtime
  <2> QED BY <2>1, <2>4, <2>5 DEF Aside
<1>4. Aside(s, [s EXCEPT !.store.onceDay[r] = day])
  <2>1. PICK d : d = [s.store.onceDay EXCEPT ![r] = day]
    OBVIOUS
  <2>2. d \in Times
    BY <1>1, <2>1 DEF Times
  <2>3. PICK S : S = [s.store EXCEPT !.onceDay = d]
    OBVIOUS
  <2>4. S \in StoreType /\ S.pending = s.store.pending
    BY <1>1, <2>2, <2>3 DEF StoreType
  <2>5. [s EXCEPT !.store.onceDay[r] = day] = [s EXCEPT !.store = S]
    BY <2>1, <2>3 DEF Runtime
  <2> QED BY <2>4, <2>5, StoreAside
<1>5. HookOnce[r] \in {"always", "daily", "per_session"}
  BY FiresAssumption
<1> QED BY <1>2, <1>3, <1>4, <1>5 DEF commitHookFire

LEMMA ForgetAside ==
  ASSUME NEW s \in Runtime, NEW r \in Routines PROVE Aside(s, forgetRoutine(s, r))
<1>1. s.store \in StoreType
  BY DEF Runtime
<1>2. PICK S : S = [s.store EXCEPT !.live = s.store.live \ {r}, !.paused = s.store.paused \ {r},
                                   !.ticks[r] = 0, !.used[r] = 0, !.usedDay[r] = 0, !.onceDay[r] = 0]
  OBVIOUS
<1>3. S \in StoreType /\ S.pending = s.store.pending
  <2>1. PICK a : a = [s.store.ticks EXCEPT ![r] = 0]
    OBVIOUS
  <2>2. PICK b : b = [s.store.used EXCEPT ![r] = 0]
    OBVIOUS
  <2>3. PICK c : c = [s.store.usedDay EXCEPT ![r] = 0]
    OBVIOUS
  <2>4. PICK d : d = [s.store.onceDay EXCEPT ![r] = 0]
    OBVIOUS
  <2>5. a \in Times /\ b \in Times /\ c \in Times /\ d \in Times
    BY <1>1, <2>1, <2>2, <2>3, <2>4 DEF StoreType, Times
  <2>6. PICK T : T = [s.store EXCEPT !.live = s.store.live \ {r}, !.paused = s.store.paused \ {r}]
    OBVIOUS
  <2>7. T \in StoreType /\ T.pending = s.store.pending
    BY <1>1, <2>6 DEF StoreType
  <2>8. S = [T EXCEPT !.ticks = a, !.used = b, !.usedDay = c, !.onceDay = d]
    BY <1>1, <1>2, <2>1, <2>2, <2>3, <2>4, <2>6 DEF StoreType
  <2> QED BY <2>5, <2>7, <2>8 DEF StoreType
<1>4. forgetRoutine(s, r) = [s EXCEPT !.store = S]
  BY <1>2 DEF forgetRoutine
<1> QED BY <1>3, <1>4, StoreAside

\* An awaited write: only the await is new.
LEMMA SaveAwaited ==
  ASSUME NEW s \in Runtime, NEW who \in Waiters, NEW t, t = awaitSave(s, who)
  PROVE  /\ t \in Runtime /\ t.queue = s.queue /\ t.store = s.store /\ t.fate = s.fate /\ t.next = s.next
         /\ t.held = s.held /\ t.opens = s.opens /\ t.turn = s.turn /\ t.pendingRun = s.pendingRun
         /\ t.drain = s.drain /\ t.awaiting = s.awaiting \cup {who} /\ t.arrived = s.arrived
         /\ t.dirty
<1>1. PICK w : w = s.awaiting \cup {who}
  OBVIOUS
<1>2. w \in SUBSET Waiters
  BY <1>1 DEF Runtime
<1>3. PICK m : m = [s EXCEPT !.dirty = TRUE]
  OBVIOUS
<1>4. /\ m \in Runtime /\ m.queue = s.queue /\ m.store = s.store /\ m.fate = s.fate /\ m.next = s.next
      /\ m.held = s.held /\ m.opens = s.opens /\ m.turn = s.turn
      /\ m.pendingRun = s.pendingRun /\ m.drain = s.drain /\ m.awaiting = s.awaiting /\ m.arrived = s.arrived
      /\ m.dirty
  BY <1>3 DEF Runtime
<1>5. t = [m EXCEPT !.awaiting = w]
  BY <1>1, <1>3 DEF awaitSave, Runtime
<1>6. t \in Runtime
  BY <1>2, <1>4, <1>5 DEF Runtime
<1>7. /\ t.queue = m.queue /\ t.store = m.store /\ t.fate = m.fate /\ t.next = m.next
      /\ t.held = m.held /\ t.opens = m.opens /\ t.turn = m.turn /\ t.pendingRun = m.pendingRun
      /\ t.drain = m.drain /\ t.awaiting = w /\ t.arrived = m.arrived /\ t.dirty
  BY <1>4, <1>5 DEF Runtime
<1> QED BY <1>1, <1>4, <1>6, <1>7

-----------------------------------------------------------------------------
(* The drain.                                                              *)

\* From s to t no fire came to the queue, the drain's hand or the turn from elsewhere.
Shrinks(s, t) ==
  /\ ToSet(t.queue) \subseteq ToSet(s.queue)
  /\ InHand(t) \subseteq InHand(s) \cup RunsOf(s.queue)
  /\ t.pendingRun \notin {NoRun, s.pendingRun} => t.pendingRun.run \in InHand(s)
  /\ s.queue = <<>> => t.queue = <<>> /\ t.store.pending = s.store.pending

\* From s to t the drain may have taken up an entry, and nothing was lost by it.
Drains(s, t) ==
  /\ Sound(t) /\ Shrinks(s, t)
  /\ Mirror(s) => Mirror(t)
  /\ \A R : Queued(s, R) => Queued(t, R)
  /\ \A R : Opened(s, R) => Opened(t, R)
  /\ Writes(s, t)
  /\ t.turn = s.turn /\ t.pendingRun = s.pendingRun /\ t.fate = s.fate
  /\ t.opens = s.opens /\ t.next = s.next
  /\ t.arrived = s.arrived /\ t.awaiting \subseteq s.awaiting \cup {"drain"}
  /\ "drain" \in t.arrived => t.held = s.held /\ t.drain = s.drain

\* The loop ends: no entry, a turn open or pi busy.
LEMMA LoopLeft ==
  ASSUME NEW s, Sound(s), "drain" \notin s.arrived, "drain" \notin s.awaiting,
         \A n \in Runs : Holds(s, n) => s.fate[n] # "issued",
         NEW t, t = [s EXCEPT !.drain = "no", !.held = NoEntry, !.watchdog = s.queue # <<>>]
  PROVE  Drains(s, t) /\ t.drain = "no"
<1>1. s \in Runtime /\ TurnSound(s) /\ ListSound(s, s.queue) /\ ListSound(s, s.store.pending)
  BY DEF Sound
<1>2. PICK b \in BOOLEAN : b = (s.queue # <<>>)
  OBVIOUS
<1>3. t = [s EXCEPT !.drain = "no", !.held = NoEntry, !.watchdog = b]
  BY <1>2
<1>4. t \in Runtime
  BY <1>1, <1>3 DEF Runtime
<1>5. /\ t.queue = s.queue /\ t.store = s.store /\ t.fate = s.fate /\ t.next = s.next
      /\ t.held = NoEntry /\ t.opens = s.opens /\ t.turn = s.turn /\ t.pendingRun = s.pendingRun
      /\ t.drain = "no" /\ t.awaiting = s.awaiting /\ t.arrived = s.arrived /\ t.dirty = s.dirty
  BY <1>1, <1>3 DEF Runtime
<1>6. TurnSound(t) /\ \A n : ~Holds(t, n)
  BY <1>1, <1>5 DEF TurnSound, Holds
<1>7. ListSound(t, t.queue) /\ ListSound(t, t.store.pending)
  BY <1>1, <1>5, <1>6 DEF ListSound
<1>8. Mirror(s) => Mirror(t)
  BY <1>5 DEF Mirror
<1>9. \A R : Queued(s, R) => Queued(t, R)
  BY <1>5 DEF Queued
<1>10. \A R : Opened(s, R) => Opened(t, R)
  BY <1>5 DEF Opened
<1>11. Writes(s, t)
  BY <1>1, <1>5 DEF Writes, Runtime
<1>12. Shrinks(s, t)
  BY <1>5 DEF Shrinks, InHand
<1> QED BY <1>4, <1>5, <1>6, <1>7, <1>8, <1>9, <1>10, <1>11, <1>12 DEF Drains, Sound

\* The loop takes the head of the queue in hand and persists its removal.
LEMMA HeadTaken ==
  ASSUME NEW s, Sound(s), "drain" \notin s.arrived, "drain" \notin s.awaiting, ~s.turn, s.queue # <<>>,
         \A n \in Runs : Holds(s, n) => s.fate[n] # "issued",
         NEW t, t = [awaitSave(persistQueue([s EXCEPT !.queue = Tail(s.queue)]), "drain")
                       EXCEPT !.drain = "persist", !.held = Head(s.queue)]
  PROVE  Drains(s, t)
<1>1. s \in Runtime /\ TurnSound(s) /\ ListSound(s, s.queue) /\ s.queue \in Seq(Entry)
  BY DEF Sound, Runtime
<1>2. PICK q : q = Tail(s.queue)
  OBVIOUS
<1>3. PICK e : e = Head(s.queue)
  OBVIOUS
<1>4. /\ q \in Seq(Entry) /\ Len(q) = Len(s.queue) - 1 /\ e \in Entry /\ e \in ToSet(s.queue)
      /\ ToSet(s.queue) = ToSet(q) \cup {e} /\ Distinct(q) /\ e.run \notin RunsOf(q)
  BY <1>1, <1>2, <1>3, Headed DEF ListSound
<1>5. ListSound(s, q)
  <2>1. Len(q) <= MaxQueueDepth
    <3>1. Len(s.queue) \in Nat /\ Len(s.queue) <= MaxQueueDepth
      BY <1>1 DEF ListSound
    <3> QED BY <1>4, <3>1, RunsAreNat
  <2> QED BY <1>1, <1>4, <2>1 DEF ListSound
<1>6. PICK m : m = [s EXCEPT !.queue = q]
  OBVIOUS
<1>7. /\ m \in Runtime /\ TurnSound(m) /\ ListSound(m, m.queue) /\ Quiet(s, m)
      /\ m.queue = q /\ m.fate = s.fate /\ m.next = s.next
  BY <1>1, <1>4, <1>5, <1>6, QueueReplaced
<1>8. PICK p : p = persistQueue(m)
  OBVIOUS
<1>9. /\ Sound(p) /\ Mirror(p) /\ Quiet(m, p) /\ p.queue = q /\ p.fate = s.fate /\ p.next = s.next
  BY <1>7, <1>8, QueuePersisted
<1>10. PICK a : a = awaitSave(p, "drain")
  OBVIOUS
<1>11. /\ a \in Runtime /\ a.queue = q /\ a.store = p.store /\ a.fate = s.fate /\ a.next = s.next
       /\ a.opens = s.opens /\ a.turn = s.turn /\ a.pendingRun = s.pendingRun
       /\ a.awaiting = s.awaiting \cup {"drain"} /\ a.arrived = s.arrived /\ a.dirty
  <2>1. p \in Runtime /\ "drain" \in Waiters
    BY <1>9 DEF Sound, Waiters
  <2>2. /\ a \in Runtime /\ a.queue = p.queue /\ a.store = p.store /\ a.fate = p.fate /\ a.next = p.next
        /\ a.opens = p.opens /\ a.turn = p.turn /\ a.pendingRun = p.pendingRun
        /\ a.awaiting = p.awaiting \cup {"drain"} /\ a.arrived = p.arrived /\ a.dirty
    BY <1>10, <2>1, SaveAwaited
  <2> QED BY <1>7, <1>9, <2>2 DEF Quiet
<1>12. t = [a EXCEPT !.drain = "persist", !.held = e]
  BY <1>2, <1>3, <1>6, <1>8, <1>10
<1>13. t \in Runtime
  BY <1>4, <1>11, <1>12 DEF Runtime
<1>14. /\ t.queue = q /\ t.store = p.store /\ t.fate = s.fate /\ t.next = s.next /\ t.held = e
       /\ t.opens = s.opens /\ t.turn = s.turn /\ t.pendingRun = s.pendingRun /\ t.drain = "persist"
       /\ t.awaiting = s.awaiting \cup {"drain"} /\ t.arrived = s.arrived /\ t.dirty
  BY <1>11, <1>12 DEF Runtime
<1>15. e.run \in Runs /\ e # NoEntry /\ e.run < s.next /\ s.opens[e.run] = 0
  BY <1>1, <1>4, EntryFields DEF ListSound
<1>16. \A n : Holds(t, n) <=> n = e.run
  BY <1>14, <1>15 DEF Holds
<1>17. TurnSound(t)
  BY <1>1, <1>14, <1>15 DEF TurnSound
<1>18. ListSound(t, t.queue)
  <2>1. \A x \in ToSet(q) : x.run # e.run
    BY <1>4, RunsOfSet
  <2> QED BY <1>5, <1>14, <1>16, <2>1 DEF ListSound
<1>19. ListSound(t, t.store.pending)
  <2>1. ListSound(p, p.store.pending)
    BY <1>9 DEF Sound
  <2>2. \A x \in ToSet(p.store.pending) : x.run \in RunsOf(q)
    <3>1. ToSet(p.store.pending) \subseteq ToSet(q)
      BY <1>9 DEF Mirror
    <3> QED BY <3>1, RunsOfSet
  <2>3. p.opens = s.opens /\ p.next = s.next
    BY <1>7, <1>9 DEF Quiet
  <2>4. \A x \in ToSet(p.store.pending) : x.run < s.next /\ s.opens[x.run] = 0 /\ x.run # e.run
    BY <1>4, <2>1, <2>2, <2>3 DEF ListSound
  <2> QED BY <1>14, <1>16, <2>1, <2>4 DEF ListSound
<1>20. Mirror(t)
  BY <1>9, <1>14 DEF Mirror
<1>21. \A R : Queued(s, R) => Queued(t, R)
  <2> SUFFICES ASSUME NEW R, Queued(s, R), NEW n \in Runs \ R, t.fate[n] = "issued"
               PROVE  n \in NormalRuns(t.queue) \/ Holds(t, n)
    BY DEF Queued
  <2>1. n \in NormalRuns(s.queue)
    BY <1>14 DEF Queued
  <2>2. n \in NormalRuns(q) \/ n = e.run
    BY <1>4, <2>1 DEF NormalRuns
  <2> QED BY <1>14, <1>16, <2>2
<1>22. \A R : Opened(s, R) => Opened(t, R)
  BY <1>14 DEF Opened
<1>23. Shrinks(s, t)
  <2>1. InHand(t) \subseteq RunsOf(s.queue)
    BY <1>4, <1>14, RunsOfSet DEF InHand
  <2> QED BY <1>4, <1>14, <2>1 DEF Shrinks
<1> QED BY <1>4, <1>13, <1>14, <1>17, <1>18, <1>19, <1>20, <1>21, <1>22, <1>23 DEF Drains, Sound, Writes

LEMMA DrainLooped ==
  ASSUME NEW s, Sound(s), "drain" \notin s.arrived, "drain" \notin s.awaiting,
         \A n \in Runs : Holds(s, n) => s.fate[n] # "issued",
         NEW idle, NEW t, t = drainLoop(s, idle)
  PROVE  Drains(s, t)
<1>1. CASE s.queue = <<>> \/ s.turn \/ ~idle
  <2>1. t = [s EXCEPT !.drain = "no", !.held = NoEntry, !.watchdog = s.queue # <<>>]
    BY <1>1 DEF drainLoop
  <2> QED BY <2>1, LoopLeft
<1>2. CASE ~(s.queue = <<>> \/ s.turn \/ ~idle)
  <2>1. t = [awaitSave(persistQueue([s EXCEPT !.queue = Tail(s.queue)]), "drain")
               EXCEPT !.drain = "persist", !.held = Head(s.queue)]
    BY <1>2 DEF drainLoop
  <2> QED BY <1>2, <2>1, HeadTaken
<1> QED BY <1>1, <1>2

LEMMA QueueDrained ==
  ASSUME NEW s, Sound(s), NEW idle, NEW t, t = drainQueue(s, idle) PROVE Drains(s, t)
<1>1. CASE s.drain # "no"
  <2>1. t = s
    BY <1>1 DEF drainQueue
  <2>2. Shrinks(s, s) /\ Writes(s, s)
    BY DEF Shrinks, Writes, Sound, Runtime
  <2> QED BY <2>1, <2>2 DEF Drains
<1>2. CASE s.drain = "no"
  <2>1. "drain" \notin s.arrived /\ "drain" \notin s.awaiting /\ s.held = NoEntry
    BY <1>2 DEF Sound, TurnSound
  <2>2. t = drainLoop(s, idle) /\ \A n \in Runs : ~Holds(s, n)
    BY <1>2, <2>1 DEF drainQueue, Holds
  <2> QED BY <2>1, <2>2, DrainLooped
<1> QED BY <1>1, <1>2

-----------------------------------------------------------------------------
(* A step of a live session.                                               *)

\* From s to t the runtime stays sound, and what the queue, the mirror and the turn owed
\* to the fires they still owe; a turn opens only for the entry the drain held when its
\* write arrived.
Advances(s, t) ==
  /\ Sound(t)
  /\ Mirror(s) => Mirror(t)
  /\ \A R : Queued(s, R) => Queued(t, R)
  /\ \A R : Opened(s, R) => Opened(t, R)
  /\ Writes(s, t)
  /\ t.arrived \subseteq s.arrived /\ t.awaiting \subseteq s.awaiting \cup {"drain"}
  /\ "drain" \in t.arrived => t.held = s.held /\ t.drain = s.drain
  /\ s.next <= t.next
  /\ \A n \in Runs : t.opens[n] # s.opens[n] => "drain" \in s.arrived /\ Holds(s, n)

LEMMA WorksAdvance == ASSUME NEW s, Sound(s), NEW X, NEW t, Works(s, t, X) PROVE Advances(s, t) /\ t.turn = s.turn
  BY DEF Works, Quiet, Advances

LEMMA DrainsAdvance == ASSUME NEW s, Sound(s), NEW t, Drains(s, t) PROVE Advances(s, t) /\ t.turn = s.turn
<1>1. s.next \in Nat
  BY RunsAreNat DEF Sound, Runtime
<1> QED BY <1>1 DEF Drains, Advances

LEMMA WorkDrained ==
  ASSUME NEW s, Sound(s), NEW X, NEW m, Works(s, m, X), NEW t, Drains(m, t)
  PROVE  Advances(s, t) /\ t.turn = s.turn /\ ToSet(t.queue) \subseteq ToSet(s.queue) \cup X
<1>1. s.next \in Nat /\ m.next \in Nat /\ t.next \in Nat
  BY RunsAreNat DEF Sound, Runtime, Works, Drains
<1>2. ToSet(t.queue) \subseteq ToSet(s.queue) \cup X
  BY DEF Works, Drains, Shrinks
<1>3. /\ Sound(t) /\ (Mirror(s) => Mirror(t)) /\ Writes(s, t)
      /\ \A R : (Queued(s, R) => Queued(t, R)) /\ (Opened(s, R) => Opened(t, R))
  BY DEF Works, Drains, Writes
<1>4. /\ t.arrived \subseteq s.arrived /\ t.awaiting \subseteq s.awaiting \cup {"drain"}
      /\ "drain" \in t.arrived => t.held = s.held /\ t.drain = s.drain
      /\ s.next <= t.next /\ t.opens = s.opens /\ t.turn = s.turn
  BY <1>1 DEF Works, Quiet, Drains
<1> QED BY <1>2, <1>3, <1>4 DEF Advances

-----------------------------------------------------------------------------
(* drainQueue past its write.                                              *)

\* The fate of a run, as deletion writes it.
Fated(s, run, status) == [s EXCEPT !.fate[run] = status]

LEMMA FateSet ==
  ASSUME NEW s, Sound(s), NEW run \in Runs, NEW status \in Fates \ {"issued", "opened"}, NEW X,
         NEW t, t = Fated(s, run, status)
  PROVE  Works(s, t, X) /\ t.fate[run] = status /\ t.store = s.store /\ t.queue = s.queue
<1>1. PICK u : u = recordRun(s, run, status)
  OBVIOUS
<1>2. Works(s, u, X) /\ u.queue = s.queue /\ u.store = s.store /\ u.fate = [s.fate EXCEPT ![run] = status]
  BY <1>1, RunRecorded
<1>3. PICK f : f = [s.fate EXCEPT ![run] = status]
  OBVIOUS
<1>4. f \in [Runs -> Fates] /\ s \in Runtime
  BY <1>3 DEF Sound, Runtime
<1>5. t = [s EXCEPT !.fate = f]
  BY <1>3, <1>4 DEF Runtime, Fated
<1>6. u = [[s EXCEPT !.fate = f] EXCEPT !.dirty = TRUE]
  BY <1>1, <1>3, <1>4 DEF recordRun, saveStore, Runtime
<1>7. t \in Runtime
  BY <1>4, <1>5 DEF Runtime
<1>8. /\ t.queue = u.queue /\ t.store = u.store /\ t.fate = u.fate /\ t.next = u.next
      /\ t.held = u.held /\ t.opens = u.opens /\ t.turn = u.turn
      /\ t.pendingRun = u.pendingRun /\ t.drain = u.drain /\ t.awaiting = u.awaiting /\ t.arrived = u.arrived
      /\ t.dirty = s.dirty
  BY <1>4, <1>5, <1>6 DEF Runtime
<1>9. Sound(t) /\ \A n : Holds(t, n) <=> Holds(u, n)
  BY <1>2, <1>7, <1>8 DEF Works, Sound, TurnSound, ListSound, Holds
<1>10. /\ Mirror(u) => Mirror(t)
       /\ \A R : (Queued(u, R) => Queued(t, R)) /\ (Opened(u, R) => Opened(t, R))
       /\ Writes(s, t) /\ Quiet(s, t)
  <2>1. Quiet(s, t)
    BY <1>2, <1>8 DEF Works, Quiet
  <2>2. Writes(s, t)
    BY <1>2, <1>4, <1>8 DEF Writes, Runtime
  <2> QED BY <1>8, <1>9, <2>1, <2>2 DEF Mirror, Queued, Opened
<1>11. Works(s, t, X)
  BY <1>2, <1>8, <1>9, <1>10 DEF Works
<1>12. f[run] = status
  BY <1>3, <1>4 DEF Runtime
<1> QED BY <1>2, <1>3, <1>8, <1>11, <1>12

\* The drain has resumed and holds the entry it had persisted.
Resumed(s) ==
  /\ Sound(s) /\ s.drain = "persist" /\ "drain" \notin s.arrived /\ "drain" \notin s.awaiting
  /\ s.held \in Entry /\ ~s.turn /\ s.pendingRun = NoRun

\* The entry is not to open a turn: its fate is recorded and the loop goes on.
LEMMA HeldSkipped ==
  ASSUME NEW s, Resumed(s), NEW m, Works(s, m, {}), m.fate[s.held.run] # "issued",
         m.store.pending = s.store.pending,
         NEW idle, NEW t, t = drainLoop(m, idle)
  PROVE  Advances(s, t) /\ Shrinks(s, t) /\ t.turn = s.turn
<1>1. Sound(m) /\ "drain" \notin m.arrived /\ "drain" \notin m.awaiting /\ m.held = s.held
  BY DEF Resumed, Works, Quiet
<1>2. s.held.run \in Runs /\ s.fate \in [Runs -> Fates]
  BY EntryFields DEF Resumed, Sound, Runtime
<1>3. \A n \in Runs : Holds(m, n) => m.fate[n] # "issued"
  BY <1>1, <1>2 DEF Holds
<1>4. Drains(m, t)
  BY <1>1, <1>3, DrainLooped
<1>5. Shrinks(s, t)
  <2>1. ToSet(m.queue) \subseteq ToSet(s.queue) /\ InHand(m) = InHand(s) /\ m.pendingRun = s.pendingRun
    BY DEF Works, Quiet, InHand
  <2>2. s.queue = <<>> => m.queue = <<>>
    <3> SUFFICES ASSUME s.queue = <<>>, m.queue # <<>> PROVE FALSE
      OBVIOUS
    <3>1. m.queue \in Seq(Entry) /\ 1 \in DOMAIN m.queue
      BY <1>1 DEF Sound, Runtime
    <3>2. m.queue[1] \in ToSet(m.queue) /\ ToSet(s.queue) = {}
      BY <3>1 DEF ToSet
    <3> QED BY <2>1, <3>2
  <2> QED BY <1>4, <2>1, <2>2, RunsOfSet DEF Drains, Shrinks
<1> QED BY <1>4, <1>5, WorkDrained DEF Resumed

\* The entry's routine is gone: the drain waits for the write of that.
LEMMA HeldDeleted ==
  ASSUME NEW s, Resumed(s), NEW m, Aside(s, m),
         NEW t, t = [awaitSave(m, "drain") EXCEPT !.drain = "save", !.held = NoEntry, !.fate[s.held.run] = "gone"]
  PROVE  Advances(s, t) /\ Shrinks(s, t) /\ t.turn = s.turn
<1>1. PICK a : a = awaitSave(m, "drain")
  OBVIOUS
<1>2. "drain" \in Waiters /\ m \in Runtime
  BY DEF Waiters, Aside
<1>3. /\ a \in Runtime /\ a.queue = m.queue /\ a.store = m.store /\ a.fate = m.fate /\ a.next = m.next
      /\ a.held = m.held /\ a.opens = m.opens /\ a.turn = m.turn /\ a.pendingRun = m.pendingRun
      /\ a.drain = m.drain /\ a.awaiting = m.awaiting \cup {"drain"} /\ a.arrived = m.arrived
      /\ a.dirty
  BY <1>1, <1>2, SaveAwaited
<1>4. PICK f : f = [s.fate EXCEPT ![s.held.run] = "gone"]
  OBVIOUS
<1>5. s.held.run \in Runs /\ s \in Runtime /\ s.next \in Nat
  BY EntryFields, RunsAreNat DEF Resumed, Sound, Runtime
<1>6. f \in [Runs -> Fates] /\ \A n \in Runs : f[n] = IF n = s.held.run THEN "gone" ELSE s.fate[n]
  BY <1>4, <1>5 DEF Runtime, Fates
<1>7. PICK b : b = [a EXCEPT !.fate = f]
  OBVIOUS
<1>8. /\ b \in Runtime /\ b.queue = a.queue /\ b.store = a.store /\ b.fate = f /\ b.next = a.next
      /\ b.opens = a.opens /\ b.turn = a.turn /\ b.pendingRun = a.pendingRun
      /\ b.awaiting = a.awaiting /\ b.arrived = a.arrived /\ b.dirty
  BY <1>3, <1>6, <1>7 DEF Runtime
<1>9. t = [[b EXCEPT !.drain = "save"] EXCEPT !.held = NoEntry]
  <2>1. a.fate = s.fate
    BY <1>3 DEF Aside
  <2> QED BY <1>1, <1>3, <1>4, <1>7, <2>1 DEF Runtime
<1>10. t \in Runtime
  BY <1>8, <1>9 DEF Runtime
<1>11. /\ t.queue = b.queue /\ t.store = b.store /\ t.fate = b.fate /\ t.next = b.next
       /\ t.opens = b.opens /\ t.turn = b.turn /\ t.pendingRun = b.pendingRun
       /\ t.awaiting = b.awaiting /\ t.arrived = b.arrived /\ t.drain = "save" /\ t.held = NoEntry
       /\ t.dirty
  BY <1>8, <1>9 DEF Runtime
<1>12. /\ t.queue = s.queue /\ t.store.pending = s.store.pending /\ t.fate = f /\ t.next = s.next
       /\ t.opens = s.opens /\ t.turn = s.turn /\ t.pendingRun = s.pendingRun
       /\ t.awaiting = s.awaiting \cup {"drain"} /\ t.arrived = s.arrived
  BY <1>3, <1>8, <1>11 DEF Aside
<1>13. TurnSound(t) /\ \A n : ~Holds(t, n)
  BY <1>11, <1>12 DEF TurnSound, Holds, Resumed, Sound
<1>14. ListSound(t, t.queue) /\ ListSound(t, t.store.pending)
  BY <1>12, <1>13 DEF ListSound, Resumed, Sound
<1>15. Sound(t) /\ (Mirror(s) => Mirror(t))
  BY <1>10, <1>12, <1>13, <1>14 DEF Sound, Mirror
<1>16. \A R : Queued(s, R) => Queued(t, R)
  BY <1>6, <1>12 DEF Queued, Holds
<1>17. \A R : Opened(s, R) => Opened(t, R)
  BY <1>6, <1>12 DEF Opened
<1>18. Writes(s, t) /\ Shrinks(s, t)
  BY <1>11, <1>12 DEF Writes, Shrinks, InHand
<1> QED BY <1>5, <1>11, <1>12, <1>15, <1>16, <1>17, <1>18 DEF Advances, Resumed

\* The state of the routine after a turn: its counts.
Counted(s, e) ==
  LET st == s.store
      n == usedToday(st, e.r)
  IN [st EXCEPT !.ticks[e.r] = st.ticks[e.r] + 1, !.used[e.r] = IF budgetExempt(e) THEN n ELSE n + 1,
                !.usedDay[e.r] = day]

LEMMA TurnCounted ==
  ASSUME NEW s \in Runtime, NEW e \in Entry, day \in Nat
  PROVE  Counted(s, e) \in StoreType /\ Counted(s, e).pending = s.store.pending
<1>1. s.store \in StoreType /\ e.r \in Routines
  BY EntryFields DEF Runtime
<1>2. s.store.ticks \in Times /\ s.store.used \in Times /\ s.store.usedDay \in Times
  BY <1>1 DEF StoreType
<1>3. PICK n : n = usedToday(s.store, e.r)
  OBVIOUS
<1>4. n \in Nat /\ s.store.ticks[e.r] \in Nat
  BY <1>1, <1>2, <1>3 DEF usedToday, Times
<1>5. PICK k : k = IF budgetExempt(e) THEN n ELSE n + 1
  OBVIOUS
<1>6. k \in Nat
  BY <1>4, <1>5
<1>7. PICK a : a = [s.store.ticks EXCEPT ![e.r] = s.store.ticks[e.r] + 1]
  OBVIOUS
<1>8. PICK b : b = [s.store.used EXCEPT ![e.r] = k]
  OBVIOUS
<1>9. PICK c : c = [s.store.usedDay EXCEPT ![e.r] = day]
  OBVIOUS
<1>10. a \in Times /\ b \in Times /\ c \in Times
  BY <1>1, <1>2, <1>4, <1>6, <1>7, <1>8, <1>9 DEF Times
<1>11. Counted(s, e) = [s.store EXCEPT !.ticks = a, !.used = b, !.usedDay = c]
  BY <1>1, <1>3, <1>5, <1>7, <1>8, <1>9 DEF Counted, StoreType
<1> QED BY <1>1, <1>10, <1>11 DEF StoreType

\* The turn opens: it is the fire's only one, and the pending run is the fire's.
LEMMA TurnOpened ==
  ASSUME NEW s, Resumed(s), day \in Nat, NEW t, t = openTurn(s, s.held)
  PROVE  /\ Sound(t) /\ t.turn
         /\ Mirror(s) => Mirror(t)
         /\ \A R : Queued(s, R) => Queued(t, R)
         /\ \A R : Opened(s, R) => Opened(t, R)
         /\ Writes(s, t) /\ Shrinks(s, t)
         /\ t.arrived = s.arrived /\ t.awaiting \subseteq s.awaiting \cup {"drain"}
         /\ t.next = s.next
         /\ \A n \in Runs : t.opens[n] # s.opens[n] => Holds(s, n)
<1>1. PICK e : e = s.held
  OBVIOUS
<1>2. /\ s \in Runtime /\ TurnSound(s) /\ e \in Entry /\ e.run \in Runs /\ e.r \in Routines /\ s.opens[e.run] = 0
      /\ e.run < s.next /\ \A n : Holds(s, n) <=> n = e.run
  BY <1>1, EntryFields DEF Resumed, Sound, TurnSound, Holds
<1>3. PICK S : S = Counted(s, e)
  OBVIOUS
<1>4. S \in StoreType /\ S.pending = s.store.pending
  BY <1>2, <1>3, TurnCounted
<1>5. PICK p : p = [run |-> e.run, r |-> e.r]
  OBVIOUS
<1>6. PICK o : o = [s.opens EXCEPT ![e.run] = s.opens[e.run] + 1]
  OBVIOUS
<1>7. PICK f : f = [s.fate EXCEPT ![e.run] = "opened"]
  OBVIOUS
<1>8. /\ p \in [run : Runs, r : Routines] /\ p # NoRun /\ p.run = e.run
      /\ o \in [Runs -> Nat] /\ \A n \in Runs : o[n] = IF n = e.run THEN 1 ELSE s.opens[n]
      /\ f \in [Runs -> Fates] /\ \A n \in Runs : f[n] = IF n = e.run THEN "opened" ELSE s.fate[n]
  <2>1. p \in [run : Runs, r : Routines] /\ p.run = e.run
    BY <1>2, <1>5
  <2>2. p # NoRun
    <3>1. DOMAIN p = {"run", "r"} /\ DOMAIN NoRun = {"run"}
      BY <1>5 DEF NoRun
    <3>2. "r" \in DOMAIN p /\ "r" \notin DOMAIN NoRun
      BY <3>1
    <3> QED BY <3>2
  <2>3. o \in [Runs -> Nat] /\ \A n \in Runs : o[n] = IF n = e.run THEN 1 ELSE s.opens[n]
    BY <1>2, <1>6 DEF Runtime
  <2>4. f \in [Runs -> Fates] /\ \A n \in Runs : f[n] = IF n = e.run THEN "opened" ELSE s.fate[n]
    BY <1>2, <1>7 DEF Runtime, Fates
  <2> QED BY <2>1, <2>2, <2>3, <2>4
<1>9. PICK s1 : s1 = [s EXCEPT !.turn = TRUE, !.pendingRun = p, !.opens = o, !.fate = f, !.store = S]
  OBVIOUS
<1>10. s1 \in Runtime
  BY <1>2, <1>4, <1>8, <1>9 DEF Runtime
<1>11. /\ s1.queue = s.queue /\ s1.store = S /\ s1.fate = f /\ s1.next = s.next
       /\ s1.held = e /\ s1.opens = o /\ s1.turn /\ s1.pendingRun = p
       /\ s1.drain = s.drain /\ s1.awaiting = s.awaiting /\ s1.arrived = s.arrived
  BY <1>1, <1>2, <1>9 DEF Runtime
<1>12. PICK s2 : s2 = IF e.kind = "hook" /\ e.deferred = 0 THEN commitHookFire(s1, e.r) ELSE s1
  OBVIOUS
<1>13. Aside(s1, s2)
  <2>1. Aside(s1, s1)
    BY <1>10 DEF Aside
  <2>2. Aside(s1, commitHookFire(s1, e.r))
    BY <1>2, <1>10, CommitAside
  <2> QED BY <1>12, <2>1, <2>2
<1>14. PICK s3 : s3 = removeDeferredHook(s2, e)
  OBVIOUS
<1>15. Aside(s1, s3)
  <2>1. Aside(s2, s3)
    BY <1>13, <1>14, HookRemovedAside DEF Aside
  <2> QED BY <1>13, <2>1, AsideTrans
<1>16. PICK a : a = awaitSave(s3, "drain")
  OBVIOUS
<1>17. /\ a \in Runtime /\ a.queue = s3.queue /\ a.store = s3.store /\ a.fate = s3.fate /\ a.next = s3.next
       /\ a.opens = s3.opens /\ a.turn = s3.turn /\ a.pendingRun = s3.pendingRun
       /\ a.awaiting = s3.awaiting \cup {"drain"} /\ a.arrived = s3.arrived /\ a.dirty
  <2>1. "drain" \in Waiters /\ s3 \in Runtime
    BY <1>15 DEF Waiters, Aside
  <2> QED BY <1>16, <2>1, SaveAwaited
<1>18. t = [[a EXCEPT !.drain = "save"] EXCEPT !.held = NoEntry]
  <2>1. S = [s.store EXCEPT !.ticks[e.r] = s.store.ticks[e.r] + 1,
                            !.used[e.r] = IF budgetExempt(e) THEN usedToday(s.store, e.r) ELSE usedToday(s.store, e.r) + 1,
                            !.usedDay[e.r] = day]
    BY <1>3 DEF Counted
  <2>2. s1 = [s EXCEPT !.turn = TRUE, !.pendingRun = [run |-> e.run, r |-> e.r],
                       !.opens[e.run] = s.opens[e.run] + 1, !.fate[e.run] = "opened", !.store = S]
    BY <1>2, <1>5, <1>6, <1>7, <1>9 DEF Runtime
  <2>3. t = [awaitSave(removeDeferredHook(s2, e), "drain") EXCEPT !.drain = "save", !.held = NoEntry]
    BY <1>1, <1>12, <2>1, <2>2 DEF openTurn
  <2> QED BY <1>14, <1>16, <1>17, <2>3 DEF Runtime
<1>19. t \in Runtime
  BY <1>17, <1>18 DEF Runtime
<1>20. /\ t.queue = a.queue /\ t.store = a.store /\ t.fate = a.fate /\ t.next = a.next
       /\ t.opens = a.opens /\ t.turn = a.turn /\ t.pendingRun = a.pendingRun
       /\ t.awaiting = a.awaiting /\ t.arrived = a.arrived /\ t.drain = "save" /\ t.held = NoEntry
       /\ t.dirty
  BY <1>17, <1>18 DEF Runtime
<1>21. /\ t.queue = s.queue /\ t.store.pending = s.store.pending /\ t.fate = f /\ t.next = s.next
       /\ t.opens = o /\ t.turn /\ t.pendingRun = p
       /\ t.awaiting = s.awaiting \cup {"drain"} /\ t.arrived = s.arrived
  <2>1. /\ s3.queue = s.queue /\ s3.store.pending = s.store.pending /\ s3.fate = f /\ s3.next = s.next
        /\ s3.opens = o /\ s3.turn /\ s3.pendingRun = p
        /\ s3.awaiting = s.awaiting /\ s3.arrived = s.arrived
    BY <1>4, <1>11, <1>15 DEF Aside
  <2> QED BY <1>17, <1>20, <2>1
<1>22. TurnSound(t) /\ \A n : ~Holds(t, n)
  <2>1. \A n \in Runs : n = e.run => ~(n >= s.next)
    <3>1. e.run \in Nat /\ s.next \in Nat
      BY <1>2, RunsAreNat DEF Runtime
    <3> QED BY <1>2, <3>1
  <2>2. \A n \in Runs : o[n] <= 1 /\ (n >= s.next => o[n] = 0)
    BY <1>2, <1>8, <2>1 DEF TurnSound
  <2>3. "drain" \notin s.arrived
    BY DEF Resumed
  <2> QED BY <1>20, <1>21, <2>2, <2>3 DEF TurnSound, Holds
<1>23. ListSound(t, t.queue) /\ ListSound(t, t.store.pending)
  <2>1. s.queue \in Seq(Entry) /\ s.store.pending \in Seq(Entry)
    BY <1>2 DEF Runtime, StoreType
  <2>2. ASSUME NEW q \in Seq(Entry), ListSound(s, q) PROVE ListSound(t, q)
    <3>1. \A x \in ToSet(q) : x.run \in Runs /\ x.run # e.run
      BY <1>2, <2>2, EntryFields DEF ListSound
    <3> QED BY <1>8, <1>21, <1>22, <2>2, <3>1 DEF ListSound
  <2> QED BY <1>21, <2>1, <2>2 DEF Resumed, Sound
<1>24. Sound(t) /\ (Mirror(s) => Mirror(t))
  BY <1>19, <1>21, <1>22, <1>23 DEF Sound, Mirror
<1>25. \A R : Queued(s, R) => Queued(t, R)
  BY <1>2, <1>8, <1>21 DEF Queued
<1>26. \A R : Opened(s, R) => Opened(t, R)
  <2>1. s.pendingRun = NoRun
    BY DEF Resumed
  <2> QED BY <1>8, <1>21, <2>1 DEF Opened
<1>27. \A n \in Runs : t.opens[n] # s.opens[n] => Holds(s, n)
  BY <1>2, <1>8, <1>21
<1>28. Writes(s, t) /\ Shrinks(s, t)
  <2>1. InHand(t) = {} /\ InHand(s) = {e.run}
    BY <1>1, <1>2, <1>20, EntryFields DEF InHand
  <2> QED BY <1>8, <1>20, <1>21, <2>1 DEF Writes, Shrinks
<1> QED BY <1>21, <1>24, <1>25, <1>26, <1>27, <1>28

\* From the drain's return to its next await.
Settles(s, t) ==
  /\ Sound(t) /\ Shrinks(s, t)
  /\ Mirror(s) => Mirror(t)
  /\ \A R : Queued(s, R) => Queued(t, R)
  /\ \A R : Opened(s, R) => Opened(t, R)
  /\ Writes(s, t)
  /\ t.arrived \subseteq s.arrived /\ t.awaiting \subseteq s.awaiting \cup {"drain"}
  /\ s.next <= t.next
  /\ \A n \in Runs : t.opens[n] # s.opens[n] => Holds(s, n)

LEMMA AdvanceSettles ==
  ASSUME NEW s, Resumed(s), NEW t, Advances(s, t), Shrinks(s, t) PROVE Settles(s, t)
  BY DEF Advances, Settles

\* A fire that is not to be: skipped or failed, its run is recorded.
LEMMA HeldRecorded ==
  ASSUME NEW s, Resumed(s), NEW m, Aside(s, m), NEW status \in Fates \ {"issued", "opened"},
         NEW idle, NEW t, t = drainLoop(recordRun(m, s.held.run, status), idle)
  PROVE  Settles(s, t) /\ t.turn = s.turn
<1>1. Works(s, m, {}) /\ m.fate = s.fate /\ m.store.pending = s.store.pending /\ Sound(m) /\ Sound(s)
  BY AsideWorks DEF Resumed, Aside, Works
<1>2. PICK u : u = recordRun(m, s.held.run, status)
  OBVIOUS
<1>3. s.held.run \in Runs
  BY EntryFields DEF Resumed
<1>4. Works(m, u, {}) /\ u.fate = [m.fate EXCEPT ![s.held.run] = status] /\ u.store = m.store
  BY <1>1, <1>2, <1>3, RunRecorded
<1>5. Works(s, u, {})
  BY <1>1, <1>4, WorksTrans
<1>6. t = drainLoop(u, idle)
  BY <1>2
<1>7. u.fate[s.held.run] # "issued"
  <2>1. m.fate \in [Runs -> Fates]
    BY <1>1 DEF Sound, Runtime
  <2> QED BY <1>3, <1>4, <2>1
<1>8. u.store.pending = s.store.pending
  BY <1>1, <1>4
<1>9. Advances(s, t) /\ Shrinks(s, t) /\ t.turn = s.turn
  BY <1>5, <1>6, <1>7, <1>8, HeldSkipped
<1> QED BY <1>9, AdvanceSettles

LEMMA HeldFailed ==
  ASSUME NEW s, Resumed(s), NEW idle, NEW t, t = drainLoop(failTurn(s, s.held), idle)
  PROVE  Settles(s, t) /\ t.turn = s.turn
<1>1. s \in Runtime /\ ~s.turn /\ s.pendingRun = NoRun
  BY DEF Resumed, Sound
<1>2. PICK m : m = releaseRoutineTurn(s)
  OBVIOUS
<1>3. m = s
  BY <1>1, <1>2 DEF releaseRoutineTurn, Runtime
<1>4. PICK u : u = recordRun(s, s.held.run, "error")
  OBVIOUS
<1>5. u \in Runtime /\ u.pendingRun = NoRun
  <2>1. s.held.run \in Runs /\ "error" \in Fates \ {"issued", "opened"} /\ Sound(s)
    BY EntryFields DEF Resumed, Fates
  <2>2. Works(s, u, {})
    BY <1>4, <2>1, RunRecorded
  <2> QED BY <1>1, <2>2 DEF Works, Quiet, Sound
<1>6. [u EXCEPT !.pendingRun = NoRun] = u
  BY <1>5 DEF Runtime
<1>7. t = drainLoop(recordRun(s, s.held.run, "error"), idle)
  BY <1>2, <1>3, <1>4, <1>6 DEF failTurn
<1>8. Aside(s, s) /\ "error" \in Fates \ {"issued", "opened"}
  BY <1>1 DEF Aside, Fates
<1> QED BY <1>7, <1>8, HeldRecorded

LEMMA HeldCapped ==
  ASSUME NEW s, Resumed(s), day \in Nat, NEW idle, NEW t, t = drainLoop(skipCapped(s, s.held), idle)
  PROVE  Settles(s, t) /\ t.turn = s.turn
<1>1. s \in Runtime /\ s.held.r \in Routines
  BY EntryFields DEF Resumed, Sound
<1>2. PICK m : m = IF s.held.kind = "hook" /\ HookOnce[s.held.r] = "daily" THEN commitHookFire(s, s.held.r) ELSE s
  OBVIOUS
<1>3. Aside(s, m)
  <2>1. Aside(s, s)
    BY <1>1 DEF Aside
  <2>2. Aside(s, commitHookFire(s, s.held.r))
    BY <1>1, CommitAside
  <2> QED BY <1>2, <2>1, <2>2
<1>4. t = drainLoop(recordRun(m, s.held.run, "skipped"), idle)
  BY <1>2 DEF skipCapped
<1>5. "skipped" \in Fates \ {"issued", "opened"}
  BY DEF Fates
<1> QED BY <1>3, <1>4, <1>5, HeldRecorded

LEMMA HeldPaused ==
  ASSUME NEW s, Resumed(s), NEW idle,
         NEW t, t = drainLoop(recordRun(removeDeferredHook(s, s.held), s.held.run, "skipped"), idle)
  PROVE  Settles(s, t) /\ t.turn = s.turn
<1>1. PICK m : m = removeDeferredHook(s, s.held)
  OBVIOUS
<1>2. Aside(s, m)
  BY <1>1, HookRemovedAside DEF Resumed, Sound
<1>3. "skipped" \in Fates \ {"issued", "opened"}
  BY DEF Fates
<1>4. t = drainLoop(recordRun(m, s.held.run, "skipped"), idle)
  BY <1>1
<1> QED BY <1>2, <1>3, <1>4, HeldRecorded

LEMMA HeldExhausted ==
  ASSUME NEW s, Resumed(s), NEW t, t = deleteExhausted(s, s.held)
  PROVE  Settles(s, t) /\ t.turn = s.turn
<1>1. PICK m : m = removeDeferredHook(s, s.held)
  OBVIOUS
<1>2. PICK u : u = forgetRoutine(m, s.held.r)
  OBVIOUS
<1>3. Aside(s, u)
  <2>1. s \in Runtime /\ s.held.r \in Routines
    BY EntryFields DEF Resumed, Sound
  <2>2. Aside(s, m)
    BY <1>1, <2>1, HookRemovedAside
  <2>3. Aside(m, u)
    BY <1>2, <2>1, <2>2, ForgetAside DEF Aside
  <2> QED BY <2>2, <2>3, AsideTrans
<1>4. t = [awaitSave(u, "drain") EXCEPT !.drain = "save", !.held = NoEntry, !.fate[s.held.run] = "gone"]
  BY <1>1, <1>2 DEF deleteExhausted
<1>5. Advances(s, t) /\ Shrinks(s, t) /\ t.turn = s.turn
  BY <1>3, <1>4, HeldDeleted
<1> QED BY <1>5, AdvanceSettles

LEMMA HeldForgotten ==
  ASSUME NEW s, Resumed(s), NEW run, run = s.held.run, NEW gone \in Fates \ {"issued", "opened"},
         NEW m, m = Fated(s, run, gone), NEW idle, NEW t, t = drainLoop(m, idle)
  PROVE  Settles(s, t) /\ t.turn = s.turn
<1>1. run \in Runs /\ Sound(s)
  BY EntryFields DEF Resumed
<1>2. Works(s, m, {}) /\ m.fate[run] = gone /\ m.store = s.store
  BY <1>1, FateSet
<1>3. Advances(s, t) /\ Shrinks(s, t) /\ t.turn = s.turn
  BY <1>2, HeldSkipped
<1> QED BY <1>3, AdvanceSettles

LEMMA HookForgotten ==
  ASSUME NEW s, Resumed(s),
         NEW t, t = [awaitSave(removeDeferredHook(s, s.held), "drain")
                       EXCEPT !.drain = "save", !.held = NoEntry, !.fate[s.held.run] = "gone"]
  PROVE  Settles(s, t) /\ t.turn = s.turn
<1>1. PICK m : m = removeDeferredHook(s, s.held)
  OBVIOUS
<1>2. Aside(s, m)
  BY <1>1, HookRemovedAside DEF Resumed, Sound
<1>3. t = [awaitSave(m, "drain") EXCEPT !.drain = "save", !.held = NoEntry, !.fate[s.held.run] = "gone"]
  BY <1>1
<1>4. Advances(s, t) /\ Shrinks(s, t) /\ t.turn = s.turn
  BY <1>2, <1>3, HeldDeleted
<1> QED BY <1>4, AdvanceSettles

LEMMA HeldResolved ==
  ASSUME NEW s, Resumed(s), day \in Nat, NEW idle, NEW refused \in BOOLEAN, NEW t, t = afterPersist(s, idle, refused)
  PROVE  /\ Settles(s, t)
         /\ IF Opens(s, refused) THEN t.turn ELSE t.turn = s.turn
<1> PICK e : e = s.held
  OBVIOUS
<1>1. CASE e.r \notin s.store.live
  <2>1. ~Opens(s, refused)
    BY <1>1 DEF Opens
  <2>2. CASE s.held.deferred = 0
    <3>1. PICK m : m = Fated(s, e.run, "gone")
      OBVIOUS
    <3>2. t = drainLoop(m, idle)
      BY <1>1, <2>2, <3>1 DEF afterPersist, Fated
    <3>3. "gone" \in Fates \ {"issued", "opened"}
      BY DEF Fates
    <3> QED BY <2>1, <3>1, <3>2, <3>3, HeldForgotten
  <2>3. CASE s.held.deferred # 0
    <3>1. t = [awaitSave(removeDeferredHook(s, s.held), "drain")
                 EXCEPT !.drain = "save", !.held = NoEntry, !.fate[s.held.run] = "gone"]
      BY <1>1, <2>3 DEF afterPersist
    <3> QED BY <2>1, <3>1, HookForgotten
  <2> QED BY <2>2, <2>3
<1>2. CASE e.r \in s.store.live /\ e.r \in s.store.paused /\ e.kind # "manual"
  <2>1. ~Opens(s, refused)
    BY <1>2 DEF Opens
  <2>2. t = drainLoop(recordRun(removeDeferredHook(s, s.held), s.held.run, "skipped"), idle)
    BY <1>2 DEF afterPersist
  <2> QED BY <2>1, <2>2, HeldPaused
<1>3. CASE e.r \in s.store.live /\ ~(e.r \in s.store.paused /\ e.kind # "manual")
  <2>1. t = CASE Exhausted(s, e) -> deleteExhausted(s, e)
              [] ~Exhausted(s, e) /\ Capped(s, e) -> drainLoop(skipCapped(s, e), idle)
              [] Opens(s, refused) -> openTurn(s, e)
              [] OTHER -> drainLoop(failTurn(s, e), idle)
    BY <1>3 DEF afterPersist
  <2>2. CASE Exhausted(s, e)
    <3>1. ~Opens(s, refused)
      BY <2>2 DEF Opens
    <3>2. t = deleteExhausted(s, s.held)
      BY <2>1, <2>2, <3>1
    <3> QED BY <3>1, <3>2, HeldExhausted
  <2>3. CASE ~Exhausted(s, e) /\ Capped(s, e)
    <3>1. ~Opens(s, refused)
      BY <2>3 DEF Opens
    <3>2. t = drainLoop(skipCapped(s, s.held), idle)
      BY <2>1, <2>3, <3>1
    <3> QED BY <3>1, <3>2, HeldCapped
  <2>4. CASE Opens(s, refused)
    <3>1. ~Exhausted(s, e) /\ ~Capped(s, e)
      BY <2>4 DEF Opens
    <3>2. t = openTurn(s, s.held)
      BY <2>1, <2>4, <3>1
    <3>3. s.next \in Nat
      BY RunsAreNat DEF Resumed, Sound, Runtime
    <3> QED BY <2>4, <3>2, <3>3, TurnOpened DEF Settles
  <2>5. CASE ~Exhausted(s, e) /\ ~Capped(s, e) /\ ~Opens(s, refused)
    <3>1. t = drainLoop(failTurn(s, s.held), idle)
      BY <2>1, <2>5
    <3> QED BY <2>5, <3>1, HeldFailed
  <2> QED BY <2>2, <2>3, <2>4, <2>5
<1> QED BY <1>1, <1>2, <1>3

-----------------------------------------------------------------------------
(* The folds of session_start, agent_end and session_shutdown.             *)

LEMMA SaveWorks == ASSUME NEW s, Sound(s), NEW X PROVE Works(s, saveStore(s), X)
<1>1. Aside(s, saveStore(s))
  BY SaveAside DEF Sound
<1> QED BY <1>1, AsideWorks

LEMMA HookFire ==
  ASSUME NEW s, Sound(s), NEW r \in Routines, NEW t, t = enqueueHookFire(s, r) PROVE Works(s, t, Entry)
<1>1. Works(s, newFire(s, r, "hook", 0, FALSE), Entry)
  <2>1. "hook" \in Kinds /\ 0 \in 0..MaxSessions /\ FALSE \in BOOLEAN
    BY FiresAssumption DEF Kinds
  <2> QED BY <2>1, FireIssued
<1>2. Works(s, s, Entry) /\ Works(s, saveStore(s), Entry)
  BY WorksSelf, SaveWorks
<1> QED BY <1>1, <1>2 DEF enqueueHookFire

CatchUp(acc, r) ==
  IF \/ r \in acc.store.paused \/ queueHasRoutine(acc, r)
     \/ acc.pendingRun # NoRun /\ acc.pendingRun.r = r
  THEN acc ELSE newFire(acc, r, "timer", 0, FALSE)

LEMMA MissedFire ==
  ASSUME NEW s, Sound(s), NEW r \in Routines, NEW t, t = CatchUp(s, r) PROVE Works(s, t, Entry)
<1>1. Works(s, newFire(s, r, "timer", 0, FALSE), Entry)
  <2>1. "timer" \in Kinds /\ 0 \in 0..MaxSessions /\ FALSE \in BOOLEAN
    BY FiresAssumption DEF Kinds
  <2> QED BY <2>1, FireIssued
<1>2. Works(s, s, Entry)
  BY WorksSelf
<1> QED BY <1>1, <1>2 DEF CatchUp

\* The hooks of an event are queued one after the other.
QueueHooks(s, S) == FoldSet(LAMBDA r, acc : enqueueHookFire(acc, r), s, S)

LEMMA HooksQueued ==
  ASSUME NEW s, Sound(s), NEW S \in SUBSET Routines, NEW t, t = QueueHooks(s, S)
  PROVE  Works(s, t, Entry)
<1> DEFINE A == {x \in Runtime : Sound(x) /\ Works(s, x, Entry)}
           c == [u \in SUBSET S |-> CHOOSE r \in u : TRUE]
           F == [p \in A \X S |-> enqueueHookFire(p[1], p[2])]
           Solved(g) == [u \in SUBSET S |-> IF u = {} THEN s
                           ELSE enqueueHookFire(g[u \ {CHOOSE r \in u : TRUE}], CHOOSE r \in u : TRUE)]
           iter == CHOOSE g : g = Solved(g)
<1>1. IsFiniteSet(S) /\ Chooses(c, S)
  BY FiresAssumption, FS_Subset DEF Chooses
<1>2. s \in A
  BY WorksSelf DEF Sound
<1>3. ASSUME NEW x \in A, NEW r \in S PROVE enqueueHookFire(x, r) \in A
  <2>1. PICK y : y = enqueueHookFire(x, r)
    OBVIOUS
  <2>2. Works(x, y, Entry)
    BY <2>1, <1>3, HookFire
  <2>3. Works(s, y, Entry) /\ Sound(y) /\ y \in Runtime
    BY <1>3, <2>2, WorksTrans DEF Works, Sound
  <2> QED BY <2>1, <2>3
<1>4. F \in [A \X S -> A]
  <2> SUFFICES ASSUME NEW p \in A \X S PROVE enqueueHookFire(p[1], p[2]) \in A
    OBVIOUS
  <2>1. p[1] \in A /\ p[2] \in S
    OBVIOUS
  <2> HIDE DEF A
  <2> QED BY <1>3, <2>1
<1> HIDE DEF A
<1>5. PICK g \in [SUBSET S -> A] : Folds(g, S, c, s, F)
  <2> HIDE DEF F, c
  <2> QED BY <1>1, <1>2, <1>4, FoldExists
<1>6. ASSUME NEW u \in SUBSET S, u # {}
      PROVE  LET r == CHOOSE r \in u : TRUE
             IN r \in S /\ u \ {r} \in SUBSET S /\ c[u] = r
  BY <1>6
<1>7. g = Solved(g)
  <2>1. ASSUME NEW u \in SUBSET S, u # {}
        PROVE  g[u] = enqueueHookFire(g[u \ {CHOOSE r \in u : TRUE}], CHOOSE r \in u : TRUE)
    <3>1. PICK r : r = CHOOSE z \in u : TRUE
      OBVIOUS
    <3>2. r \in S /\ u \ {r} \in SUBSET S /\ c[u] = r
      BY <1>6, <2>1, <3>1
    <3>3. g[u] = F[<<g[u \ {r}], r>>]
      BY <1>5, <2>1, <3>2 DEF Folds
    <3>4. g[u] = enqueueHookFire(g[u \ {r}], r)
      BY <1>5, <3>2, <3>3
    <3> QED BY <3>1, <3>4
  <2>2. g[{}] = s
    BY <1>5 DEF Folds
  <2> QED BY <2>1, <2>2
<1>8. iter = Solved(iter)
  <2> HIDE DEF Solved
  <2> QED BY <1>7
<1>9. t = iter[S]
  BY DEF QueueHooks, FoldSet, MapThenFoldSet
<1> HIDE DEF iter
<1> DEFINE B == {u \in SUBSET S : iter[u] \in A}
<1>10. {} \in B
  BY <1>2, <1>8
<1>11. ASSUME NEW u \in SUBSET S, u # {}, u \ {c[u]} \in B PROVE u \in B
  <2>1. PICK r : r = CHOOSE z \in u : TRUE
    OBVIOUS
  <2>2. r \in S /\ u \ {r} \in SUBSET S /\ c[u] = r
    BY <1>6, <1>11, <2>1
  <2>3. iter[u] = enqueueHookFire(iter[u \ {CHOOSE z \in u : TRUE}], CHOOSE z \in u : TRUE)
    BY <1>8, <1>11
  <2>4. iter[u] = enqueueHookFire(iter[u \ {r}], r) /\ iter[u \ {r}] \in A
    BY <1>11, <2>1, <2>2, <2>3
  <2> QED BY <1>3, <2>2, <2>4
<1>12. SUBSET S \subseteq B
  <2> HIDE DEF B, c
  <2> QED BY <1>1, <1>10, <1>11, SubsetInduction
<1>13. t \in A
  BY <1>9, <1>12
<1> QED BY <1>13 DEF A

\* catchUpMissedTicks.
CatchUps(s, S) == FoldSet(LAMBDA r, acc : CatchUp(acc, r), s, S)

LEMMA MissedCaughtUp ==
  ASSUME NEW s, Sound(s), NEW S \in SUBSET Routines, NEW t, t = CatchUps(s, S)
  PROVE  Works(s, t, Entry)
<1> DEFINE A == {x \in Runtime : Sound(x) /\ Works(s, x, Entry)}
           c == [u \in SUBSET S |-> CHOOSE r \in u : TRUE]
           F == [p \in A \X S |-> CatchUp(p[1], p[2])]
           Solved(g) == [u \in SUBSET S |-> IF u = {} THEN s
                           ELSE CatchUp(g[u \ {CHOOSE r \in u : TRUE}], CHOOSE r \in u : TRUE)]
           iter == CHOOSE g : g = Solved(g)
<1>1. IsFiniteSet(S) /\ Chooses(c, S)
  BY FiresAssumption, FS_Subset DEF Chooses
<1>2. s \in A
  BY WorksSelf DEF Sound
<1>3. ASSUME NEW x \in A, NEW r \in S PROVE CatchUp(x, r) \in A
  <2>1. PICK y : y = CatchUp(x, r)
    OBVIOUS
  <2>2. Works(x, y, Entry)
    BY <2>1, <1>3, MissedFire
  <2>3. Works(s, y, Entry) /\ Sound(y) /\ y \in Runtime
    BY <1>3, <2>2, WorksTrans DEF Works, Sound
  <2> QED BY <2>1, <2>3
<1>4. F \in [A \X S -> A]
  <2> SUFFICES ASSUME NEW p \in A \X S PROVE CatchUp(p[1], p[2]) \in A
    OBVIOUS
  <2>1. p[1] \in A /\ p[2] \in S
    OBVIOUS
  <2> HIDE DEF A
  <2> QED BY <1>3, <2>1
<1> HIDE DEF A
<1>5. PICK g \in [SUBSET S -> A] : Folds(g, S, c, s, F)
  <2> HIDE DEF F, c
  <2> QED BY <1>1, <1>2, <1>4, FoldExists
<1>6. ASSUME NEW u \in SUBSET S, u # {}
      PROVE  LET r == CHOOSE r \in u : TRUE
             IN r \in S /\ u \ {r} \in SUBSET S /\ c[u] = r
  BY <1>6
<1>7. g = Solved(g)
  <2>1. ASSUME NEW u \in SUBSET S, u # {}
        PROVE  g[u] = CatchUp(g[u \ {CHOOSE r \in u : TRUE}], CHOOSE r \in u : TRUE)
    <3>1. PICK r : r = CHOOSE z \in u : TRUE
      OBVIOUS
    <3>2. r \in S /\ u \ {r} \in SUBSET S /\ c[u] = r
      BY <1>6, <2>1, <3>1
    <3>3. g[u] = F[<<g[u \ {r}], r>>]
      BY <1>5, <2>1, <3>2 DEF Folds
    <3>4. g[u] = CatchUp(g[u \ {r}], r)
      BY <1>5, <3>2, <3>3
    <3> QED BY <3>1, <3>4
  <2>2. g[{}] = s
    BY <1>5 DEF Folds
  <2> QED BY <2>1, <2>2
<1>8. iter = Solved(iter)
  <2> HIDE DEF Solved
  <2> QED BY <1>7
<1>9. t = iter[S]
  BY DEF CatchUps, FoldSet, MapThenFoldSet
<1> HIDE DEF iter
<1> DEFINE B == {u \in SUBSET S : iter[u] \in A}
<1>10. {} \in B
  BY <1>2, <1>8
<1>11. ASSUME NEW u \in SUBSET S, u # {}, u \ {c[u]} \in B PROVE u \in B
  <2>1. PICK r : r = CHOOSE z \in u : TRUE
    OBVIOUS
  <2>2. r \in S /\ u \ {r} \in SUBSET S /\ c[u] = r
    BY <1>6, <1>11, <2>1
  <2>3. iter[u] = CatchUp(iter[u \ {CHOOSE z \in u : TRUE}], CHOOSE z \in u : TRUE)
    BY <1>8, <1>11
  <2>4. iter[u] = CatchUp(iter[u \ {r}], r) /\ iter[u \ {r}] \in A
    BY <1>11, <2>1, <2>2, <2>3
  <2> QED BY <1>3, <2>2, <2>4
<1>12. SUBSET S \subseteq B
  <2> HIDE DEF B, c
  <2> QED BY <1>1, <1>10, <1>11, SubsetInduction
<1>13. t \in A
  BY <1>9, <1>12
<1> QED BY <1>13 DEF A

\* captureDeferredShutdownHooks, for one routine: a hook more in the store.
LEMMA HookCaptured ==
  ASSUME NEW s \in Runtime, NEW r \in Routines, day \in Nat, sessions \in 1..MaxSessions,
         NEW t, t = captureDeferred(s, r)
  PROVE  Aside(s, t)
<1>1. CASE r \in s.store.paused \/ ~shouldFireHook(s, r)
  BY <1>1 DEF captureDeferred, Aside
<1>2. CASE ~(r \in s.store.paused \/ ~shouldFireHook(s, r))
  <2>1. s.store \in StoreType /\ s.store.deferred \in Seq(Hooks)
    BY DEF Runtime, StoreType
  <2>2. PICK others : others = Kept(s.store.deferred, {i \in DOMAIN s.store.deferred : s.store.deferred[i].r # r})
    OBVIOUS
  <2>3. others \in Seq(Hooks)
    BY <2>1, <2>2, KeptHooks
  <2>4. PICK room : room = IF Len(others) >= MaxDeferred
                           THEN SubSeq(others, Len(others) - MaxDeferred + 2, Len(others)) ELSE others
    OBVIOUS
  <2>5. room \in Seq(Hooks)
    <3>1. Len(others) \in Nat /\ MaxDeferred \in Nat \ {0}
      BY <2>3, FiresAssumption
    <3>2. CASE Len(others) >= MaxDeferred
      <4>1. PICK m \in Nat : m = Len(others) - MaxDeferred + 2
        BY <3>1, <3>2
      <4>2. m >= 1 /\ room = SubSeq(others, m, Len(others))
        BY <2>4, <3>1, <3>2, <4>1
      <4> QED BY <2>3, <3>1, <4>1, <4>2
    <3> QED BY <2>3, <2>4, <3>2
  <2>6. PICK hooks : hooks = Append(room, [id |-> sessions, r |-> r])
    OBVIOUS
  <2>7. hooks \in Seq(Hooks)
    <3>1. [id |-> sessions, r |-> r] \in Hooks
      BY DEF Hooks
    <3> QED BY <2>5, <2>6, <3>1
  <2>8. PICK S : S = [s.store EXCEPT !.deferred = hooks]
    OBVIOUS
  <2>9. S \in StoreType /\ S.pending = s.store.pending
    BY <2>1, <2>7, <2>8 DEF StoreType
  <2>10. PICK m : m = [s EXCEPT !.store = S]
    OBVIOUS
  <2>11. Aside(s, m)
    BY <2>9, <2>10, StoreAside
  <2>12. m = [s EXCEPT !.store.deferred = hooks]
    BY <2>8, <2>10 DEF Runtime
  <2>13. t = commitHookFire(m, r)
    BY <1>2, <2>2, <2>4, <2>6, <2>12 DEF captureDeferred
  <2>14. Aside(m, t)
    BY <2>11, <2>13, CommitAside DEF Aside
  <2> QED BY <2>11, <2>14, AsideTrans
<1> QED BY <1>1, <1>2

\* ... and for all of them.
Captures(s, S) == FoldSet(LAMBDA r, acc : captureDeferred(acc, r), s, S)

LEMMA HooksCaptured ==
  ASSUME NEW s, Sound(s), NEW S \in SUBSET Routines, day \in Nat, sessions \in 1..MaxSessions, NEW t, t = Captures(s, S)
  PROVE  Aside(s, t)
<1> DEFINE A == {x \in Runtime : Sound(x) /\ Aside(s, x)}
           c == [u \in SUBSET S |-> CHOOSE r \in u : TRUE]
           F == [p \in A \X S |-> captureDeferred(p[1], p[2])]
           Solved(g) == [u \in SUBSET S |-> IF u = {} THEN s
                           ELSE captureDeferred(g[u \ {CHOOSE r \in u : TRUE}], CHOOSE r \in u : TRUE)]
           iter == CHOOSE g : g = Solved(g)
<1>1. IsFiniteSet(S) /\ Chooses(c, S)
  BY FiresAssumption, FS_Subset DEF Chooses
<1>2. s \in A
  BY DEF Sound, Aside
<1>3. ASSUME NEW x \in A, NEW r \in S PROVE captureDeferred(x, r) \in A
  <2>1. PICK y : y = captureDeferred(x, r)
    OBVIOUS
  <2>2. Aside(x, y)
    BY <2>1, <1>3, HookCaptured
  <2>3. Aside(s, y) /\ Sound(y) /\ y \in Runtime
    BY <1>3, <2>2, AsideTrans, AsideWorks DEF Works, Sound
  <2> QED BY <2>1, <2>3
<1>4. F \in [A \X S -> A]
  <2> SUFFICES ASSUME NEW p \in A \X S PROVE captureDeferred(p[1], p[2]) \in A
    OBVIOUS
  <2>1. p[1] \in A /\ p[2] \in S
    OBVIOUS
  <2> HIDE DEF A
  <2> QED BY <1>3, <2>1
<1> HIDE DEF A
<1>5. PICK g \in [SUBSET S -> A] : Folds(g, S, c, s, F)
  <2> HIDE DEF F, c
  <2> QED BY <1>1, <1>2, <1>4, FoldExists
<1>6. ASSUME NEW u \in SUBSET S, u # {}
      PROVE  LET r == CHOOSE r \in u : TRUE
             IN r \in S /\ u \ {r} \in SUBSET S /\ c[u] = r
  BY <1>6
<1>7. g = Solved(g)
  <2>1. ASSUME NEW u \in SUBSET S, u # {}
        PROVE  g[u] = captureDeferred(g[u \ {CHOOSE r \in u : TRUE}], CHOOSE r \in u : TRUE)
    <3>1. PICK r : r = CHOOSE z \in u : TRUE
      OBVIOUS
    <3>2. r \in S /\ u \ {r} \in SUBSET S /\ c[u] = r
      BY <1>6, <2>1, <3>1
    <3>3. g[u] = F[<<g[u \ {r}], r>>]
      BY <1>5, <2>1, <3>2 DEF Folds
    <3>4. g[u] = captureDeferred(g[u \ {r}], r)
      BY <1>5, <3>2, <3>3
    <3> QED BY <3>1, <3>4
  <2>2. g[{}] = s
    BY <1>5 DEF Folds
  <2> QED BY <2>1, <2>2
<1>8. iter = Solved(iter)
  <2> HIDE DEF Solved
  <2> QED BY <1>7
<1>9. t = iter[S]
  BY DEF Captures, FoldSet, MapThenFoldSet
<1> HIDE DEF iter
<1> DEFINE B == {u \in SUBSET S : iter[u] \in A}
<1>10. {} \in B
  BY <1>2, <1>8
<1>11. ASSUME NEW u \in SUBSET S, u # {}, u \ {c[u]} \in B PROVE u \in B
  <2>1. PICK r : r = CHOOSE z \in u : TRUE
    OBVIOUS
  <2>2. r \in S /\ u \ {r} \in SUBSET S /\ c[u] = r
    BY <1>6, <1>11, <2>1
  <2>3. iter[u] = captureDeferred(iter[u \ {CHOOSE z \in u : TRUE}], CHOOSE z \in u : TRUE)
    BY <1>8, <1>11
  <2>4. iter[u] = captureDeferred(iter[u \ {r}], r) /\ iter[u \ {r}] \in A
    BY <1>11, <2>1, <2>2, <2>3
  <2> QED BY <1>3, <2>2, <2>4
<1>12. SUBSET S \subseteq B
  <2> HIDE DEF B, c
  <2> QED BY <1>1, <1>10, <1>11, SubsetInduction
<1>13. t \in A
  BY <1>9, <1>12
<1> QED BY <1>13 DEF A

\* promoteDeferredHooks queues deferred hooks and nothing else.
Deferred == {e \in Entry : e.deferred # 0}
Promotes(s, q) == FoldLeft(LAMBDA acc, d : promote(s.queue, acc, d), s, q)

LEMMA HookPromoted ==
  ASSUME NEW s, Sound(s), NEW q, NEW d \in Hooks, NEW t, t = promote(q, s, d) PROVE Works(s, t, Deferred)
<1>1. d.id \in 1..MaxSessions /\ d.r \in Routines
  BY DEF Hooks
<1>2. Works(s, newFire(s, d.r, "hook", d.id, TRUE), Deferred)
  <2>1. d.id \in 0..MaxSessions /\ d.id # 0 /\ "hook" \in Kinds /\ TRUE \in BOOLEAN
    BY <1>1, FiresAssumption DEF Kinds
  <2>2. \A e \in Entry : e.deferred = d.id /\ e.run = s.next => e \in Deferred
    BY <2>1 DEF Deferred
  <2> QED BY <1>1, <2>1, <2>2, FireIssued
<1>3. PICK e : e = [deferred |-> d.id, r |-> d.r]
  OBVIOUS
<1>4. PICK m : m = removeDeferredHook(s, e)
  OBVIOUS
<1>5. Works(s, saveStore(m), Deferred)
  <2>1. Aside(s, m)
    BY <1>4, HookRemovedAside DEF Sound
  <2>2. Aside(m, saveStore(m))
    BY <2>1, SaveAside DEF Aside
  <2> QED BY <2>1, <2>2, AsideTrans, AsideWorks
<1>6. Works(s, s, Deferred)
  BY WorksSelf
<1> QED BY <1>2, <1>3, <1>4, <1>5, <1>6 DEF promote

LEMMA HooksPromoted ==
  ASSUME NEW s, Sound(s), NEW q \in Seq(Hooks), NEW t, t = Promotes(s, q) PROVE Works(s, t, Deferred)
<1> DEFINE A == {x \in Runtime : Sound(x) /\ Works(s, x, Deferred)}
           F == [p \in A \X Hooks |-> promote(s.queue, p[1], p[2])]
           Solved(g) == [u \in SUBSET DOMAIN q |-> IF u = {} THEN s ELSE promote(s.queue, g[u \ {Max(u)}], q[Max(u)])]
           iter == CHOOSE g : g = Solved(g)
<1>1. s \in A
  BY WorksSelf DEF Sound
<1>2. ASSUME NEW x \in A, NEW d \in Hooks PROVE promote(s.queue, x, d) \in A
  <2>1. PICK y : y = promote(s.queue, x, d)
    OBVIOUS
  <2>2. Works(x, y, Deferred)
    BY <1>2, <2>1, HookPromoted
  <2>3. Works(s, y, Deferred) /\ Sound(y) /\ y \in Runtime
    BY <1>2, <2>2, WorksTrans DEF Works, Sound
  <2> QED BY <2>1, <2>3
<1>3. F \in [A \X Hooks -> A]
  <2> SUFFICES ASSUME NEW p \in A \X Hooks PROVE promote(s.queue, p[1], p[2]) \in A
    OBVIOUS
  <2>1. p[1] \in A /\ p[2] \in Hooks
    OBVIOUS
  <2> HIDE DEF A
  <2> QED BY <1>2, <2>1
<1> HIDE DEF A
<1>4. PICK g \in [SUBSET DOMAIN q -> A] : SeqFolds(g, q, s, F)
  <2> HIDE DEF F
  <2> QED BY <1>1, <1>3, SeqFoldExists
<1>5. ASSUME NEW u \in SUBSET DOMAIN q, u # {}
      PROVE  Max(u) \in DOMAIN q /\ Max(u) \in u /\ u \ {Max(u)} \in SUBSET DOMAIN q /\ q[Max(u)] \in Hooks
  <2>1. u \subseteq 0..Len(q) /\ Len(q) \in Nat
    OBVIOUS
  <2>2. Max(u) \in u
    BY <1>5, <2>1, MaxOf
  <2> QED BY <2>2
<1>6. g = Solved(g)
  <2>1. ASSUME NEW u \in SUBSET DOMAIN q, u # {}
        PROVE  g[u] = promote(s.queue, g[u \ {Max(u)}], q[Max(u)])
    <3>1. g[u] = F[<<g[u \ {Max(u)}], q[Max(u)]>>]
      BY <1>4, <2>1 DEF SeqFolds
    <3>2. g[u \ {Max(u)}] \in A /\ q[Max(u)] \in Hooks
      BY <1>4, <1>5, <2>1
    <3> QED BY <3>1, <3>2
  <2>2. g[{}] = s
    BY <1>4 DEF SeqFolds
  <2> QED BY <2>1, <2>2
<1>7. iter = Solved(iter)
  <2> HIDE DEF Solved
  <2> QED BY <1>6
<1>8. t = iter[DOMAIN q]
  BY DEF Promotes, FoldLeft, MapThenFoldSet
<1> HIDE DEF iter
<1> DEFINE B == {u \in SUBSET DOMAIN q : iter[u] \in A}
<1>9. {} \in B
  BY <1>1, <1>7
<1>10. ASSUME NEW u \in SUBSET DOMAIN q, u # {}, u \ {Max(u)} \in B PROVE u \in B
  <2>1. iter[u] = promote(s.queue, iter[u \ {Max(u)}], q[Max(u)])
    BY <1>7, <1>10
  <2>2. iter[u \ {Max(u)}] \in A
    BY <1>10
  <2>3. q[Max(u)] \in Hooks
    BY <1>5, <1>10
  <2> QED BY <1>2, <2>1, <2>2, <2>3
<1>11. SUBSET DOMAIN q \subseteq B
  <2> HIDE DEF B
  <2>1. Descends(DOMAIN q, B)
    BY <1>10 DEF Descends
  <2> QED BY <1>9, <2>1, PositionsInduction
<1>12. t \in A
  BY <1>8, <1>11
<1> QED BY <1>12 DEF A

\* rehydrateQueuedFires: from b, whose queue is empty, each fire of the mirror q is queued
\* again or recorded; a is sound once those at the positions u are.
Rehydrated(b, q) == FoldLeft(rehydrate, b, q)
RunsAt(q, u) == {q[i].run : i \in u}
Reads(b, q, a, u) ==
  /\ Works(b, a, Entry) /\ a.next = b.next
  /\ RunsOf(a.queue) \subseteq RunsAt(q, u)
  /\ \A L : Queued(b, RunsOf(q) \cup L) => Queued(a, RunsAt(q, DOMAIN q \ u) \cup L)

LEMMA FireRehydrated ==
  ASSUME NEW q \in Seq(Entry), Distinct(q), NEW b, Sound(b), b.held = NoEntry,
         \A e \in ToSet(q) : e.run < b.next /\ b.opens[e.run] = 0,
         NEW u \in SUBSET DOMAIN q, NEW i \in u, NEW a, Reads(b, q, a, u \ {i}),
         NEW t, t = rehydrate(a, q[i])
  PROVE  Reads(b, q, t, u) /\ t \in Runtime
<1>1. PICK e : e = q[i]
  OBVIOUS
<1>2. e \in Entry /\ e \in ToSet(q) /\ e.run \in Runs
  BY <1>1, EntryFields DEF ToSet
<1>3. Sound(a) /\ Works(b, a, Entry) /\ a.next = b.next /\ a.opens = b.opens /\ a.held = NoEntry
  BY DEF Reads, Works, Quiet
<1>4. e.run \notin RunsOf(a.queue) /\ e.run < a.next /\ a.opens[e.run] = 0 /\ ~Holds(a, e.run)
  <2>1. e.run \notin RunsAt(q, u \ {i})
    BY <1>1 DEF RunsAt, Distinct
  <2> QED BY <1>2, <1>3, <2>1 DEF Reads, Holds
<1>5. PICK R : R = RunsAt(q, DOMAIN q \ (u \ {i}))
  OBVIOUS
<1>6. \A L : Queued(b, RunsOf(q) \cup L) => Queued(a, R \cup L)
  BY <1>5 DEF Reads
<1>7. R \ {e.run} \subseteq RunsAt(q, DOMAIN q \ u)
  BY <1>1, <1>5 DEF RunsAt
<1>8. ASSUME NEW x, NEW L, Queued(x, (R \cup L) \ {e.run}) PROVE Queued(x, RunsAt(q, DOMAIN q \ u) \cup L)
  BY <1>7, <1>8 DEF Queued
<1>9. RunsAt(q, u \ {i}) \subseteq RunsAt(q, u) /\ e.run \in RunsAt(q, u)
  BY <1>1 DEF RunsAt
<1>10. PICK word : word = "skipped"
  OBVIOUS
<1>11. CASE t = recordRun(a, e.run, word)
  <2>1. word \in Fates \ {"issued", "opened"}
    BY <1>10 DEF Fates
  <2>2. PICK run \in Runs : run = e.run
    BY <1>2
  <2>3. t = recordRun(a, run, word)
    BY <1>11, <2>2
  <2>4. Sound(a) /\ run \in Runs
    BY <1>3
  <2>5. Works(a, t, Entry)
    BY <2>4, <2>1, <2>3, RunRecorded
  <2>6. t.queue = a.queue
    BY <1>3, <2>3 DEF recordRun, saveStore, Sound, Runtime
  <2>7. \A L : Queued(b, RunsOf(q) \cup L) => Queued(t, (R \cup L) \ {run})
    BY <2>4, <2>5, <1>6, <2>1, <2>3, RunRecorded
  <2>8. /\ Works(a, t, Entry) /\ t.queue = a.queue
        /\ \A L : Queued(b, RunsOf(q) \cup L) => Queued(t, (R \cup L) \ {run})
    BY <2>5, <2>6, <2>7
  <2>9. t.next = a.next
    BY <1>3, <2>3 DEF recordRun, saveStore, Sound, Runtime
  <2>10. Works(b, t, Entry)
    BY <1>3, <2>8, WorksTrans
  <2> QED BY <1>3, <1>6, <1>8, <1>9, <2>2, <2>8, <2>9, <2>10 DEF Reads, Works, Sound
<1>12. CASE t = enqueueRoutineFire(a, e, FALSE)
  <2>1. /\ Works(a, t, {e}) /\ t.next = a.next
        /\ \A L : Queued(b, RunsOf(q) \cup L) => Queued(t, (R \cup L) \ {e.run})
    BY <1>2, <1>3, <1>4, <1>6, <1>12, FireEnqueued
  <2>2. Works(a, t, Entry)
    BY <1>2, <2>1 DEF Works, Sound, Runtime
  <2>3. Works(b, t, Entry)
    BY <1>3, <2>2, WorksTrans
  <2>4. RunsOf(t.queue) \subseteq RunsOf(a.queue) \cup {e.run}
    BY <2>1, RunsOfSet DEF Works
  <2> QED BY <1>3, <1>8, <1>9, <2>1, <2>3, <2>4 DEF Reads, Works, Sound
<1> QED BY <1>1, <1>10, <1>11, <1>12 DEF rehydrate

LEMMA FiresRehydrated ==
  ASSUME NEW q \in Seq(Entry), Distinct(q), NEW b, Sound(b), b.held = NoEntry, b.queue = <<>>,
         \A e \in ToSet(q) : e.run < b.next /\ b.opens[e.run] = 0,
         NEW t, t = Rehydrated(b, q)
  PROVE  Works(b, t, Entry) /\ \A L : Queued(b, RunsOf(q) \cup L) => Queued(t, L)
<1> DEFINE step(x, e) == IF rehydrate(x, e) \in Runtime THEN rehydrate(x, e) ELSE x
           F == [p \in Runtime \X Entry |-> step(p[1], p[2])]
           Solved(g) == [u \in SUBSET DOMAIN q |-> IF u = {} THEN b ELSE rehydrate(g[u \ {Max(u)}], q[Max(u)])]
           iter == CHOOSE g : g = Solved(g)
<1>1. b \in Runtime
  BY DEF Sound
<1>2. F \in [Runtime \X Entry -> Runtime]
  OBVIOUS
<1> HIDE DEF step
<1>3. PICK g \in [SUBSET DOMAIN q -> Runtime] : SeqFolds(g, q, b, F)
  <2> HIDE DEF F
  <2> QED BY <1>1, <1>2, SeqFoldExists
<1>4. ASSUME NEW u \in SUBSET DOMAIN q, u # {}
      PROVE  /\ Max(u) \in DOMAIN q /\ Max(u) \in u /\ u \ {Max(u)} \in SUBSET DOMAIN q /\ q[Max(u)] \in Entry
  <2>1. u \subseteq 0..Len(q) /\ Len(q) \in Nat
    OBVIOUS
  <2>2. Max(u) \in u
    BY <1>4, <2>1, MaxOf
  <2> QED BY <2>2
<1>5. Reads(b, q, b, {})
  <2>1. Works(b, b, Entry)
    BY WorksSelf
  <2>2. RunsOf(b.queue) = {}
    BY DEF RunsOf
  <2>3. RunsAt(q, DOMAIN q \ {}) = RunsOf(q)
    BY DEF RunsAt, RunsOf
  <2> QED BY <2>1, <2>2, <2>3 DEF Reads
<1>8. ASSUME NEW h, Reads(b, q, h[{}], {}),
             \A u \in SUBSET DOMAIN q : u # {} /\ Reads(b, q, h[u \ {Max(u)}], u \ {Max(u)}) => Reads(b, q, h[u], u)
      PROVE  \A u \in SUBSET DOMAIN q : Reads(b, q, h[u], u)
  <2> DEFINE B == {u \in SUBSET DOMAIN q : Reads(b, q, h[u], u)}
  <2>1. {} \in B
    BY <1>8
  <2>2. ASSUME NEW u \in SUBSET DOMAIN q, u # {}, u \ {Max(u)} \in B PROVE u \in B
    BY <1>8, <2>2
  <2>3. SUBSET DOMAIN q \subseteq B
    <3> HIDE DEF B
    <3>1. Descends(DOMAIN q, B)
      BY <2>2 DEF Descends
    <3> QED BY <2>1, <3>1, PositionsInduction
  <2> QED BY <2>3
<1>9. ASSUME NEW u \in SUBSET DOMAIN q, u # {}, NEW x, Reads(b, q, x, u \ {Max(u)})
      PROVE  /\ Reads(b, q, rehydrate(x, q[Max(u)]), u) /\ rehydrate(x, q[Max(u)]) \in Runtime
  <2>1. PICK i : i = Max(u)
    OBVIOUS
  <2>2. i \in u /\ Reads(b, q, x, u \ {i})
    BY <1>4, <1>9, <2>1
  <2>3. PICK y : y = rehydrate(x, q[i])
    OBVIOUS
  <2>4. Reads(b, q, y, u) /\ y \in Runtime
    BY <2>2, <2>3, FireRehydrated
  <2> QED BY <2>1, <2>3, <2>4
<1>10. ASSUME NEW u \in SUBSET DOMAIN q, u # {} PROVE g[u] = step(g[u \ {Max(u)}], q[Max(u)])
  <2>1. g[u] = F[<<g[u \ {Max(u)}], q[Max(u)]>>]
    BY <1>3, <1>10 DEF SeqFolds
  <2>2. g[u \ {Max(u)}] \in Runtime /\ q[Max(u)] \in Entry
    BY <1>3, <1>4, <1>10
  <2> QED BY <2>1, <2>2
<1> HIDE DEF F
<1>11. g[{}] = b
  BY <1>3 DEF SeqFolds
<1>12. \A u \in SUBSET DOMAIN q : Reads(b, q, g[u], u)
  <2>1. ASSUME NEW u \in SUBSET DOMAIN q, u # {}, Reads(b, q, g[u \ {Max(u)}], u \ {Max(u)}) PROVE Reads(b, q, g[u], u)
    <3>1. g[u] = rehydrate(g[u \ {Max(u)}], q[Max(u)])
      BY <1>9, <1>10, <2>1 DEF step
    <3> QED BY <1>9, <2>1, <3>1
  <2> QED BY <1>5, <1>8, <1>11, <2>1
<1>13. g = Solved(g)
  <2>1. ASSUME NEW u \in SUBSET DOMAIN q, u # {} PROVE g[u] = rehydrate(g[u \ {Max(u)}], q[Max(u)])
    <3>1. Reads(b, q, g[u \ {Max(u)}], u \ {Max(u)})
      BY <1>4, <1>12, <2>1
    <3> QED BY <1>9, <1>10, <2>1, <3>1 DEF step
  <2> QED BY <1>11, <2>1
<1>14. iter = Solved(iter)
  <2> HIDE DEF Solved
  <2> QED BY <1>13
<1>15. t = iter[DOMAIN q]
  BY DEF Rehydrated, FoldLeft, MapThenFoldSet
<1> HIDE DEF iter
<1>16. \A u \in SUBSET DOMAIN q : Reads(b, q, iter[u], u)
  <2>1. ASSUME NEW u \in SUBSET DOMAIN q, u # {}, Reads(b, q, iter[u \ {Max(u)}], u \ {Max(u)}) PROVE Reads(b, q, iter[u], u)
    <3>1. iter[u] = rehydrate(iter[u \ {Max(u)}], q[Max(u)])
      BY <1>14, <2>1
    <3> QED BY <1>9, <2>1, <3>1
  <2>2. iter[{}] = b
    BY <1>14
  <2> QED BY <1>5, <1>8, <2>1, <2>2
<1>17. Reads(b, q, t, DOMAIN q)
  BY <1>15, <1>16
<1>18. RunsAt(q, DOMAIN q \ DOMAIN q) = {}
  BY DEF RunsAt
<1>19. \A L : RunsAt(q, DOMAIN q \ DOMAIN q) \cup L = L
  BY <1>18
<1> QED BY <1>17, <1>19 DEF Reads

-----------------------------------------------------------------------------
(* The invariant.                                                          *)

OnDisk == RunsOf(disk.pending)
Between == phase \in {"off", "reloading", "replaced", "loading"}
AtRest(s) == s.queue = <<>> /\ ~s.turn /\ s.drain = "no"

\* No fire on disk has opened a turn, and the one the drain is about to open is off it.
DiskSound ==
  /\ disk \in StoreType /\ Distinct(disk.pending) /\ Len(disk.pending) <= MaxQueueDepth
  /\ \A e \in ToSet(disk.pending) : e.run < rt.next /\ rt.opens[e.run] = 0
  /\ rt.drain = "persist" /\ "drain" \in rt.arrived => rt.held.run \notin OnDisk

\* What each phase of the session leaves at rest.
PhaseSound ==
  /\ phase \in {"off", "reloading", "replaced", "loading", "ready", "headless", "closing"}
  /\ Between => /\ AtRest(rt) /\ ~rt.dirty /\ rt.awaiting = {} /\ rt.arrived = {}
                /\ rt.store.pending = <<>> /\ ~ours
  /\ phase = "headless" => AtRest(rt)
  /\ phase # "closing" => rt.awaiting \cup rt.arrived \subseteq {"drain"}
  /\ phase = "ready" => Mirror(rt) /\ (ours => rt.turn)
  /\ phase = "off" \/ sessions > 0
  /\ day \in Nat /\ sessions \in 0..MaxSessions

\* Where the fires that are owed a turn are, but the lost ones: on disk between sessions, in
\* the queue or the drain's hand while one is live, in the mirror while one closes, and then
\* on disk. What a session that closes has in hand, in its queue and open is lost.
Owed(S) == \A n \in Runs : rt.fate[n] = "issued" => n \in S
Left(s, L) ==
  /\ InHand(s) \cup RunsOf(s.queue) \subseteq L
  /\ s.pendingRun # NoRun => s.pendingRun.run \in L
Mirrored == RunsOf(rt.store.pending)
ClosingFates ==
  /\ Left(rt, lost)
  /\ \/ Owed(lost)
     \/ /\ rt.queue = <<>> /\ Owed(Mirrored \cup lost)
        /\ rt.arrived \ {"drain"} # {} => Mirrored \subseteq OnDisk
FatesSound ==
  /\ Opened(rt, lost)
  /\ Between => Owed(OnDisk \cup lost)
  /\ phase = "ready" => Queued(rt, lost)
  /\ phase = "headless" => Owed(Mirrored \cup lost)
  /\ phase = "closing" => ClosingFates
  /\ Between \/ rt.dirty \/ Mirrored \subseteq OnDisk

FiresInv == Sound(rt) /\ DiskSound /\ PhaseSound /\ FatesSound

LEMMA DiskKept ==
  ASSUME FiresInv, disk' = disk, Advances(rt, rt') PROVE DiskSound'
<1>1. /\ rt.next \in Nat /\ rt'.next \in Nat /\ rt.next <= rt'.next
      /\ TurnSound(rt) /\ \A e \in ToSet(disk.pending) : e.run \in Runs
  <2>1. Sound(rt) /\ Sound(rt') /\ rt.next <= rt'.next
    BY DEF FiresInv, Advances
  <2>2. disk.pending \in Seq(Entry)
    BY DEF FiresInv, DiskSound, StoreType
  <2> QED BY <2>1, <2>2, EntryFields, RunsAreNat DEF Sound, Runtime
<1>2. ASSUME NEW e \in ToSet(disk.pending) PROVE e.run < rt'.next /\ rt'.opens[e.run] = 0
  <2>1. e.run \in Runs /\ e.run \in Nat /\ e.run < rt.next /\ rt.opens[e.run] = 0 /\ e.run \in OnDisk
    BY <1>1, RunsAreNat, RunsOfSet DEF FiresInv, DiskSound, OnDisk
  <2>2. CASE rt'.opens[e.run] = rt.opens[e.run]
    BY <1>1, <2>1, <2>2
  <2>3. CASE rt'.opens[e.run] # rt.opens[e.run]
    <3>1. "drain" \in rt.arrived /\ rt.held # NoEntry /\ rt.held.run = e.run
      BY <2>1, <2>3 DEF Advances, Holds
    <3>2. rt.held.run \notin OnDisk
      BY <1>1, <3>1 DEF FiresInv, DiskSound, TurnSound
    <3> QED BY <2>1, <3>1, <3>2
  <2> QED BY <2>2, <2>3
<1>3. rt'.drain = "persist" /\ "drain" \in rt'.arrived => rt'.held.run \notin OnDisk
  BY DEF FiresInv, DiskSound, Advances
<1> QED BY <1>2, <1>3 DEF FiresInv, DiskSound, OnDisk

LEMMA ReadyStep ==
  ASSUME FiresInv, phase = "ready", phase' = "ready", disk' = disk, Advances(rt, rt'),
         ours' => rt'.turn, lost' = lost, day' = day, sessions' = sessions
  PROVE  FiresInv'
<1>1. DiskSound'
  BY DiskKept
<1>2. Sound(rt') /\ Mirror(rt')
  BY DEF FiresInv, PhaseSound, Advances
<1>3. PhaseSound'
  <2>1. rt'.awaiting \cup rt'.arrived \subseteq {"drain"}
    BY DEF FiresInv, PhaseSound, Advances
  <2> QED BY <1>2, <2>1 DEF FiresInv, PhaseSound, Between
<1>4. FatesSound'
  <2>1. Opened(rt', lost) /\ Queued(rt', lost)
    BY DEF FiresInv, FatesSound, Advances
  <2>2. rt'.dirty \/ Mirrored' \subseteq OnDisk
    BY DEF FiresInv, FatesSound, Advances, Writes, Between, Mirrored
  <2> QED BY <2>1, <2>2 DEF FatesSound, Between, OnDisk
<1> QED BY <1>1, <1>2, <1>3, <1>4 DEF FiresInv

LEMMA ClosingStep ==
  ASSUME FiresInv, phase = "closing", phase' = "closing", disk' = disk, Advances(rt, rt'),
         lost \subseteq lost', ClosingFates', day' = day, sessions' = sessions
  PROVE  FiresInv'
<1>1. DiskSound'
  BY DiskKept
<1>2. Sound(rt')
  BY DEF Advances
<1>3. PhaseSound'
  BY DEF FiresInv, PhaseSound, Between
<1>4. Opened(rt', lost')
  <2>1. Opened(rt', lost)
    BY DEF FiresInv, FatesSound, Advances
  <2> QED BY <2>1 DEF Opened
<1>5. rt'.dirty \/ Mirrored' \subseteq OnDisk
  BY DEF FiresInv, FatesSound, Advances, Writes, Between, Mirrored
<1>6. FatesSound'
  BY <1>4, <1>5 DEF FatesSound, Between, OnDisk
<1> QED BY <1>1, <1>2, <1>3, <1>6 DEF FiresInv

\* While a session closes the drain may go on with what it has: none of that is kept.
LEMMA ClosingDrain ==
  ASSUME FiresInv, phase = "closing", phase' = "closing", disk' = disk, lost' = lost,
         Advances(rt, rt'), Shrinks(rt, rt'), day' = day, sessions' = sessions
  PROVE  FiresInv'
<1>1. ClosingFates
  BY DEF FiresInv, FatesSound
<1>2. \A n : Holds(rt', n) => n \in InHand(rt')
  BY DEF Holds, InHand
<1>3. NormalRuns(rt'.queue) \subseteq RunsOf(rt'.queue)
  BY RunsOfSet DEF NormalRuns
<1>4. Left(rt', lost)
  <2>1. RunsOf(rt'.queue) \subseteq RunsOf(rt.queue)
    BY RunsOfSet DEF Shrinks
  <2>2. rt'.pendingRun # NoRun => rt'.pendingRun.run \in lost
    BY <1>1 DEF ClosingFates, Left, Shrinks
  <2> QED BY <1>1, <2>1, <2>2 DEF ClosingFates, Left, Shrinks
<1>5. ASSUME NEW S, Owed(S \cup lost) PROVE \A n \in Runs : rt'.fate[n] = "issued" => n \in S \cup lost
  <2>1. Queued(rt, S \cup lost)
    BY <1>5 DEF Owed, Queued
  <2>2. Queued(rt', S \cup lost)
    BY <2>1 DEF Advances
  <2> QED BY <1>2, <1>3, <1>4, <2>2 DEF Queued, Left
<1>6. ClosingFates'
  <2>1. CASE Owed(lost)
    <3>1. Owed({} \cup lost)
      BY <2>1 DEF Owed
    <3>2. \A n \in Runs : rt'.fate[n] = "issued" => n \in lost
      BY <1>5, <3>1
    <3> QED BY <1>4, <3>2 DEF ClosingFates, Owed, Left
  <2>2. CASE rt.queue = <<>> /\ Owed(Mirrored \cup lost) /\ (rt.arrived \ {"drain"} # {} => Mirrored \subseteq OnDisk)
    <3>1. rt'.queue = <<>> /\ Mirrored' = Mirrored
      BY <2>2 DEF Shrinks, Mirrored
    <3>2. \A n \in Runs : rt'.fate[n] = "issued" => n \in Mirrored \cup lost
      BY <1>5, <2>2
    <3>3. rt'.arrived \ {"drain"} # {} => Mirrored \subseteq OnDisk
      BY <2>2 DEF Advances
    <3> QED BY <1>4, <3>1, <3>2, <3>3 DEF ClosingFates, Owed, Left, OnDisk
  <2> QED BY <1>1, <2>1, <2>2 DEF ClosingFates
<1> QED BY <1>6, ClosingStep

\* A step beside the queue, the drain and the turn, in any phase.
LEMMA BesideStep ==
  ASSUME FiresInv, Aside(rt, rt'), Between => rt'.dirty = rt.dirty, disk' = disk, phase' = phase,
         ours' => ours, lost' = lost, day' = day, sessions' = sessions
  PROVE  FiresInv'
<1>1. Works(rt, rt', {}) /\ \A R : Queued(rt, R) => Queued(rt', R)
  BY AsideWorks DEF FiresInv
<1>2. Advances(rt, rt') /\ Sound(rt')
  BY <1>1, WorksAdvance DEF FiresInv, Works
<1>3. DiskSound'
  BY <1>2, DiskKept
<1>4. PhaseSound'
  <2>1. /\ rt'.queue = rt.queue /\ rt'.turn = rt.turn /\ rt'.drain = rt.drain /\ rt'.awaiting = rt.awaiting
        /\ rt'.arrived = rt.arrived /\ rt'.store.pending = rt.store.pending /\ (Mirror(rt) => Mirror(rt'))
    BY <1>1 DEF Aside, Works
  <2> QED BY <2>1 DEF FiresInv, PhaseSound, Between, AtRest
<1>5. FatesSound'
  <2>1. /\ rt'.queue = rt.queue /\ rt'.fate = rt.fate /\ rt'.held = rt.held /\ rt'.pendingRun = rt.pendingRun
        /\ rt'.arrived = rt.arrived /\ (rt.dirty => rt'.dirty)
        /\ Mirrored' = Mirrored /\ OnDisk' = OnDisk /\ Between' = Between
    BY DEF Aside, Mirrored, OnDisk, Between
  <2>2. Opened(rt', lost) /\ (Queued(rt, lost) => Queued(rt', lost))
    BY <1>1 DEF Works, FiresInv, FatesSound
  <2>3. \A S : Owed(S) => \A n \in Runs : rt'.fate[n] = "issued" => n \in S
    BY <2>1 DEF Owed
  <2>4. Left(rt, lost) => Left(rt', lost)
    BY <2>1 DEF Left, InHand
  <2>5. ClosingFates => ClosingFates'
    BY <2>1, <2>3, <2>4 DEF ClosingFates, Left, Owed
  <2> QED BY <2>1, <2>2, <2>3, <2>5 DEF FiresInv, FatesSound, Owed
<1> QED BY <1>2, <1>3, <1>4, <1>5 DEF FiresInv

-----------------------------------------------------------------------------
(* The steps of a session.                                                 *)

LEMMA SaveEndStep == ASSUME FiresInv, SaveEnd PROVE FiresInv'
<1>1. rt \in Runtime /\ TurnSound(rt) /\ rt.dirty /\ ~Between
  BY DEF FiresInv, Sound, SaveEnd, PhaseSound
<1>2. PICK w : w = rt.arrived \cup rt.awaiting
  OBVIOUS
<1>3. w \in SUBSET Waiters
  BY <1>1, <1>2 DEF Runtime
<1>4. rt' = [rt EXCEPT !.dirty = FALSE, !.awaiting = {}, !.arrived = w]
  BY <1>2 DEF SaveEnd
<1>5. rt' \in Runtime
  BY <1>1, <1>3, <1>4 DEF Runtime
<1>6. /\ rt'.queue = rt.queue /\ rt'.store = rt.store /\ rt'.fate = rt.fate /\ rt'.next = rt.next
      /\ rt'.held = rt.held /\ rt'.opens = rt.opens /\ rt'.turn = rt.turn
      /\ rt'.pendingRun = rt.pendingRun /\ rt'.drain = rt.drain /\ rt'.awaiting = {} /\ rt'.arrived = w
  BY <1>1, <1>4 DEF Runtime
<1>7. TurnSound(rt') /\ \A n : Holds(rt', n) <=> Holds(rt, n)
  BY <1>1, <1>2, <1>6 DEF TurnSound, Holds
<1>8. \A q : ListSound(rt, q) => ListSound(rt', q)
  BY <1>6, <1>7 DEF ListSound
<1>9. Sound(rt')
  BY <1>5, <1>6, <1>7, <1>8 DEF FiresInv, Sound
<1>10. DiskSound'
  <2>1. disk' = rt.store /\ rt.store \in StoreType
    BY <1>1 DEF SaveEnd, Runtime
  <2>2. ListSound(rt', rt.store.pending)
    BY <1>8 DEF FiresInv, Sound
  <2>3. \A n \in RunsOf(rt.store.pending) : ~Holds(rt', n)
    BY <2>2, RunsOfSet DEF ListSound
  <2>4. rt'.drain = "persist" => rt'.held # NoEntry
    BY <1>7 DEF TurnSound
  <2>5. rt'.drain = "persist" => rt'.held.run \notin RunsOf(rt.store.pending)
    BY <2>3, <2>4 DEF Holds
  <2> QED BY <2>1, <2>2, <2>5 DEF DiskSound, OnDisk, ListSound
<1>11. phase' = phase /\ ours' = ours /\ lost' = lost /\ day' = day /\ sessions' = sessions /\ disk' = rt.store
  BY DEF SaveEnd
<1>12. PhaseSound'
  <2>1. AtRest(rt) => AtRest(rt')
    BY <1>6 DEF AtRest
  <2>2. Mirror(rt) => Mirror(rt')
    BY <1>6 DEF Mirror
  <2>3. phase # "closing" => rt'.awaiting \cup rt'.arrived \subseteq {"drain"}
    BY <1>2, <1>6 DEF FiresInv, PhaseSound
  <2> QED BY <1>1, <1>6, <1>11, <2>1, <2>2, <2>3 DEF FiresInv, PhaseSound, Between
<1>13. FatesSound'
  <2>1. Opened(rt', lost) /\ (Queued(rt, lost) => Queued(rt', lost))
    BY <1>6, <1>7 DEF FiresInv, FatesSound, Opened, Queued
  <2>2. OnDisk' = Mirrored' /\ Mirrored' = Mirrored
    BY <1>6, <1>11 DEF OnDisk, Mirrored
  <2>3. \A S : Owed(S) => (\A n \in Runs : rt'.fate[n] = "issued" => n \in S)
    BY <1>6 DEF Owed
  <2>4. Left(rt, lost) => Left(rt', lost)
    BY <1>6 DEF Left, InHand
  <2>5. ClosingFates => ClosingFates'
    BY <1>6, <1>11, <2>2, <2>3, <2>4 DEF ClosingFates, Left, Owed
  <2>6. ~Between' /\ phase' = phase
    BY <1>1, <1>11 DEF Between
  <2> QED BY <1>11, <2>1, <2>2, <2>3, <2>5, <2>6 DEF FiresInv, FatesSound, Owed
<1> QED BY <1>9, <1>10, <1>12, <1>13 DEF FiresInv

\* The await of the drain is over.
LEMMA ArrivalTaken ==
  ASSUME NEW a, Sound(a), "drain" \in a.arrived, NEW s, s = [a EXCEPT !.arrived = a.arrived \ {"drain"}]
  PROVE  /\ Sound(s) /\ "drain" \notin s.arrived /\ "drain" \notin s.awaiting /\ s.drain # "no"
         /\ s.queue = a.queue /\ s.store = a.store /\ s.fate = a.fate /\ s.next = a.next
         /\ s.held = a.held /\ s.opens = a.opens /\ s.turn = a.turn
         /\ s.pendingRun = a.pendingRun /\ s.drain = a.drain /\ s.awaiting = a.awaiting /\ s.arrived \subseteq a.arrived
<1>1. a \in Runtime /\ TurnSound(a)
  BY DEF Sound
<1>2. PICK w : w = a.arrived \ {"drain"}
  OBVIOUS
<1>3. w \in SUBSET Waiters /\ s = [a EXCEPT !.arrived = w]
  BY <1>1, <1>2 DEF Runtime
<1>4. s \in Runtime
  BY <1>1, <1>3 DEF Runtime
<1>5. /\ s.queue = a.queue /\ s.store = a.store /\ s.fate = a.fate /\ s.next = a.next
      /\ s.held = a.held /\ s.opens = a.opens /\ s.turn = a.turn
      /\ s.pendingRun = a.pendingRun /\ s.drain = a.drain /\ s.awaiting = a.awaiting /\ s.arrived = w
  BY <1>1, <1>3 DEF Runtime
<1>6. TurnSound(s) /\ (\A n : Holds(s, n) <=> Holds(a, n)) /\ s.drain # "no" /\ "drain" \notin s.awaiting
  BY <1>1, <1>2, <1>5 DEF TurnSound, Holds
<1>7. \A q : ListSound(a, q) => ListSound(s, q)
  BY <1>5, <1>6 DEF ListSound
<1> QED BY <1>2, <1>4, <1>5, <1>6, <1>7 DEF Sound

\* What holds of the runtime with the await over holds of the runtime.
LEMMA ArrivalAdvances ==
  ASSUME NEW a, Sound(a), "drain" \in a.arrived, NEW s, s = [a EXCEPT !.arrived = a.arrived \ {"drain"}],
         NEW t, Settles(s, t)
  PROVE  Advances(a, t) /\ Shrinks(a, t)
<1>1. /\ "drain" \notin s.arrived /\ s.queue = a.queue /\ s.store = a.store /\ s.fate = a.fate /\ s.next = a.next
      /\ s.held = a.held /\ s.opens = a.opens /\ s.turn = a.turn
      /\ s.pendingRun = a.pendingRun /\ s.awaiting = a.awaiting /\ s.arrived \subseteq a.arrived
  BY ArrivalTaken
<1>2. (Mirror(a) => Mirror(s)) /\ \A R : (Queued(a, R) => Queued(s, R)) /\ (Opened(a, R) => Opened(s, R))
  BY <1>1 DEF Mirror, Queued, Opened, Holds
<1>3. \A n : Holds(s, n) <=> Holds(a, n)
  BY <1>1 DEF Holds
<1>4. s.dirty = a.dirty
  BY DEF Sound, Runtime
<1>5. Writes(a, t) /\ Shrinks(a, t)
  BY <1>1, <1>4 DEF Settles, Writes, Shrinks, InHand
<1> QED BY <1>1, <1>2, <1>3, <1>5 DEF Settles, Advances

LEMMA DrainResumeStep == ASSUME FiresInv, NEW refused \in BOOLEAN, DrainResume(refused) PROVE FiresInv'
<1>1. PICK s : s = [rt EXCEPT !.arrived = rt.arrived \ {"drain"}]
  OBVIOUS
<1>2. PICK idle : idle = (agent = "idle")
  OBVIOUS
<1>3. /\ "drain" \in rt.arrived /\ Sound(rt) /\ day \in Nat
      /\ disk' = disk /\ phase' = phase /\ day' = day /\ sessions' = sessions /\ lost' = lost
      /\ IF rt.drain = "persist" /\ Opens(s, refused) THEN ours' ELSE ours' = ours
      /\ rt' = IF rt.drain = "persist" THEN afterPersist(s, idle, refused) ELSE drainLoop(s, idle)
  BY <1>1, <1>2 DEF DrainResume, FiresInv, PhaseSound
<1>4. /\ Sound(s) /\ "drain" \notin s.arrived /\ "drain" \notin s.awaiting /\ s.drain # "no"
      /\ s.queue = rt.queue /\ s.store = rt.store /\ s.fate = rt.fate
      /\ s.held = rt.held /\ s.turn = rt.turn /\ s.drain = rt.drain
  BY <1>1, <1>3, ArrivalTaken
<1>5. phase = "ready" \/ phase = "closing"
  BY <1>3, <1>4 DEF FiresInv, PhaseSound, Between, AtRest
<1>6. CASE rt.drain = "persist"
  <2>1. Resumed(s)
    <3>1. s \in Runtime /\ TurnSound(s)
      BY <1>4 DEF Sound
    <3>2. s.held \in Entry /\ ~s.turn /\ s.pendingRun = NoRun
      BY <1>4, <1>6, <3>1 DEF TurnSound, Runtime
    <3> QED BY <1>4, <1>6, <3>2 DEF Resumed
  <2>2. PICK t : t = afterPersist(s, idle, refused)
    OBVIOUS
  <2>3. Settles(s, t) /\ IF Opens(s, refused) THEN t.turn ELSE t.turn = s.turn
    BY <1>3, <2>1, <2>2, HeldResolved
  <2>4. t = rt'
    BY <1>3, <1>6, <2>2
  <2>5. Advances(rt, rt') /\ Shrinks(rt, rt')
    BY <1>1, <1>3, <2>3, <2>4, ArrivalAdvances
  <2>6. CASE phase = "ready"
    <3>1. ours' => rt'.turn
      BY <1>3, <1>4, <1>6, <2>3, <2>4, <2>6 DEF FiresInv, PhaseSound
    <3> QED BY <1>3, <2>5, <2>6, <3>1, ReadyStep
  <2>7. CASE phase = "closing"
    BY <1>3, <2>5, <2>7, ClosingDrain
  <2> QED BY <1>5, <2>6, <2>7
<1>7. CASE rt.drain # "persist"
  <2>1. s.held = NoEntry
    BY <1>4, <1>7 DEF Sound, TurnSound
  <2>2. PICK t : t = drainLoop(s, idle)
    OBVIOUS
  <2>3. Drains(s, t)
    BY <1>4, <2>1, <2>2, DrainLooped DEF Holds
  <2>4. t = rt'
    BY <1>3, <1>7, <2>2
  <2>5. Settles(s, t)
    <3>1. Advances(s, t)
      BY <1>4, <2>3, DrainsAdvance
    <3> QED BY <1>4, <2>3, <3>1 DEF Advances, Settles, Drains
  <2>6. Advances(rt, rt') /\ Shrinks(rt, rt')
    BY <1>1, <1>3, <2>4, <2>5, ArrivalAdvances
  <2>7. ours' = ours
    BY <1>3, <1>7
  <2>8. CASE phase = "ready"
    <3>1. ours' => rt'.turn
      BY <1>4, <2>3, <2>4, <2>7, <2>8 DEF FiresInv, PhaseSound, Drains
    <3> QED BY <1>3, <2>6, <2>8, <3>1, ReadyStep
  <2>9. CASE phase = "closing"
    BY <1>3, <2>6, <2>9, ClosingDrain
  <2> QED BY <1>5, <2>8, <2>9
<1> QED BY <1>6, <1>7

\* The timer of the watchdog, when it has nothing to drain.
LEMMA WatchdogOff ==
  ASSUME NEW s \in Runtime, NEW t, t = [s EXCEPT !.watchdog = FALSE] PROVE Aside(s, t) /\ t.dirty = s.dirty
<1>1. t \in Runtime
  BY DEF Runtime
<1>2. /\ t.queue = s.queue /\ t.store.pending = s.store.pending /\ t.fate = s.fate /\ t.next = s.next
      /\ t.held = s.held /\ t.opens = s.opens /\ t.turn = s.turn /\ t.dirty = s.dirty
      /\ t.pendingRun = s.pendingRun /\ t.drain = s.drain /\ t.awaiting = s.awaiting /\ t.arrived = s.arrived
  BY DEF Runtime
<1> QED BY <1>1, <1>2 DEF Aside

LEMMA WatchdogStep == ASSUME FiresInv, WatchdogTick PROVE FiresInv'
<1>1. /\ disk' = disk /\ phase' = phase /\ ours' = ours /\ day' = day /\ sessions' = sessions /\ lost' = lost
      /\ Sound(rt) /\ rt \in Runtime
  BY DEF WatchdogTick, FiresInv, Sound
<1>2. CASE rt.queue = <<>>
  <2>1. rt' = [rt EXCEPT !.watchdog = FALSE]
    BY <1>2 DEF WatchdogTick
  <2>2. Aside(rt, rt') /\ rt'.dirty = rt.dirty
    BY <1>1, <2>1, WatchdogOff
  <2> QED BY <1>1, <2>2, BesideStep
<1>3. CASE rt.queue # <<>>
  <2>1. PICK t : t = drainQueue(rt, agent = "idle")
    OBVIOUS
  <2>2. t = rt'
    BY <1>3, <2>1 DEF WatchdogTick
  <2>3. Advances(rt, rt') /\ Shrinks(rt, rt') /\ rt'.turn = rt.turn
    <3>1. Drains(rt, t)
      BY <1>1, <2>1, QueueDrained
    <3> QED BY <1>1, <2>2, <3>1, DrainsAdvance DEF Drains
  <2>4. phase = "ready" \/ phase = "closing"
    BY <1>3 DEF FiresInv, PhaseSound, Between, AtRest
  <2>5. CASE phase = "ready"
    <3>1. ours' => rt'.turn
      BY <1>1, <2>3, <2>5 DEF FiresInv, PhaseSound
    <3> QED BY <1>1, <2>3, <2>5, <3>1, ReadyStep
  <2>6. CASE phase = "closing"
    BY <1>1, <2>3, <2>6, ClosingDrain
  <2> QED BY <2>4, <2>5, <2>6
<1> QED BY <1>2, <1>3

\* A fire asked for, and drained if pi and the guard are free.
Asked(s, r, sort, idle) == drainQueue(newFire(s, r, sort, 0, FALSE), idle)

LEMMA FireDrained ==
  ASSUME NEW s, Sound(s), NEW r \in Routines, NEW sort \in Kinds, NEW idle, NEW t, t = Asked(s, r, sort, idle)
  PROVE  /\ Advances(s, t) /\ t.turn = s.turn
         /\ InHand(t) \cup RunsOf(t.queue) \subseteq InHand(s) \cup RunsOf(s.queue) \cup {s.next}
         /\ t.pendingRun = s.pendingRun
<1>1. PICK m : m = newFire(s, r, sort, 0, FALSE)
  OBVIOUS
<1>2. PICK X : X = {e \in Entry : e.run = s.next}
  OBVIOUS
<1>3. Works(s, m, X)
  <2>1. 0 \in 0..MaxSessions
    BY FiresAssumption
  <2>2. \A e \in Entry : e.deferred = 0 /\ e.run = s.next => e \in X
    BY <1>2
  <2> QED BY <1>1, <2>1, <2>2, FireIssued
<1>4. Drains(m, t)
  <2>1. Sound(m) /\ t = drainQueue(m, idle)
    BY <1>1, <1>3 DEF Works, Asked
  <2> QED BY <2>1, QueueDrained
<1>5. RunsOf(m.queue) \subseteq RunsOf(s.queue) \cup {s.next} /\ InHand(m) = InHand(s) /\ m.pendingRun = s.pendingRun
  <2>1. ToSet(m.queue) \subseteq ToSet(s.queue) \cup X
    BY <1>3 DEF Works
  <2>2. \A e \in X : e.run = s.next
    BY <1>2
  <2>3. RunsOf(m.queue) \subseteq RunsOf(s.queue) \cup {s.next}
    BY <2>1, <2>2, RunsOfSet
  <2> QED BY <1>3, <2>3 DEF Works, Quiet, InHand
<1>6. InHand(t) \cup RunsOf(t.queue) \subseteq InHand(m) \cup RunsOf(m.queue) /\ t.pendingRun = m.pendingRun
  BY <1>4, RunsOfSet DEF Drains, Shrinks
<1>7. Advances(s, t) /\ t.turn = s.turn
  BY <1>3, <1>4, WorkDrained
<1> QED BY <1>5, <1>6, <1>7

\* A trigger, a request or the user's command asks for a fire.
LEMMA FireStep ==
  ASSUME FiresInv, NEW r \in Routines, NEW sort \in Kinds, NEW idle,
         rt' = Asked(rt, r, sort, idle),
         phase \in {"ready", "closing"}, phase' = phase, disk' = disk, ours' = ours,
         lost' = IF phase = "closing" THEN lost \cup RunsOf(rt.store.pending) \cup {rt.next} ELSE lost,
         day' = day, sessions' = sessions
  PROVE  FiresInv'
<1>1. PICK t : t = Asked(rt, r, sort, idle)
  OBVIOUS
<1>2. /\ Advances(rt, rt') /\ rt'.turn = rt.turn
      /\ InHand(rt') \cup RunsOf(rt'.queue) \subseteq InHand(rt) \cup RunsOf(rt.queue) \cup {rt.next}
      /\ rt'.pendingRun = rt.pendingRun
  <2>1. Sound(rt) /\ rt' = t
    BY <1>1 DEF FiresInv
  <2>2. /\ Advances(rt, t) /\ t.turn = rt.turn
        /\ InHand(t) \cup RunsOf(t.queue) \subseteq InHand(rt) \cup RunsOf(rt.queue) \cup {rt.next}
        /\ t.pendingRun = rt.pendingRun
    BY <1>1, <2>1, FireDrained
  <2> QED BY <2>1, <2>2
<1>3. CASE phase = "ready"
  <2>1. ours' => rt'.turn
    BY <1>2, <1>3 DEF FiresInv, PhaseSound
  <2>2. lost' = lost
    BY <1>3
  <2> QED BY <1>2, <1>3, <2>1, <2>2, ReadyStep
<1>4. CASE phase = "closing"
  <2>1. ClosingFates /\ lost' = lost \cup Mirrored \cup {rt.next}
    BY <1>4 DEF FiresInv, FatesSound, Mirrored
  <2>2. Left(rt', lost')
    BY <1>2, <2>1 DEF ClosingFates, Left
  <2>3. Queued(rt, lost')
    BY <2>1 DEF ClosingFates, Owed, Queued
  <2>4. Queued(rt', lost')
    BY <1>2, <2>3 DEF Advances
  <2>5. \A n \in Runs : rt'.fate[n] = "issued" => n \in lost'
    <3>1. \A n : Holds(rt', n) => n \in InHand(rt')
      BY DEF Holds, InHand
    <3>2. NormalRuns(rt'.queue) \subseteq RunsOf(rt'.queue)
      BY RunsOfSet DEF NormalRuns
    <3> QED BY <2>2, <2>4, <3>1, <3>2 DEF Queued, Left
  <2>6. ClosingFates'
    BY <2>2, <2>5 DEF ClosingFates, Owed, Left
  <2>7. phase' = "closing" /\ lost \subseteq lost'
    BY <1>4, <2>1
  <2> QED BY <1>2, <1>4, <2>6, <2>7, ClosingStep
<1> QED BY <1>3, <1>4

\* A step that only saves.
LEMMA SaveStep ==
  ASSUME FiresInv, rt' = saveStore(rt), phase \in {"ready", "closing"}, phase' = phase, disk' = disk,
         ours' = ours, lost' = lost, day' = day, sessions' = sessions
  PROVE  FiresInv'
<1>1. Aside(rt, rt')
  BY SaveAside DEF FiresInv, Sound
<1>2. ~Between
  BY DEF Between
<1> QED BY <1>1, <1>2, BesideStep

LEMMA TimerFireStep == ASSUME FiresInv, NEW r \in Routines, NEW near \in BOOLEAN, TimerFire(r, near) PROVE FiresInv'
<1>1. /\ phase = "ready" /\ disk' = disk /\ phase' = phase /\ ours' = ours /\ lost' = lost
      /\ day' = day /\ sessions' = sessions /\ "timer" \in Kinds
  BY DEF TimerFire, Kinds
<1>2. CASE rt' = saveStore(rt)
  BY <1>1, <1>2, SaveStep
<1>3. CASE rt' = drainQueue(newFire(rt, r, "timer", 0, FALSE), agent = "idle")
  <2>1. PICK idle : idle = (agent = "idle")
    OBVIOUS
  <2>2. rt' = Asked(rt, r, "timer", idle)
    BY <1>3, <2>1 DEF Asked
  <2> QED BY <1>1, <2>2, FireStep
<1> QED BY <1>2, <1>3 DEF TimerFire

LEMMA FireRequestStep == ASSUME FiresInv, NEW r \in Routines, FireRequest(r) PROVE FiresInv'
<1>1. /\ phase \in {"ready", "closing"} /\ disk' = disk /\ phase' = phase /\ ours' = ours
      /\ day' = day /\ sessions' = sessions /\ "api" \in Kinds
      /\ lost' = IF phase = "closing" /\ r \notin rt.store.paused
                 THEN lost \cup RunsOf(rt.store.pending) \cup {rt.next} ELSE lost
  BY DEF FireRequest, Kinds
<1>2. CASE r \in rt.store.paused
  <2>1. rt' = saveStore(rt) /\ lost' = lost
    BY <1>1, <1>2 DEF FireRequest
  <2> QED BY <1>1, <2>1, SaveStep
<1>3. CASE r \notin rt.store.paused
  <2>1. PICK idle : idle = (agent = "idle")
    OBVIOUS
  <2>2. /\ rt' = Asked(rt, r, "api", idle)
        /\ lost' = IF phase = "closing" THEN lost \cup RunsOf(rt.store.pending) \cup {rt.next} ELSE lost
    BY <1>1, <1>3, <2>1 DEF FireRequest, Asked
  <2> QED BY <1>1, <1>3, <2>2, FireStep
<1> QED BY <1>2, <1>3

LEMMA RunNowStep == ASSUME FiresInv, NEW r \in ByHand, RunNow(r) PROVE FiresInv'
<1>1. /\ phase = "ready" /\ disk' = disk /\ phase' = phase /\ ours' = ours /\ lost' = lost
      /\ day' = day /\ sessions' = sessions /\ "manual" \in Kinds /\ r \in Routines
  BY FiresAssumption DEF RunNow, Kinds
<1>2. PICK idle : idle = (agent = "idle")
  OBVIOUS
<1>3. rt' = Asked(rt, r, "manual", idle)
  BY <1>2 DEF RunNow, Asked
<1> QED BY <1>1, <1>3, FireStep

LEMMA SetPausedStep == ASSUME FiresInv, NEW r \in ByHand, setPaused(r) PROVE FiresInv'
<1>1. /\ phase = "ready" /\ disk' = disk /\ phase' = phase /\ ours' = ours /\ lost' = lost
      /\ day' = day /\ sessions' = sessions /\ r \in Routines
  BY FiresAssumption DEF setPaused
<1>2. rt \in Runtime
  BY DEF FiresInv, Sound
<1>3. PICK P : P = IF r \in rt.store.paused THEN rt.store.paused \ {r} ELSE rt.store.paused \cup {r}
  OBVIOUS
<1>4. PICK S : S = [rt.store EXCEPT !.paused = P]
  OBVIOUS
<1>5. S \in StoreType /\ S.pending = rt.store.pending
  <2>1. rt.store \in StoreType /\ P \in SUBSET Routines
    BY <1>1, <1>2, <1>3 DEF Runtime, StoreType
  <2> QED BY <1>4, <2>1 DEF StoreType
<1>6. PICK m : m = [rt EXCEPT !.store = S]
  OBVIOUS
<1>7. Aside(rt, m)
  BY <1>2, <1>5, <1>6, StoreAside
<1>8. rt' = saveStore(m)
  <2>1. rt' = saveStore([rt EXCEPT !.store.paused = P])
    BY <1>3 DEF setPaused
  <2>2. [rt EXCEPT !.store.paused = P] = m
    BY <1>4, <1>6
  <2> QED BY <2>1, <2>2
<1>9. Aside(rt, rt')
  <2>1. m \in Runtime
    BY <1>7 DEF Aside
  <2>2. Aside(m, rt')
    BY <1>8, <2>1, SaveAside
  <2> QED BY <1>7, <2>2, AsideTrans
<1>10. ~Between
  BY <1>1 DEF Between
<1> QED BY <1>1, <1>9, <1>10, BesideStep

LEMMA AgentSettledStep == ASSUME FiresInv, NEW taken \in BOOLEAN, AgentSettled(taken) PROVE FiresInv'
<1>1. /\ phase = "ready" /\ disk' = disk /\ phase' = phase /\ ours' = ours /\ lost' = lost
      /\ day' = day /\ sessions' = sessions
      /\ rt' = rt \/ rt' = drainQueue(rt, ~taken)
  BY DEF AgentSettled
<1>2. Sound(rt)
  BY DEF FiresInv
<1>3. Advances(rt, rt') /\ rt'.turn = rt.turn
  <2>1. CASE rt' = rt
    <3>1. Works(rt, rt', {})
      BY <1>2, <2>1, WorksSelf
    <3> QED BY <1>2, <3>1, WorksAdvance
  <2>2. CASE rt' = drainQueue(rt, ~taken)
    <3>1. Drains(rt, rt')
      BY <1>2, <2>2, QueueDrained
    <3> QED BY <1>2, <3>1, DrainsAdvance
  <2> QED BY <1>1, <2>1, <2>2
<1>4. ours' => rt'.turn
  BY <1>1, <1>3 DEF FiresInv, PhaseSound
<1> QED BY <1>1, <1>3, <1>4, ReadyStep

\* A step that leaves the runtime as it is.
LEMMA IdleStep ==
  ASSUME FiresInv, rt' = rt, disk' = disk, phase' = phase, ours' = ours, lost' = lost,
         day' = day, sessions' = sessions
  PROVE  FiresInv'
<1>1. Aside(rt, rt')
  BY DEF Aside, FiresInv, Sound
<1> QED BY <1>1, BesideStep

-----------------------------------------------------------------------------
(* deleteRoutine.                                                          *)

Others(q, r) == Kept(q, {i \in DOMAIN q : q[i].r # r})

LEMMA OthersKept ==
  ASSUME NEW q \in Seq(Entry), NEW r, NEW p, p = Others(q, r)
  PROVE  /\ p \in Seq(Entry) /\ Len(p) <= Len(q) /\ (Distinct(q) => Distinct(p))
         /\ ToSet(p) = {e \in ToSet(q) : e.r # r}
<1>1. PICK D : D = {i \in DOMAIN q : q[i].r # r}
  OBVIOUS
<1>2. D \in SUBSET DOMAIN q /\ p = Kept(q, D)
  BY <1>1 DEF Others
<1>3. /\ p \in Seq(Entry) /\ Len(p) <= Len(q) /\ (Distinct(q) => Distinct(p))
      /\ ToSet(p) = {q[i] : i \in D}
  BY <1>2, KeptEntries
<1>4. {q[i] : i \in D} = {e \in ToSet(q) : e.r # r}
  BY <1>1 DEF ToSet
<1> QED BY <1>3, <1>4

\* The runtime with its queue, its mirror and the fates replaced.
Replaced(m, S, q, w, F) ==
  saveStore([m EXCEPT !.store = S, !.queue = q, !.watchdog = w, !.fate = F])

LEMMA ReplacedFields ==
  ASSUME NEW m \in Runtime, NEW S \in StoreType, NEW q \in Seq(Entry), NEW w \in BOOLEAN,
         NEW F \in [Runs -> Fates], NEW t, t = Replaced(m, S, q, w, F)
  PROVE  /\ t \in Runtime /\ t.queue = q /\ t.store = S /\ t.fate = F
         /\ t.held = m.held /\ t.opens = m.opens /\ t.turn = m.turn /\ t.pendingRun = m.pendingRun
         /\ t.drain = m.drain /\ t.awaiting = m.awaiting /\ t.arrived = m.arrived /\ t.next = m.next /\ t.dirty
<1>1. t \in Runtime
  BY DEF Replaced, saveStore, Runtime
<1> QED BY <1>1 DEF Replaced, saveStore, Runtime

\* The fires of a routine leave the queue and the mirror together, and are gone.
LEMMA FiresWithdrawn ==
  ASSUME NEW s, Sound(s), NEW t \in Runtime, NEW r,
         NEW q, q = Others(s.queue, r), NEW p, p = Others(s.store.pending, r),
         t.queue = q, t.store.pending = p,
         \A n \in Runs : t.fate[n] = s.fate[n] \/ t.fate[n] = "gone",
         \A e \in ToSet(s.queue) : e.r = r => t.fate[e.run] = "gone",
         Quiet(s, t), t.dirty
  PROVE  Works(s, t, {})
<1>1. /\ s.queue \in Seq(Entry) /\ s.store.pending \in Seq(Entry)
      /\ ListSound(s, s.queue) /\ ListSound(s, s.store.pending) /\ TurnSound(s)
      /\ s.next \in Nat /\ t.next \in Nat /\ s.next <= t.next
  BY RunsAreNat DEF Sound, Runtime, StoreType, Quiet
<1>2. /\ q \in Seq(Entry) /\ Len(q) <= Len(s.queue) /\ Distinct(q)
      /\ ToSet(q) = {e \in ToSet(s.queue) : e.r # r}
  BY <1>1, OthersKept DEF ListSound
<1>3. /\ p \in Seq(Entry) /\ Len(p) <= Len(s.store.pending) /\ Distinct(p)
      /\ ToSet(p) = {e \in ToSet(s.store.pending) : e.r # r}
  BY <1>1, OthersKept DEF ListSound
<1>4. ASSUME NEW l \in Seq(Entry), NEW k \in Seq(Entry), ListSound(s, l), Len(k) <= Len(l), Distinct(k), ToSet(k) \subseteq ToSet(l)
      PROVE  ListSound(t, k)
  <2>1. Len(k) <= MaxQueueDepth
    <3>1. Len(l) <= MaxQueueDepth /\ Len(k) \in Nat /\ Len(l) \in Nat
      BY <1>4 DEF ListSound
    <3> QED BY <1>4, <3>1, RunsAreNat
  <2>2. ASSUME NEW e \in ToSet(k) PROVE e.run < t.next /\ t.opens[e.run] = 0 /\ ~Holds(t, e.run)
    <3>1. e.run \in Nat
      BY <1>4, <2>2, EntryFields, RunsAreNat
    <3>2. e.run < s.next /\ s.opens[e.run] = 0 /\ ~Holds(s, e.run)
      BY <1>4, <2>2 DEF ListSound
    <3> QED BY <1>1, <3>1, <3>2 DEF Quiet, Holds
  <2> QED BY <1>4, <2>1, <2>2 DEF ListSound
<1>5. TurnSound(t)
  <2>1. \A n \in Runs : n >= t.next => n >= s.next
    BY <1>1, RunsAreNat
  <2>2. s.held # NoEntry => s.held.run \in Nat
    BY <1>1, EntryFields, RunsAreNat DEF Sound, Runtime
  <2> QED BY <1>1, <2>1, <2>2 DEF Quiet, TurnSound
<1>6. Sound(t)
  <2>1. ListSound(t, q)
    BY <1>1, <1>2, <1>4
  <2>2. ListSound(t, p)
    BY <1>1, <1>3, <1>4
  <2> QED BY <1>5, <2>1, <2>2 DEF Sound
<1>7. Mirror(s) => Mirror(t)
  BY <1>2, <1>3 DEF Mirror
<1>8. ASSUME NEW R, Queued(s, R) PROVE Queued(t, R)
  <2> SUFFICES ASSUME NEW n \in Runs, t.fate[n] = "issued"
               PROVE  n \in NormalRuns(t.queue) \/ Holds(t, n) \/ n \in R
    BY DEF Queued
  <2>1. s.fate[n] = "issued"
    OBVIOUS
  <2>2. n \in NormalRuns(s.queue) \/ Holds(s, n) \/ n \in R
    BY <1>8, <2>1 DEF Queued
  <2>3. ASSUME n \in NormalRuns(s.queue) PROVE n \in NormalRuns(t.queue)
    <3>1. PICK e \in ToSet(s.queue) : e.deferred = 0 /\ e.run = n
      BY <2>3 DEF NormalRuns
    <3>2. e \in ToSet(t.queue)
      BY <1>2, <3>1
    <3> QED BY <3>1, <3>2 DEF NormalRuns
  <2> QED BY <2>2, <2>3 DEF Holds, Quiet
<1>9. \A R : Opened(s, R) => Opened(t, R)
  BY DEF Opened, Quiet
<1>10. Writes(s, t)
  BY DEF Writes
<1> QED BY <1>2, <1>6, <1>7, <1>8, <1>9, <1>10 DEF Works

LEMMA DeleteRoutineStep == ASSUME FiresInv, NEW r \in ByHand, deleteRoutine(r) PROVE FiresInv'
<1>1. /\ phase = "ready" /\ disk' = disk /\ phase' = phase /\ ours' = ours /\ lost' = lost
      /\ day' = day /\ sessions' = sessions /\ r \in Routines
  BY FiresAssumption DEF deleteRoutine
<1>2. Sound(rt) /\ rt \in Runtime
  BY DEF FiresInv, Sound
<1>3. PICK m : m = forgetRoutine(rt, r)
  OBVIOUS
<1>4. Aside(rt, m) /\ m \in Runtime
  <2>1. Aside(rt, m)
    BY <1>1, <1>2, <1>3, ForgetAside
  <2> QED BY <2>1 DEF Aside
<1>5. /\ m.store \in StoreType /\ m.store.deferred \in Seq(Hooks) /\ m.store.pending = rt.store.pending
      /\ m.watchdog \in BOOLEAN /\ rt.queue \in Seq(Entry) /\ rt.store.pending \in Seq(Entry) /\ rt.fate \in [Runs -> Fates]
  BY <1>2, <1>4 DEF Runtime, StoreType, Aside
<1>6. PICK q : q = Others(rt.queue, r)
  OBVIOUS
<1>7. PICK p : p = Others(rt.store.pending, r)
  OBVIOUS
<1>8. PICK h : h = Kept(m.store.deferred, {i \in DOMAIN m.store.deferred : m.store.deferred[i].r # r})
  OBVIOUS
<1>9. PICK S : S = [m.store EXCEPT !.deferred = h, !.pending = p]
  OBVIOUS
<1>10. PICK w : w = (m.watchdog /\ q # <<>>)
  OBVIOUS
<1>11. PICK gone : gone = {e.run : e \in {x \in ToSet(rt.queue) : x.r = r}}
  OBVIOUS
<1>12. PICK F : F = [n \in Runs |-> IF n \in gone THEN "gone" ELSE rt.fate[n]]
  OBVIOUS
<1>13. rt' = Replaced(m, S, q, w, F)
  BY <1>3, <1>5, <1>6, <1>7, <1>8, <1>9, <1>10, <1>11, <1>12 DEF deleteRoutine, Replaced, Others
<1>14. q \in Seq(Entry) /\ p \in Seq(Entry)
  BY <1>5, <1>6, <1>7, OthersKept
<1>15. S \in StoreType /\ S.pending = p
  <2>1. h \in Seq(Hooks)
    BY <1>5, <1>8, KeptHooks
  <2> QED BY <1>5, <1>9, <1>14, <2>1 DEF StoreType
<1>16. F \in [Runs -> Fates] /\ w \in BOOLEAN
  BY <1>5, <1>10, <1>12 DEF Fates
<1>17. /\ rt' \in Runtime /\ rt'.queue = q /\ rt'.store = S /\ rt'.fate = F
       /\ rt'.held = m.held /\ rt'.opens = m.opens /\ rt'.turn = m.turn /\ rt'.pendingRun = m.pendingRun
       /\ rt'.drain = m.drain /\ rt'.awaiting = m.awaiting /\ rt'.arrived = m.arrived /\ rt'.next = m.next /\ rt'.dirty
  BY <1>4, <1>13, <1>14, <1>15, <1>16, ReplacedFields
<1>18. Quiet(rt, rt')
  <2>1. rt.next \in Nat
    BY <1>2, RunsAreNat DEF Runtime
  <2> QED BY <1>4, <1>17, <2>1 DEF Quiet, Aside
<1>19. /\ \A n \in Runs : rt'.fate[n] = rt.fate[n] \/ rt'.fate[n] = "gone"
       /\ \A e \in ToSet(rt.queue) : e.r = r => rt'.fate[e.run] = "gone"
  <2>1. \A e \in ToSet(rt.queue) : e.run \in Runs
    BY <1>5, EntryFields
  <2> QED BY <1>11, <1>12, <1>17, <2>1
<1>20. Works(rt, rt', {})
  BY <1>2, <1>6, <1>7, <1>15, <1>17, <1>18, <1>19, FiresWithdrawn
<1>21. Advances(rt, rt') /\ rt'.turn = rt.turn
  BY <1>2, <1>20, WorksAdvance
<1>22. ours' => rt'.turn
  BY <1>1, <1>21 DEF FiresInv, PhaseSound
<1> QED BY <1>1, <1>21, <1>22, ReadyStep

-----------------------------------------------------------------------------
(* The end of a turn and of the agent's run.                               *)

LEMMA AdvancesTrans ==
  ASSUME NEW s, NEW t, NEW u, Sound(s), Advances(s, t), Advances(t, u) PROVE Advances(s, u)
<1>1. /\ Sound(u) /\ u.arrived \subseteq s.arrived /\ u.awaiting \subseteq s.awaiting \cup {"drain"}
      /\ (Mirror(s) => Mirror(u)) /\ \A R : (Queued(s, R) => Queued(u, R)) /\ (Opened(s, R) => Opened(u, R))
  BY DEF Advances
<1>2. "drain" \in u.arrived => u.held = s.held /\ u.drain = s.drain
  BY DEF Advances
<1>3. s.next <= u.next
  <2>1. s.next \in Nat /\ t.next \in Nat /\ u.next \in Nat
    BY RunsAreNat DEF Advances, Sound, Runtime
  <2> QED BY <2>1 DEF Advances
<1>4. ASSUME NEW n \in Runs, u.opens[n] # s.opens[n] PROVE "drain" \in s.arrived /\ Holds(s, n)
  <2>1. CASE t.opens[n] # s.opens[n]
    BY <2>1 DEF Advances
  <2>2. CASE u.opens[n] # t.opens[n]
    <3>1. "drain" \in t.arrived /\ Holds(t, n)
      BY <2>2 DEF Advances
    <3>2. "drain" \in s.arrived /\ t.held = s.held
      BY <3>1 DEF Advances
    <3> QED BY <3>1, <3>2 DEF Holds
  <2> QED BY <1>4, <2>1, <2>2
<1>5. Writes(s, u)
  BY DEF Advances, Writes
<1> QED BY <1>1, <1>2, <1>3, <1>4, <1>5 DEF Advances

\* The open run is recorded and the guard released.
Ended(s, status) ==
  releaseRoutineTurn(IF s.pendingRun = NoRun THEN s
                     ELSE [recordRun(s, s.pendingRun.run, status) EXCEPT !.pendingRun = NoRun])

LEMMA EndedFields ==
  ASSUME NEW s, Sound(s), NEW status \in Fates, NEW t, t = Ended(s, status)
  PROVE  /\ t \in Runtime /\ t.queue = s.queue /\ t.store = s.store /\ t.next = s.next
         /\ t.held = s.held /\ t.opens = s.opens /\ ~t.turn /\ t.pendingRun = NoRun
         /\ t.drain = s.drain /\ t.awaiting = s.awaiting /\ t.arrived = s.arrived
         /\ s.dirty => t.dirty
         /\ \A n \in Runs : t.fate[n] = IF s.pendingRun # NoRun /\ n = s.pendingRun.run THEN status ELSE s.fate[n]
<1>1. s \in Runtime
  BY DEF Sound
<1>2. CASE s.pendingRun = NoRun
  <2>1. t = [s EXCEPT !.turn = FALSE]
    BY <1>2 DEF Ended, releaseRoutineTurn
  <2>2. t \in Runtime
    BY <1>1, <2>1 DEF Runtime
  <2> QED BY <1>1, <1>2, <2>1, <2>2 DEF Runtime
<1>3. CASE s.pendingRun # NoRun
  <2>1. s.pendingRun \in [run : Runs, r : Routines] /\ s.fate \in [Runs -> Fates]
    BY <1>1, <1>3 DEF Runtime
  <2>2. PICK F : F = [s.fate EXCEPT ![s.pendingRun.run] = status]
    OBVIOUS
  <2>3. F \in [Runs -> Fates]
    BY <2>1, <2>2
  <2>4. t = [s EXCEPT !.fate = F, !.dirty = TRUE, !.pendingRun = NoRun, !.turn = FALSE]
    BY <1>1, <1>3, <2>2 DEF Ended, releaseRoutineTurn, recordRun, saveStore, Runtime
  <2>5. t \in Runtime
    BY <1>1, <2>3, <2>4 DEF Runtime
  <2>6. \A n \in Runs : t.fate[n] = IF n = s.pendingRun.run THEN status ELSE s.fate[n]
    BY <1>1, <2>1, <2>2, <2>4 DEF Runtime
  <2> QED BY <1>1, <1>3, <2>4, <2>5, <2>6 DEF Runtime
<1> QED BY <1>2, <1>3

LEMMA TurnEnded ==
  ASSUME NEW s, Sound(s), NEW status \in Fates \ {"issued", "opened"}, NEW t, t = Ended(s, status)
  PROVE  Advances(s, t) /\ ~t.turn /\ t.queue = s.queue
<1>1. /\ t \in Runtime /\ t.queue = s.queue /\ t.store = s.store /\ t.next = s.next
      /\ t.held = s.held /\ t.opens = s.opens /\ ~t.turn /\ t.pendingRun = NoRun
      /\ t.drain = s.drain /\ t.awaiting = s.awaiting /\ t.arrived = s.arrived
      /\ s.dirty => t.dirty
      /\ \A n \in Runs : t.fate[n] = IF s.pendingRun # NoRun /\ n = s.pendingRun.run THEN status ELSE s.fate[n]
  BY EndedFields
<1>2. Sound(t)
  BY <1>1 DEF Sound, TurnSound, ListSound, Holds
<1>3. Mirror(s) => Mirror(t)
  BY <1>1 DEF Mirror
<1>4. \A R : Queued(s, R) => Queued(t, R)
  BY <1>1 DEF Queued, Holds
<1>5. \A R : Opened(s, R) => Opened(t, R)
  BY <1>1 DEF Opened
<1>6. s.next <= t.next
  <2>1. s.next \in Nat
    BY RunsAreNat DEF Sound, Runtime
  <2> QED BY <1>1, <2>1
<1>7. Writes(s, t)
  BY <1>1 DEF Writes, Sound, Runtime
<1> QED BY <1>1, <1>2, <1>3, <1>4, <1>5, <1>6, <1>7 DEF Advances

LEMMA AgentEnded ==
  ASSUME NEW s, Sound(s), NEW t, t = agentEndRuntime(s)
  PROVE  Advances(s, t) /\ (s.turn => ToSet(t.queue) \subseteq ToSet(s.queue) \cup Deferred)
<1>1. PICK a : a = Ended(s, "recorded")
  OBVIOUS
<1>2. Advances(s, a) /\ a.queue = s.queue /\ Sound(a)
  <2>1. "recorded" \in Fates \ {"issued", "opened"}
    BY DEF Fates
  <2>2. Advances(s, a) /\ a.queue = s.queue
    BY <1>1, <2>1, TurnEnded
  <2> QED BY <2>2 DEF Advances
<1>3. PICK p : p = Promotes(a, a.store.deferred)
  OBVIOUS
<1>4. Works(a, p, Deferred)
  <2>1. a.store.deferred \in Seq(Hooks)
    BY <1>2 DEF Sound, Runtime, StoreType
  <2> QED BY <1>2, <1>3, <2>1, HooksPromoted
<1>5. PICK d : d = drainQueue(p, FALSE)
  OBVIOUS
<1>6. Drains(p, d)
  <2>1. Sound(p)
    BY <1>4 DEF Works
  <2> QED BY <1>5, <2>1, QueueDrained
<1>7. Advances(a, d) /\ ToSet(d.queue) \subseteq ToSet(a.queue) \cup Deferred
  BY <1>2, <1>4, <1>6, WorkDrained
<1>8. Advances(s, d) /\ Sound(d)
  <2>1. Advances(s, d)
    BY <1>2, <1>7, AdvancesTrans
  <2> QED BY <2>1 DEF Advances
<1>9. t = IF s.turn THEN d ELSE QueueHooks(d, HookRoutines(d, "agent_end"))
  <2>1. s.turn \in BOOLEAN /\ (s.turn \/ s.pendingRun = NoRun)
    BY DEF Sound, Runtime, TurnSound
  <2>2. releaseRoutineTurn(IF s.turn /\ s.pendingRun # NoRun
                           THEN [recordRun(s, s.pendingRun.run, "recorded") EXCEPT !.pendingRun = NoRun] ELSE s) = a
    BY <1>1, <2>1 DEF Ended
  <2>3. drainQueue(promoteDeferredHooks(a), FALSE) = d
    BY <1>3, <1>5 DEF promoteDeferredHooks, Promotes
  <2> QED BY <2>2, <2>3 DEF agentEndRuntime, QueueHooks
<1>10. CASE s.turn
  BY <1>2, <1>7, <1>8, <1>9, <1>10
<1>11. CASE ~s.turn
  <2>1. PICK S : S = HookRoutines(d, "agent_end")
    OBVIOUS
  <2>2. S \in SUBSET Routines
    BY <1>8, <2>1 DEF HookRoutines, Sound, Runtime, StoreType
  <2>3. t = QueueHooks(d, S)
    BY <1>9, <1>11, <2>1
  <2>4. Works(d, t, Entry)
    BY <1>8, <2>2, <2>3, HooksQueued
  <2>5. Advances(d, t)
    BY <1>8, <2>4, WorksAdvance
  <2>6. Advances(s, t)
    BY <1>8, <2>5, AdvancesTrans
  <2> QED BY <1>11, <2>6
<1> QED BY <1>10, <1>11

LEMMA AgentEndStep == ASSUME FiresInv, AgentEnd PROVE FiresInv'
<1>1. /\ phase = "ready" /\ disk' = disk /\ phase' = phase /\ ~ours' /\ lost' = lost
      /\ day' = day /\ sessions' = sessions /\ rt' = agentEndRuntime(rt)
  BY DEF AgentEnd
<1>2. Sound(rt)
  BY DEF FiresInv
<1>3. PICK t : t = agentEndRuntime(rt)
  OBVIOUS
<1>4. Advances(rt, t)
  BY <1>2, <1>3, AgentEnded
<1>5. Advances(rt, rt')
  BY <1>1, <1>3, <1>4
<1> QED BY <1>1, <1>5, ReadyStep

\* After a routine's run only deferred hooks enter the queue.
LEMMA RunNeverChains == ASSUME FiresInv PROVE NoChain
<1> SUFFICES ASSUME AgentEnd, ours, NEW n \in RunsOf(rt'.queue) \ RunsOf(rt.queue)
             PROVE  \E i \in DOMAIN rt'.queue : rt'.queue[i].run = n /\ rt'.queue[i].deferred # 0
  BY DEF NoChain
<1>1. Sound(rt) /\ rt.turn
  BY DEF FiresInv, PhaseSound, AgentEnd
<1>2. PICK t : t = agentEndRuntime(rt)
  OBVIOUS
<1>3. ToSet(t.queue) \subseteq ToSet(rt.queue) \cup Deferred
  BY <1>1, <1>2, AgentEnded
<1>4. rt' = t
  BY <1>2 DEF AgentEnd
<1>5. PICK i \in DOMAIN rt'.queue : rt'.queue[i].run = n
  BY DEF RunsOf
<1>6. rt'.queue[i] \in ToSet(rt'.queue)
  BY DEF ToSet
<1>7. rt'.queue[i] \notin ToSet(rt.queue)
  BY <1>5 DEF ToSet, RunsOf
<1>8. rt'.queue[i].deferred # 0
  BY <1>3, <1>4, <1>6, <1>7 DEF Deferred
<1> QED BY <1>5, <1>8

-----------------------------------------------------------------------------
(* Sessions begin and end.                                                 *)

\* What is on disk stays sound while the drain and the turns stay as they are.
LEMMA DiskSame ==
  ASSUME FiresInv, disk' = disk, rt'.next = rt.next, rt'.opens = rt.opens,
         rt'.drain = "persist" /\ "drain" \in rt'.arrived =>
           rt.drain = "persist" /\ "drain" \in rt.arrived /\ rt'.held = rt.held
  PROVE  DiskSound'
BY DEF FiresInv, DiskSound, OnDisk

\* The runtime as session_start leaves it at its await.
LEMMA RuntimeStarted ==
  ASSUME NEW s \in Runtime, NEW H \in SUBSET Routines, ~s.turn, s.queue = <<>>,
         NEW t, t = [s EXCEPT !.hookFires = H, !.turn = FALSE, !.queue = <<>>, !.watchdog = FALSE]
  PROVE  Aside(s, t) /\ t.dirty = s.dirty
<1>1. PICK a : a = [s EXCEPT !.hookFires = H]
  OBVIOUS
<1>2. a \in Runtime
  BY <1>1 DEF Runtime
<1>3. t = [a EXCEPT !.turn = FALSE, !.queue = <<>>, !.watchdog = FALSE]
  BY <1>1
<1>4. t \in Runtime
  BY <1>2, <1>3 DEF Runtime
<1>5. s.turn = FALSE
  BY DEF Runtime
<1> QED BY <1>4, <1>5 DEF Aside, Runtime

LEMMA SessionStartStep ==
  ASSUME FiresInv, NEW gap \in {"short", "day", "week"}, NEW ui \in BOOLEAN, SessionStart(gap, ui) PROVE FiresInv'
<1>1. /\ phase \in {"off", "reloading", "replaced"} /\ phase' = "loading" /\ Between
      /\ disk' = disk /\ ours' = ours /\ lost' = lost
  BY DEF SessionStart, Between
<1>2. day' \in Nat /\ sessions' \in 0..MaxSessions /\ sessions' > 0
  <2>1. day \in Nat /\ sessions \in 0..MaxSessions /\ MaxSessions \in Nat
    BY FiresAssumption DEF FiresInv, PhaseSound
  <2>2. sessions < MaxSessions /\ sessions' = sessions + 1 /\ (day' = day \/ day' = day + 1)
    BY DEF SessionStart
  <2> QED BY <2>1, <2>2
<1>3. /\ Sound(rt) /\ rt \in Runtime /\ AtRest(rt) /\ ~rt.dirty /\ rt.awaiting = {} /\ rt.arrived = {}
      /\ rt.store.pending = <<>> /\ ~ours
  BY <1>1 DEF FiresInv, PhaseSound, Sound
<1>4. Aside(rt, rt') /\ rt'.dirty = rt.dirty
  <2>1. PICK H : H = IF phase = "reloading" THEN rt.hookFires ELSE {}
    OBVIOUS
  <2>2. rt' = [rt EXCEPT !.hookFires = H, !.turn = FALSE, !.queue = <<>>, !.watchdog = FALSE]
    BY <2>1 DEF SessionStart, stopScheduler, releaseRoutineTurn
  <2>3. H \in SUBSET Routines
    BY <1>3, <2>1 DEF Runtime
  <2>4. ~rt.turn /\ rt.queue = <<>>
    BY <1>3 DEF AtRest
  <2> QED BY <1>3, <2>2, <2>3, <2>4, RuntimeStarted
<1>5. Works(rt, rt', {})
  BY <1>3, <1>4, AsideWorks
<1>6. DiskSound'
  <2>1. Advances(rt, rt')
    BY <1>3, <1>5, WorksAdvance
  <2> QED BY <1>1, <2>1, DiskKept
<1>7. PhaseSound'
  BY <1>1, <1>2, <1>3, <1>4 DEF PhaseSound, Between, AtRest, Aside
<1>8. FatesSound'
  <2>1. Opened(rt', lost)
    BY <1>5 DEF FiresInv, FatesSound, Works
  <2>2. \A n \in Runs : rt'.fate[n] = "issued" => n \in OnDisk \cup lost
    BY <1>1, <1>4 DEF FiresInv, FatesSound, Owed, Aside
  <2> QED BY <1>1, <2>1, <2>2 DEF FatesSound, Owed, OnDisk, Between
<1> QED BY <1>5, <1>6, <1>7, <1>8 DEF FiresInv, Works

\* The instance that follows s.
Successor(s, H, F) == FreshRuntime(H, F, s.opens, s.next)

Idle(t) == AtRest(t) /\ ~t.dirty /\ t.awaiting = {} /\ t.arrived = {} /\ t.store.pending = <<>>

LEMMA FreshSound ==
  ASSUME NEW s, Sound(s), NEW H \in SUBSET Routines, NEW F \in [Runs -> Fates], NEW t, t = Successor(s, H, F)
  PROVE  /\ Sound(t) /\ Idle(t)
         /\ t.fate = F /\ t.next = s.next /\ t.opens = s.opens
<1>1. s.opens \in [Runs -> Nat] /\ s.next \in 1..(MaxRuns + 1)
  BY DEF Sound, Runtime
<1>2. PICK S : S = [firstStore EXCEPT !.live = {}]
  OBVIOUS
<1>3. S \in StoreType /\ S.pending = <<>>
  <2>1. emptyTick \in Times
    BY DEF emptyTick, Times
  <2>2. firstStore \in StoreType /\ firstStore.pending = <<>>
    BY <2>1 DEF firstStore, StoreType
  <2> QED BY <1>2, <2>2 DEF StoreType
<1>4. t = [queue |-> <<>>, watchdog |-> FALSE, turn |-> FALSE, pendingRun |-> NoRun,
           hookFires |-> H, store |-> S, drain |-> "no", held |-> NoEntry, dirty |-> FALSE,
           awaiting |-> {}, arrived |-> {}, fate |-> F, opens |-> s.opens, next |-> s.next]
  BY <1>2 DEF FreshRuntime, Successor
<1>5. t \in Runtime
  BY <1>1, <1>3, <1>4 DEF Runtime
<1>6. TurnSound(t)
  <2>1. \A n \in Runs : s.opens[n] <= 1 /\ (n >= s.next => s.opens[n] = 0)
    BY DEF Sound, TurnSound
  <2> QED BY <1>4, <2>1 DEF TurnSound
<1>7. ListSound(t, <<>>)
  BY RunsAreNat DEF ListSound, Distinct, ToSet
<1> QED BY <1>3, <1>4, <1>5, <1>6, <1>7 DEF Sound, AtRest, Idle

\* A new instance of the extension.
LEMMA FreshStep ==
  ASSUME FiresInv, NEW H \in SUBSET Routines, NEW F \in [Runs -> Fates], rt' = Successor(rt, H, F),
         phase' \in {"off", "reloading", "replaced"}, phase' = "off" \/ sessions > 0,
         disk' = disk, ~ours', day' = day, sessions' = sessions,
         \A n \in Runs \ lost' : F[n] # "opened" /\ (F[n] = "issued" => n \in OnDisk)
  PROVE  FiresInv'
<1>1. Sound(rt') /\ Idle(rt') /\ rt'.fate = F /\ rt'.next = rt.next /\ rt'.opens = rt.opens
  <2>1. Sound(rt)
    BY DEF FiresInv
  <2> QED BY <2>1, FreshSound
<1>2. DiskSound'
  BY <1>1, DiskSame DEF Idle, AtRest
<1>3. PhaseSound'
  BY <1>1 DEF FiresInv, PhaseSound, Between, Idle, AtRest
<1>4. FatesSound'
  <2>1. Opened(rt', lost')
    BY <1>1 DEF Opened
  <2>2. \A n \in Runs : rt'.fate[n] = "issued" => n \in OnDisk \cup lost'
    BY <1>1
  <2> QED BY <2>1, <2>2 DEF FatesSound, Owed, OnDisk, Between
<1> QED BY <1>1, <1>2, <1>3, <1>4 DEF FiresInv

LEMMA SessionClosedStep ==
  ASSUME FiresInv, NEW reason \in {"quit", "reload", "new"}, SessionClosed(reason) PROVE FiresInv'
<1>1. PICK H : H = IF reason = "quit" THEN {} ELSE rt.hookFires
  OBVIOUS
<1>2. /\ phase = "closing" /\ reason \in rt.arrived \ {"drain"} /\ rt' = Successor(rt, H, rt.fate)
      /\ phase' \in {"off", "reloading", "replaced"} /\ ~ours' /\ disk' = disk /\ lost' = lost
      /\ day' = day /\ sessions' = sessions
  BY <1>1 DEF SessionClosed, Successor
<1>3. H \in SUBSET Routines /\ rt.fate \in [Runs -> Fates]
  BY <1>1 DEF FiresInv, Sound, Runtime
<1>4. sessions > 0
  BY <1>2 DEF FiresInv, PhaseSound
<1>5. \A n \in Runs \ lost' : rt.fate[n] # "opened" /\ (rt.fate[n] = "issued" => n \in OnDisk)
  <2>1. Opened(rt, lost) /\ ClosingFates /\ rt.arrived \ {"drain"} # {}
    BY <1>2 DEF FiresInv, FatesSound
  <2>2. Owed(OnDisk \cup lost)
    BY <2>1 DEF ClosingFates, Owed
  <2>3. \A n \in Runs \ lost : rt.fate[n] # "opened"
    BY <2>1 DEF ClosingFates, Left, Opened
  <2> QED BY <1>2, <2>2, <2>3 DEF Owed
<1> QED BY <1>2, <1>3, <1>4, <1>5, FreshStep

LEMMA CrashStep == ASSUME FiresInv, Crash PROVE FiresInv'
<1>1. PICK F : F = [n \in Runs |-> IF rt.fate[n] = "opened" THEN "died" ELSE rt.fate[n]]
  OBVIOUS
<1>2. /\ rt' = Successor(rt, {}, F) /\ phase' = "off" /\ ~ours' /\ disk' = disk
      /\ lost' = lost \cup InHand(rt) \cup (IF rt.dirty THEN Mirrored \ OnDisk ELSE {})
      /\ day' = day /\ sessions' = sessions
  BY <1>1 DEF Crash, Successor, Mirrored, OnDisk
<1>3. F \in [Runs -> Fates]
  BY <1>1 DEF FiresInv, Sound, Runtime, Fates
<1>4. Owed(OnDisk \cup lost')
  <2>1. CASE Between
    BY <1>2, <2>1 DEF FiresInv, FatesSound, Owed
  <2>2. CASE ~Between
    <3>1. Mirrored \subseteq OnDisk \cup lost'
      BY <1>2, <2>2 DEF FiresInv, FatesSound
    <3>2. CASE phase = "ready"
      <4>1. Mirror(rt) /\ Queued(rt, lost)
        BY <3>2 DEF FiresInv, FatesSound, PhaseSound
      <4>2. NormalRuns(rt.queue) \subseteq Mirrored
        BY <4>1, RunsOfSet DEF Mirror, NormalRuns, Mirrored
      <4>3. \A n \in Runs : Holds(rt, n) => n \in lost'
        BY <1>2 DEF Holds, InHand
      <4> QED BY <1>2, <3>1, <4>1, <4>2, <4>3 DEF Queued, Owed
    <3>3. CASE phase # "ready"
      <4>1. Owed(Mirrored \cup lost)
        BY <2>2, <3>3 DEF FiresInv, FatesSound, PhaseSound, Between, ClosingFates, Owed
      <4> QED BY <1>2, <3>1, <4>1 DEF Owed
    <3> QED BY <3>2, <3>3
  <2> QED BY <2>1, <2>2
<1>5. \A n \in Runs \ lost' : F[n] # "opened" /\ (F[n] = "issued" => n \in OnDisk)
  BY <1>1, <1>4 DEF Owed
<1>6. {} \in SUBSET Routines /\ phase' \in {"off", "reloading", "replaced"}
  BY <1>2
<1> QED BY <1>2, <1>3, <1>5, <1>6, FreshStep

LEMMA SchedulerStopped ==
  ASSUME NEW s, Sound(s), NEW t, t = stopScheduler(s)
  PROVE  /\ Sound(t) /\ t.queue = <<>> /\ t.store = s.store /\ t.fate = s.fate /\ t.next = s.next
         /\ t.held = s.held /\ t.opens = s.opens /\ t.pendingRun = s.pendingRun
         /\ t.drain = s.drain /\ t.awaiting = s.awaiting /\ t.arrived = s.arrived
<1>1. s \in Runtime
  BY DEF Sound
<1>2. t = [s EXCEPT !.queue = <<>>, !.watchdog = FALSE]
  BY DEF stopScheduler
<1>3. t \in Runtime
  <2>0. <<>> \in Seq(Entry)
    OBVIOUS
  <2>1. PICK q \in Seq(Entry) : q = <<>>
    BY <2>0
  <2>2. PICK a : a = [s EXCEPT !.queue = q]
    OBVIOUS
  <2>3. a \in Runtime
    BY <1>1, <2>2 DEF Runtime
  <2>4. t = [a EXCEPT !.watchdog = FALSE]
    BY <1>2, <2>1, <2>2
  <2> QED BY <2>3, <2>4 DEF Runtime
<1>4. /\ t.queue = <<>> /\ t.store = s.store /\ t.fate = s.fate /\ t.next = s.next /\ t.turn = s.turn
      /\ t.held = s.held /\ t.opens = s.opens /\ t.pendingRun = s.pendingRun
      /\ t.drain = s.drain /\ t.awaiting = s.awaiting /\ t.arrived = s.arrived
  BY <1>1, <1>2 DEF Runtime
<1>5. TurnSound(t)
  BY <1>4 DEF Sound, TurnSound
<1>6. ListSound(t, t.store.pending)
  BY <1>4 DEF Sound, ListSound, Holds
<1>7. ListSound(t, <<>>)
  BY RunsAreNat DEF ListSound, Distinct, ToSet
<1> QED BY <1>3, <1>4, <1>5, <1>6, <1>7 DEF Sound

\* The turn of a session that closes is recorded as interrupted, its queue forgotten; the
\* mirror stays.
Stopped(s, t) ==
  /\ Sound(t) /\ t.queue = <<>> /\ t.store.pending = s.store.pending /\ t.next = s.next
  /\ t.held = s.held /\ t.opens = s.opens /\ ~t.turn /\ t.pendingRun = NoRun
  /\ t.drain = s.drain /\ t.arrived = s.arrived
  /\ \A n \in Runs : t.fate[n] # "opened" => t.fate[n] \in {s.fate[n], "interrupted"}
  /\ \A R : Opened(s, R) => \A n \in Runs \ R : t.fate[n] # "opened"

LEMMA SessionStopped ==
  ASSUME NEW s, Sound(s), NEW t, t = Ended(stopScheduler(s), "interrupted")
  PROVE  Stopped(s, t) /\ t.awaiting = s.awaiting
<1>1. PICK a : a = stopScheduler(s)
  OBVIOUS
<1>2. /\ Sound(a) /\ a.queue = <<>> /\ a.store = s.store /\ a.fate = s.fate /\ a.next = s.next
      /\ a.held = s.held /\ a.opens = s.opens /\ a.pendingRun = s.pendingRun
      /\ a.drain = s.drain /\ a.awaiting = s.awaiting /\ a.arrived = s.arrived
  BY <1>1, SchedulerStopped
<1>3. PICK status : status = "interrupted"
  OBVIOUS
<1>4. status \in Fates \ {"issued", "opened"} /\ t = Ended(a, status)
  BY <1>1, <1>3 DEF Fates
<1>5. Advances(a, t) /\ ~t.turn /\ t.queue = a.queue
  BY <1>2, <1>4, TurnEnded
<1>6. /\ t.store = a.store /\ t.next = a.next
      /\ t.held = a.held /\ t.opens = a.opens /\ t.pendingRun = NoRun
      /\ t.drain = a.drain /\ t.awaiting = a.awaiting /\ t.arrived = a.arrived
      /\ \A n \in Runs : t.fate[n] = IF a.pendingRun # NoRun /\ n = a.pendingRun.run THEN status ELSE a.fate[n]
  BY <1>2, <1>4, EndedFields
<1>7. \A R : Opened(s, R) => \A n \in Runs \ R : t.fate[n] # "opened"
  BY <1>2, <1>3, <1>6 DEF Opened
<1>8. \A n \in Runs : t.fate[n] # "opened" => t.fate[n] \in {s.fate[n], "interrupted"}
  BY <1>2, <1>3, <1>6
<1> QED BY <1>2, <1>5, <1>6, <1>7, <1>8 DEF Stopped, Advances

LEMMA SessionShutdownStep ==
  ASSUME FiresInv, NEW reason \in {"quit", "reload", "new"}, SessionShutdown(reason) PROVE FiresInv'
<1>1. /\ phase \in {"ready", "headless"} /\ phase' = "closing" /\ disk' = disk /\ day' = day /\ sessions' = sessions
      /\ lost' = lost \cup InHand(rt)
  BY DEF SessionShutdown
<1>2. Sound(rt) /\ day \in Nat /\ sessions \in 1..MaxSessions
  <2>1. sessions \in 0..MaxSessions /\ sessions > 0 /\ MaxSessions \in Nat
    BY <1>1, FiresAssumption DEF FiresInv, PhaseSound
  <2> QED BY <2>1 DEF FiresInv, PhaseSound
<1>3. PICK e : e = Ended(stopScheduler(rt), "interrupted")
  OBVIOUS
<1>4. Stopped(rt, e) /\ e.awaiting = rt.awaiting
  BY <1>2, <1>3, SessionStopped
<1>5. PICK S : S = HookRoutines(e, "session_shutdown")
  OBVIOUS
<1>6. PICK c : c = IF reason = "quit" /\ phase = "ready" THEN Captures(e, S) ELSE e
  OBVIOUS
<1>7. rt' = awaitSave(c, reason)
  BY <1>3, <1>5, <1>6 DEF SessionShutdown, Ended, Captures, captureDeferredShutdownHooks
<1>8. Aside(e, c) /\ c \in Runtime
  <2>1. Sound(e) /\ e \in Runtime
    BY <1>4 DEF Stopped, Sound
  <2>2. S \in SUBSET Routines
    BY <1>5, <2>1 DEF HookRoutines, Runtime, StoreType
  <2>3. PICK x : x = Captures(e, S)
    OBVIOUS
  <2>4. Aside(e, x)
    BY <1>2, <2>1, <2>2, <2>3, HooksCaptured
  <2>5. Aside(e, e)
    BY <2>1 DEF Aside
  <2>6. Aside(e, c)
    BY <1>6, <2>3, <2>4, <2>5
  <2> QED BY <2>6 DEF Aside
<1>9. reason \in Waiters /\ reason # "drain"
  BY DEF Waiters
<1>10. /\ rt' \in Runtime /\ rt'.queue = c.queue /\ rt'.store = c.store /\ rt'.fate = c.fate /\ rt'.next = c.next
       /\ rt'.held = c.held /\ rt'.opens = c.opens /\ rt'.turn = c.turn /\ rt'.pendingRun = c.pendingRun
       /\ rt'.drain = c.drain /\ rt'.awaiting = c.awaiting \cup {reason} /\ rt'.arrived = c.arrived /\ rt'.dirty
  BY <1>7, <1>8, <1>9, SaveAwaited
<1>11. /\ rt'.queue = e.queue /\ rt'.store.pending = e.store.pending /\ rt'.fate = e.fate /\ rt'.next = e.next
       /\ rt'.held = e.held /\ rt'.opens = e.opens /\ rt'.turn = e.turn /\ rt'.pendingRun = e.pendingRun
       /\ rt'.drain = e.drain /\ rt'.awaiting = e.awaiting \cup {reason} /\ rt'.arrived = e.arrived
  BY <1>8, <1>10 DEF Aside
<1>12. Sound(rt')
  <2>1. TurnSound(e) /\ ListSound(e, e.queue) /\ ListSound(e, e.store.pending)
    BY <1>4 DEF Stopped, Sound
  <2>2. TurnSound(rt')
    BY <1>9, <1>11, <2>1 DEF TurnSound
  <2>3. ListSound(rt', rt'.queue)
    BY <1>11, <2>1 DEF ListSound, Holds
  <2>4. ListSound(rt', rt'.store.pending)
    BY <1>11, <2>1 DEF ListSound, Holds
  <2> QED BY <1>10, <2>2, <2>3, <2>4 DEF Sound
<1>13. DiskSound'
  BY <1>1, <1>4, <1>11, DiskSame DEF Stopped
<1>14. PhaseSound'
  BY <1>1, <1>2 DEF FiresInv, PhaseSound, Between
<1>15. FatesSound'
  <2>1. Opened(rt', lost')
    <3>1. \A n \in Runs \ lost : e.fate[n] # "opened"
      BY <1>4 DEF FiresInv, FatesSound, Stopped
    <3> QED BY <1>1, <1>11, <3>1 DEF Opened
  <2>2. Owed(Mirrored \cup lost')
    <3>1. CASE phase = "headless"
      BY <1>1, <3>1 DEF FiresInv, FatesSound, Owed
    <3>2. CASE phase = "ready"
      <4>1. Mirror(rt) /\ Queued(rt, lost)
        BY <3>2 DEF FiresInv, FatesSound, PhaseSound
      <4>2. \A n \in Runs : Holds(rt, n) => n \in lost'
        BY <1>1 DEF Holds, InHand
      <4>3. NormalRuns(rt.queue) \subseteq Mirrored
        BY <4>1, RunsOfSet DEF Mirror, NormalRuns, Mirrored
      <4> QED BY <1>1, <4>1, <4>2, <4>3 DEF Queued, Owed
    <3> QED BY <1>1, <3>1, <3>2
  <2>3. Mirrored' = Mirrored /\ \A n \in Runs : rt'.fate[n] = "issued" => rt.fate[n] = "issued"
    BY <1>4, <1>11 DEF Stopped, Mirrored
  <2>4. rt'.queue = <<>> /\ InHand(rt') = InHand(rt) /\ rt'.pendingRun = NoRun /\ rt'.arrived = rt.arrived
    BY <1>4, <1>11 DEF Stopped, InHand
  <2>5. rt'.arrived \ {"drain"} = {}
    BY <1>1, <2>4 DEF FiresInv, PhaseSound
  <2>6. Left(rt', lost')
    <3>1. RunsOf(rt'.queue) = {}
      BY <2>4 DEF RunsOf
    <3> QED BY <1>1, <2>4, <3>1 DEF Left
  <2>7. ClosingFates'
    BY <2>2, <2>3, <2>4, <2>5, <2>6 DEF ClosingFates, Owed, Left
  <2> QED BY <1>1, <1>10, <2>1, <2>7 DEF FatesSound, Between
<1> QED BY <1>12, <1>13, <1>14, <1>15 DEF FiresInv

-----------------------------------------------------------------------------
(* session_start past its await.                                           *)

LEMMA StoreSanitized ==
  ASSUME NEW st \in StoreType, Len(st.pending) <= MaxQueueDepth, Distinct(st.pending), NEW t, t = sanitizeStore(st)
  PROVE  /\ t \in StoreType /\ Len(t.pending) <= MaxQueueDepth /\ Distinct(t.pending)
         /\ ToSet(t.pending) = {e \in ToSet(st.pending) : e.r \in st.live}
<1>1. st.pending \in Seq(Entry) /\ st.deferred \in Seq(Hooks)
  BY DEF StoreType
<1>2. PICK D : D = {i \in DOMAIN st.pending : st.pending[i].r \in st.live}
  OBVIOUS
<1>3. PICK p : p = Kept(st.pending, D)
  OBVIOUS
<1>4. PICK h : h = Kept(st.deferred, {i \in DOMAIN st.deferred : st.deferred[i].r \in st.live})
  OBVIOUS
<1>5. /\ p \in Seq(Entry) /\ Len(p) <= Len(st.pending) /\ Distinct(p)
      /\ ToSet(p) = {st.pending[i] : i \in D}
  <2>1. D \in SUBSET DOMAIN st.pending
    BY <1>2
  <2> QED BY <1>1, <1>3, <2>1, KeptEntries
<1>6. Len(p) <= MaxQueueDepth
  <2>1. Len(p) \in Nat /\ Len(st.pending) \in Nat
    BY <1>1, <1>5
  <2> QED BY <1>5, <2>1, RunsAreNat
<1>7. h \in Seq(Hooks)
  BY <1>1, <1>4, KeptHooks
<1>8. t = [st EXCEPT !.pending = p, !.deferred = h]
  BY <1>2, <1>3, <1>4, <1>6 DEF sanitizeStore, StoreType
<1>9. t \in StoreType /\ t.pending = p
  BY <1>5, <1>7, <1>8 DEF StoreType
<1>10. ToSet(p) = {e \in ToSet(st.pending) : e.r \in st.live}
  BY <1>2, <1>5 DEF ToSet
<1> QED BY <1>5, <1>6, <1>9, <1>10

\* The store read from disk: its fires have opened no turn, and the ones of a routine that is
\* gone are gone with it.
LEMMA StoreLoaded ==
  ASSUME FiresInv, phase = "loading", NEW l, l = loadStore(rt)
  PROVE  /\ Sound(l) /\ AtRest(l) /\ l.awaiting = {} /\ l.arrived = {}
         /\ l.next = rt.next /\ l.opens = rt.opens
         /\ Opened(l, lost) /\ Queued(l, RunsOf(l.store.pending) \cup lost)
         /\ ~l.dirty /\ RunsOf(l.store.pending) \subseteq OnDisk
<1>1. /\ Sound(rt) /\ rt \in Runtime /\ AtRest(rt) /\ rt.awaiting = {} /\ rt.arrived = {} /\ TurnSound(rt)
      /\ rt.held = NoEntry /\ rt.pendingRun = NoRun /\ Between /\ ~rt.dirty
  <2>1. Sound(rt) /\ Between /\ ~rt.dirty /\ AtRest(rt) /\ rt.awaiting = {} /\ rt.arrived = {}
    BY DEF FiresInv, PhaseSound, Between
  <2> QED BY <2>1 DEF Sound, TurnSound, AtRest
<1>2. /\ disk \in StoreType /\ Distinct(disk.pending) /\ Len(disk.pending) <= MaxQueueDepth
      /\ \A e \in ToSet(disk.pending) : e.run < rt.next /\ rt.opens[e.run] = 0
  BY DEF FiresInv, DiskSound
<1>3. PICK d : d = sanitizeStore(disk)
  OBVIOUS
<1>4. /\ d \in StoreType /\ Len(d.pending) <= MaxQueueDepth /\ Distinct(d.pending)
      /\ ToSet(d.pending) = {e \in ToSet(disk.pending) : e.r \in disk.live}
  BY <1>2, <1>3, StoreSanitized
<1>5. PICK S : S = IF start.gap = "week" THEN [d EXCEPT !.deferred = <<>>] ELSE d
  OBVIOUS
<1>6. S \in StoreType /\ S.pending = d.pending
  <2>1. <<>> \in Seq(Hooks)
    OBVIOUS
  <2>2. CASE S = [d EXCEPT !.deferred = <<>>]
    BY <1>4, <2>1, <2>2 DEF StoreType
  <2>3. CASE S = d
    BY <1>4, <2>3
  <2> QED BY <1>5, <2>2, <2>3
<1>7. PICK orphans : orphans = {e.run : e \in {x \in ToSet(disk.pending) : x.r \notin disk.live}}
  OBVIOUS
<1>8. PICK F : F = [n \in Runs |-> IF n \in orphans THEN "gone" ELSE rt.fate[n]]
  OBVIOUS
<1>9. F \in [Runs -> Fates]
  BY <1>1, <1>8 DEF Runtime, Fates
<1>10. l = [rt EXCEPT !.store = S, !.pendingRun = NoRun, !.fate = F]
  BY <1>3, <1>5, <1>7, <1>8 DEF loadStore
<1>11. l \in Runtime
  BY <1>1, <1>6, <1>9, <1>10 DEF Runtime
<1>12. /\ l.store = S /\ l.pendingRun = NoRun /\ l.fate = F /\ l.queue = rt.queue /\ l.turn = rt.turn
       /\ l.drain = rt.drain /\ l.held = rt.held /\ l.awaiting = rt.awaiting /\ l.arrived = rt.arrived
       /\ l.opens = rt.opens /\ l.next = rt.next /\ l.dirty = rt.dirty
  BY <1>1, <1>10 DEF Runtime
<1>13. Sound(l)
  <2>1. TurnSound(l)
    BY <1>1, <1>12 DEF TurnSound
  <2>2. ListSound(l, l.queue)
    BY <1>1, <1>12 DEF Sound, ListSound, Holds
  <2>3. ListSound(l, l.store.pending)
    BY <1>1, <1>2, <1>4, <1>6, <1>12 DEF ListSound, Holds
  <2> QED BY <1>11, <2>1, <2>2, <2>3 DEF Sound
<1>14. AtRest(l)
  BY <1>1, <1>12 DEF AtRest
<1>15. Opened(l, lost) /\ Queued(l, RunsOf(l.store.pending) \cup lost)
  <2>1. Opened(rt, lost) /\ Owed(OnDisk \cup lost)
    BY <1>1 DEF FiresInv, FatesSound
  <2>2. Opened(l, lost)
    BY <1>1, <1>8, <1>12, <2>1 DEF Opened, AtRest
  <2>3. ASSUME NEW n \in Runs, l.fate[n] = "issued", n \notin lost PROVE n \in RunsOf(l.store.pending)
    <3>1. n \notin orphans /\ n \in OnDisk
      BY <1>8, <1>12, <2>1, <2>3 DEF Owed
    <3>2. PICK e \in ToSet(disk.pending) : e.run = n
      BY <3>1, RunsOfSet DEF OnDisk
    <3>3. e \in ToSet(d.pending)
      BY <1>4, <1>7, <3>1, <3>2
    <3> QED BY <1>6, <1>12, <3>2, <3>3, RunsOfSet
  <2> QED BY <2>2, <2>3 DEF Queued
<1>16. RunsOf(l.store.pending) \subseteq OnDisk
  BY <1>4, <1>6, <1>12, RunsOfSet DEF OnDisk
<1> QED BY <1>1, <1>12, <1>13, <1>14, <1>15, <1>16

\* The runtime with its queue read back from the mirror.
LEMMA QueueReadBack ==
  ASSUME NEW l, Sound(l), AtRest(l), NEW t, t = rehydrateQueuedFires(l)
  PROVE  /\ Works(l, t, Entry) /\ Mirror(t)
         /\ \A L : Queued(l, RunsOf(l.store.pending) \cup L) => Queued(t, L)
<1>1. /\ l \in Runtime /\ l.store \in StoreType /\ l.store.pending \in Seq(Entry) /\ l.queue = <<>> /\ l.held = NoEntry
      /\ Distinct(l.store.pending)
      /\ \A e \in ToSet(l.store.pending) : e.run < l.next /\ l.opens[e.run] = 0
  BY DEF Sound, AtRest, TurnSound, ListSound, Runtime, StoreType
<1>2. PICK q \in Seq(Entry) : q = l.store.pending
  BY <1>1
<1>3. CASE q = <<>>
  <2>1. t = l
    BY <1>2, <1>3 DEF rehydrateQueuedFires
  <2>2. Works(l, t, Entry)
    BY <2>1, WorksSelf
  <2>3. RunsOf(l.store.pending) = {}
    BY <1>2, <1>3 DEF RunsOf
  <2>4. Mirror(l)
    BY <1>1, <1>2, <1>3 DEF Mirror, ToSet
  <2>5. \A L : RunsOf(l.store.pending) \cup L = L
    BY <2>3
  <2> QED BY <2>1, <2>2, <2>4, <2>5
<1>4. CASE q # <<>>
  <2>1. PICK S : S = [l.store EXCEPT !.pending = <<>>]
    OBVIOUS
  <2>2. PICK b : b = saveStore([l EXCEPT !.store = S])
    OBVIOUS
  <2>3. S \in StoreType /\ S.pending = <<>>
    <3>1. <<>> \in Seq(Entry)
      OBVIOUS
    <3> QED BY <1>1, <2>1, <3>1 DEF StoreType
  <2>4. b \in Runtime
    BY <1>1, <2>2, <2>3 DEF saveStore, Runtime
  <2>5. /\ b.store = S /\ b.queue = l.queue /\ b.fate = l.fate /\ b.held = l.held /\ b.turn = l.turn /\ b.drain = l.drain
        /\ b.awaiting = l.awaiting /\ b.arrived = l.arrived /\ b.opens = l.opens /\ b.next = l.next
        /\ b.pendingRun = l.pendingRun /\ b.dirty
    BY <1>1, <2>2 DEF saveStore, Runtime
  <2>6. Sound(b)
    <3>1. TurnSound(b)
      BY <2>5 DEF Sound, TurnSound
    <3>2. ListSound(b, <<>>)
      BY RunsAreNat DEF ListSound, Distinct, ToSet
    <3> QED BY <1>1, <2>3, <2>4, <2>5, <3>1, <3>2 DEF Sound
  <2>7. Mirror(b)
    BY <1>1, <2>3, <2>5 DEF Mirror, ToSet
  <2>8. \A R : Queued(l, R) => Queued(b, R)
    BY <2>5 DEF Queued, Holds
  <2>9. Works(l, b, Entry)
    <3>1. l.next \in Nat
      BY <1>1, RunsAreNat DEF Runtime
    <3>2. Quiet(l, b)
      BY <2>5, <3>1 DEF Quiet
    <3>3. \A R : Opened(l, R) => Opened(b, R)
      BY <2>5 DEF Opened
    <3>4. Writes(l, b)
      BY <2>5 DEF Writes
    <3> QED BY <2>5, <2>6, <2>7, <2>8, <3>2, <3>3, <3>4 DEF Works
  <2>10. t = Rehydrated(b, q)
    <3>1. [l EXCEPT !.store.pending = <<>>] = [l EXCEPT !.store = S]
      BY <2>1
    <3> QED BY <1>2, <1>4, <2>2, <3>1 DEF rehydrateQueuedFires, Rehydrated
  <2>11. Works(b, t, Entry) /\ \A L : Queued(b, RunsOf(q) \cup L) => Queued(t, L)
    <3>1. /\ Distinct(q) /\ b.held = NoEntry /\ b.queue = <<>>
          /\ \A e \in ToSet(q) : e.run < b.next /\ b.opens[e.run] = 0
      BY <1>1, <1>2, <2>5
    <3> QED BY <2>6, <2>10, <3>1, FiresRehydrated
  <2>12. Works(l, t, Entry)
    BY <2>9, <2>11, WorksTrans
  <2>13. Mirror(t)
    BY <2>7, <2>11 DEF Works
  <2> QED BY <1>2, <2>8, <2>11, <2>12, <2>13
<1> QED BY <1>3, <1>4

LEMMA RuntimeReady ==
  ASSUME NEW l, Sound(l), AtRest(l), NEW late, NEW t, t = readyRuntime(l, late)
  PROVE  /\ Works(l, t, Entry) /\ Mirror(t)
         /\ \A L : Queued(l, RunsOf(l.store.pending) \cup L) => Queued(t, L)
<1>1. PICK h : h = rehydrateQueuedFires(l)
  OBVIOUS
<1>2. /\ Works(l, h, Entry) /\ Mirror(h) /\ Sound(h)
      /\ \A L : Queued(l, RunsOf(l.store.pending) \cup L) => Queued(h, L)
  <2>1. /\ Works(l, h, Entry) /\ Mirror(h)
        /\ \A L : Queued(l, RunsOf(l.store.pending) \cup L) => Queued(h, L)
    BY <1>1, QueueReadBack
  <2> QED BY <2>1 DEF Works
<1>3. PICK M : M = late \cap h.store.live
  OBVIOUS
<1>4. PICK c : c = CatchUps(h, M)
  OBVIOUS
<1>5. Works(h, c, Entry) /\ Sound(c)
  <2>1. M \in SUBSET Routines
    BY <1>2, <1>3 DEF Sound, Runtime, StoreType
  <2>2. Works(h, c, Entry)
    BY <1>2, <1>4, <2>1, MissedCaughtUp
  <2> QED BY <2>2 DEF Works
<1>6. PICK d : d = IF start.reload THEN c ELSE Promotes(c, c.store.deferred)
  OBVIOUS
<1>7. Works(c, d, Entry) /\ Sound(d)
  <2>1. CASE d = c
    BY <1>5, <2>1, WorksSelf
  <2>2. CASE d = Promotes(c, c.store.deferred)
    <3>1. c.store.deferred \in Seq(Hooks)
      BY <1>5 DEF Sound, Runtime, StoreType
    <3>2. Works(c, d, Deferred)
      BY <1>5, <2>2, <3>1, HooksPromoted
    <3> QED BY <3>2 DEF Works, Deferred
  <2> QED BY <1>6, <2>1, <2>2
<1>8. PICK S : S = {r \in HookRoutines(d, "session_start") : ~(start.reload /\ HookOnce[r] = "per_session")}
  OBVIOUS
<1>9. Works(d, t, Entry)
  <2>1. S \in SUBSET Routines
    BY <1>7, <1>8 DEF HookRoutines, Sound, Runtime, StoreType
  <2>2. t = QueueHooks(d, S)
    <3>1. catchUpMissedTicks(h, late) = c
      BY <1>3, <1>4 DEF catchUpMissedTicks, CatchUps, CatchUp
    <3>2. promoteDeferredHooks(c) = Promotes(c, c.store.deferred)
      BY DEF promoteDeferredHooks, Promotes
    <3> QED BY <1>1, <1>6, <1>8, <3>1, <3>2 DEF readyRuntime, QueueHooks
  <2> QED BY <1>7, <2>1, <2>2, HooksQueued
<1>10. Works(h, d, Entry)
  BY <1>2, <1>5, <1>7, WorksTrans
<1>11. Works(h, t, Entry)
  BY <1>2, <1>9, <1>10, WorksTrans
<1>12. Works(l, t, Entry)
  BY <1>2, <1>11, WorksTrans
<1> QED BY <1>2, <1>11, <1>12 DEF Works

LEMMA SessionReadyStep == ASSUME FiresInv, NEW late \in SUBSET HasTimer, SessionReady(late) PROVE FiresInv'
<1>1. /\ phase = "loading" /\ disk' = disk /\ ours' = ours /\ lost' = lost /\ day' = day /\ sessions' = sessions
  BY DEF SessionReady
<1>2. PICK l : l = loadStore(rt)
  OBVIOUS
<1>3. /\ Sound(l) /\ AtRest(l) /\ l.awaiting = {} /\ l.arrived = {}
      /\ l.next = rt.next /\ l.opens = rt.opens
      /\ Opened(l, lost) /\ Queued(l, RunsOf(l.store.pending) \cup lost)
      /\ ~l.dirty /\ RunsOf(l.store.pending) \subseteq OnDisk
  BY <1>1, <1>2, StoreLoaded
<1>4. l.held = NoEntry
  BY <1>3 DEF Sound, TurnSound, AtRest
<1>5. ~ours /\ day \in Nat /\ sessions \in 0..MaxSessions /\ (phase = "off" \/ sessions > 0)
  BY <1>1 DEF FiresInv, PhaseSound, Between
<1>6. CASE ~start.ui
  <2>1. rt' = l /\ phase' = "headless"
    BY <1>2, <1>6 DEF SessionReady
  <2>2. DiskSound'
    BY <1>1, <1>3, <2>1, DiskSame
  <2>3. PhaseSound'
    BY <1>1, <1>3, <1>5, <2>1 DEF PhaseSound, Between
  <2>4. FatesSound'
    <3>1. l.queue = <<>>
      BY <1>3 DEF AtRest
    <3>2. NormalRuns(l.queue) = {}
      BY <3>1 DEF NormalRuns, ToSet
    <3>3. Mirrored' = RunsOf(l.store.pending) /\ OnDisk' = OnDisk
      BY <1>1, <2>1 DEF Mirrored, OnDisk
    <3>4. \A n \in Runs : rt'.fate[n] = "issued" => n \in Mirrored' \cup lost'
      BY <1>1, <1>3, <1>4, <2>1, <3>2, <3>3 DEF Queued, Holds
    <3> QED BY <1>1, <1>3, <2>1, <3>3, <3>4 DEF FatesSound, Between, Owed
  <2> QED BY <1>3, <2>1, <2>2, <2>3, <2>4 DEF FiresInv
<1>7. CASE start.ui
  <2>1. PICK m : m = readyRuntime(l, late)
    OBVIOUS
  <2>2. PICK idle : idle = (agent = "idle")
    OBVIOUS
  <2>3. rt' = drainQueue(m, idle) /\ phase' = "ready"
    BY <1>2, <1>7, <2>1, <2>2 DEF SessionReady
  <2>4. /\ Works(l, m, Entry) /\ Mirror(m)
        /\ \A L : Queued(l, RunsOf(l.store.pending) \cup L) => Queued(m, L)
    BY <1>3, <2>1, RuntimeReady
  <2>5. PICK t : t = drainQueue(m, idle)
    OBVIOUS
  <2>6. Drains(m, t)
    <3>1. Sound(m)
      BY <2>4 DEF Works
    <3> QED BY <2>5, <3>1, QueueDrained
  <2>7. Drains(m, rt')
    BY <2>3, <2>5, <2>6
  <2>8. /\ m.arrived = {} /\ m.awaiting = {} /\ m.opens = rt.opens /\ rt.next <= m.next
    BY <1>3, <2>4 DEF Works, Quiet
  <2>9. /\ Sound(rt') /\ Mirror(rt') /\ rt'.arrived = {} /\ rt'.awaiting \subseteq {"drain"}
        /\ rt'.opens = rt.opens /\ rt'.next = m.next
    BY <2>4, <2>7, <2>8 DEF Drains
  <2>10. DiskSound'
    <3>1. rt.next \in Nat /\ rt'.next \in Nat /\ rt.next <= rt'.next
      BY <2>8, <2>9, RunsAreNat DEF FiresInv, Sound, Runtime
    <3>2. disk.pending \in Seq(Entry)
      BY DEF FiresInv, DiskSound, StoreType
    <3>3. ASSUME NEW e \in ToSet(disk.pending) PROVE e.run < rt'.next /\ rt'.opens[e.run] = 0
      <4>1. e.run \in Nat
        BY <3>2, EntryFields, RunsAreNat
      <4>2. e.run < rt.next /\ rt.opens[e.run] = 0
        BY DEF FiresInv, DiskSound
      <4> QED BY <2>9, <3>1, <4>1, <4>2
    <3> QED BY <1>1, <2>9, <3>3 DEF FiresInv, DiskSound, OnDisk
  <2>11. PhaseSound'
    BY <1>1, <1>5, <2>3, <2>9 DEF PhaseSound, Between
  <2>12. FatesSound'
    <3>1. Opened(rt', lost) /\ Queued(rt', lost)
      BY <1>3, <2>4, <2>7 DEF Works, Drains
    <3>2. rt'.dirty \/ (~m.dirty /\ rt'.store.pending = m.store.pending)
      BY <2>7 DEF Drains, Writes
    <3>3. m.dirty \/ m.store.pending = l.store.pending
      BY <2>4 DEF Works, Writes
    <3>4. rt'.dirty \/ Mirrored' \subseteq OnDisk'
      BY <1>1, <1>3, <3>2, <3>3 DEF Mirrored, OnDisk
    <3> QED BY <1>1, <2>3, <3>1, <3>4 DEF FatesSound, Between
  <2> QED BY <2>9, <2>10, <2>11, <2>12 DEF FiresInv
<1> QED BY <1>6, <1>7

-----------------------------------------------------------------------------
(* The theorems.                                                           *)

LEMMA FiresInit == ASSUME Init PROVE FiresInv
<1>1. PICK F : F = [n \in Runs |-> "none"]
  OBVIOUS
<1>2. PICK O : O = [n \in Runs |-> 0]
  OBVIOUS
<1>3. PICK S : S = [firstStore EXCEPT !.live = {}]
  OBVIOUS
<1>4. firstStore \in StoreType /\ firstStore.pending = <<>> /\ S \in StoreType /\ S.pending = <<>>
  <2>1. emptyTick \in Times
    BY DEF emptyTick, Times
  <2>2. firstStore \in StoreType /\ firstStore.pending = <<>>
    BY <2>1 DEF firstStore, StoreType
  <2> QED BY <1>3, <2>2 DEF StoreType
<1>5. /\ rt = [queue |-> <<>>, watchdog |-> FALSE, turn |-> FALSE, pendingRun |-> NoRun,
               hookFires |-> {}, store |-> S, drain |-> "no", held |-> NoEntry, dirty |-> FALSE,
               awaiting |-> {}, arrived |-> {}, fate |-> F, opens |-> O, next |-> 1]
      /\ disk = firstStore /\ phase = "off" /\ ours = FALSE /\ day = 1 /\ sessions = 0
  BY <1>1, <1>2, <1>3 DEF Init, FreshRuntime
<1>6. rt \in Runtime
  <2>1. F \in [Runs -> Fates] /\ O \in [Runs -> Nat] /\ 1 \in 1..(MaxRuns + 1)
    BY <1>1, <1>2, RunsAreNat DEF Fates
  <2> QED BY <1>4, <1>5, <2>1 DEF Runtime
<1>7. Sound(rt)
  <2>1. TurnSound(rt)
    BY <1>2, <1>5 DEF TurnSound
  <2>2. ListSound(rt, <<>>)
    BY RunsAreNat DEF ListSound, Distinct, ToSet
  <2> QED BY <1>4, <1>5, <1>6, <2>1, <2>2 DEF Sound
<1>8. DiskSound
  BY <1>4, <1>5, RunsAreNat DEF DiskSound, Distinct, ToSet
<1>9. PhaseSound
  <2>1. 0 \in 0..MaxSessions
    BY FiresAssumption
  <2> QED BY <1>4, <1>5, <2>1 DEF PhaseSound, Between, AtRest
<1>10. FatesSound
  BY <1>1, <1>5 DEF FatesSound, Opened, Owed, Between, Runs
<1> QED BY <1>7, <1>8, <1>9, <1>10 DEF FiresInv

LEMMA FiresStep == ASSUME FiresInv, [Next]_vars PROVE FiresInv'
<1>1. CASE SaveEnd
  BY <1>1, SaveEndStep
<1>2. CASE WatchdogTick
  BY <1>2, WatchdogStep
<1>3. CASE \E refused \in BOOLEAN : DrainResume(refused)
  BY <1>3, DrainResumeStep
<1>4. CASE \E r \in Routines, near \in BOOLEAN : TimerFire(r, near)
  BY <1>4, TimerFireStep
<1>5. CASE \E r \in Routines : FireRequest(r)
  BY <1>5, FireRequestStep
<1>6. CASE \E r \in ByHand : RunNow(r)
  BY <1>6, RunNowStep
<1>7. CASE \E r \in ByHand : setPaused(r)
  BY <1>7, SetPausedStep
<1>8. CASE \E r \in ByHand : deleteRoutine(r)
  BY <1>8, DeleteRoutineStep
<1>9. CASE AgentEnd
  BY <1>9, AgentEndStep
<1>10. CASE UserPrompt \/ UNCHANGED vars
  BY <1>10, IdleStep DEF UserPrompt, vars
<1>11. CASE Crash
  BY <1>11, CrashStep
<1>12. CASE \E taken \in BOOLEAN : AgentSettled(taken)
  BY <1>12, AgentSettledStep
<1>13. CASE \E gap \in {"short", "day", "week"}, ui \in BOOLEAN : SessionStart(gap, ui)
  BY <1>13, SessionStartStep
<1>14. CASE \E late \in SUBSET HasTimer : SessionReady(late)
  BY <1>14, SessionReadyStep
<1>15. CASE \E reason \in {"quit", "reload", "new"} : SessionShutdown(reason)
  BY <1>15, SessionShutdownStep
<1>16. CASE \E reason \in {"quit", "reload", "new"} : SessionClosed(reason)
  BY <1>16, SessionClosedStep
<1> QED BY <1>1, <1>2, <1>3, <1>4, <1>5, <1>6, <1>7, <1>8, <1>9, <1>10, <1>11, <1>12, <1>13, <1>14, <1>15, <1>16 DEF Next

LEMMA FiresHold == Spec => []FiresInv
<1>1. Init => FiresInv
  BY FiresInit
<1>2. FiresInv /\ [Next]_vars => FiresInv'
  BY FiresStep
<1> QED BY <1>1, <1>2, PTL DEF Spec

LEMMA FiresAccount == ASSUME FiresInv PROVE FireAccounted
<1> SUFFICES ASSUME NEW n \in Runs \ lost
             PROVE  /\ rt.fate[n] = "issued" =>
                         \/ n \in RunsOf(rt.queue) \cup RunsOf(rt.store.pending) \cup InHand(rt)
                         \/ phase \in {"off", "reloading", "replaced", "loading"} /\ n \in RunsOf(disk.pending)
                    /\ rt.fate[n] = "opened" => rt.pendingRun # NoRun /\ rt.pendingRun.run = n
  BY DEF FireAccounted
<1>1. FatesSound
  BY DEF FiresInv
<1>2. rt.fate[n] = "opened" => rt.pendingRun # NoRun /\ rt.pendingRun.run = n
  BY <1>1 DEF FatesSound, Opened
<1>3. ASSUME rt.fate[n] = "issued"
      PROVE  \/ n \in RunsOf(rt.queue) \cup RunsOf(rt.store.pending) \cup InHand(rt)
             \/ phase \in {"off", "reloading", "replaced", "loading"} /\ n \in RunsOf(disk.pending)
  <2>1. CASE Between
    BY <1>1, <1>3, <2>1 DEF FatesSound, Owed, OnDisk, Between
  <2>2. CASE phase = "headless" \/ phase = "closing"
    BY <1>1, <1>3, <2>2 DEF FatesSound, ClosingFates, Owed, Mirrored
  <2>3. CASE phase = "ready"
    <3>1. n \in NormalRuns(rt.queue) \/ Holds(rt, n)
      BY <1>1, <1>3, <2>3 DEF FatesSound, Queued
    <3>2. NormalRuns(rt.queue) \subseteq RunsOf(rt.queue)
      BY RunsOfSet DEF NormalRuns
    <3> QED BY <3>1, <3>2 DEF Holds, InHand
  <2> QED BY <2>1, <2>2, <2>3 DEF FiresInv, PhaseSound, Between
<1> QED BY <1>2, <1>3

\* No fire vanishes but where the code lets it (scheduler.ts, hooks.ts, store.ts): through
\* reloads, restarts and crashes one that was accepted is queued, in the drain's hand, in the
\* mirror or on disk, and one whose turn is open is the pending run, for every number of
\* routines, fires and sessions. Excepted are the fires in lost, and only a crash (the fire in
\* the drain's hand, the unwritten ones), a shutdown (the one in hand) and a request answered
\* while the session closes (the mirror's, and its own) put one there.
THEOREM FiresAreAccounted == Spec => []FireAccounted
<1>1. FiresInv => FireAccounted
  BY FiresAccount
<1> QED BY <1>1, FiresHold, PTL

\* drainQueue persists the removal of an entry before it opens the entry's turn: no crash and
\* no reload makes one fire open two turns, and the run of a routine never queues the agent_end
\* hook of another.
THEOREM FiresAreExact == Spec => FiresExact
<1>1. FiresInv => FiredOnce
  BY DEF FiresInv, Sound, TurnSound, FiredOnce
<1>2. FiresInv /\ [Next]_vars => FiresInv'
  BY FiresStep
<1>3. FiresInv /\ FiresInv' => NoChain /\ FiredOnce'
  <2>1. FiresInv => NoChain
    BY RunNeverChains
  <2>2. FiresInv' => FiredOnce'
    BY <1>1, PTL
  <2> QED BY <2>1, <2>2
<1>4. FiresInv /\ FiresInv' => [NoChain /\ FiredOnce']_vars
  BY <1>3
<1> QED BY <1>4, FiresHold, PTL DEF FiresExact
=============================================================================
