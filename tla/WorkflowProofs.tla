---------------------------- MODULE WorkflowProofs ----------------------------
(***************************************************************************)
(* Proofs about workflow runs, for any payloads, permits, calls and runs:  *)
(* what a run replays, what it may report as completed, that nothing       *)
(* starts while it is paused, and that the view shows every agent once.    *)
(***************************************************************************)
EXTENDS WorkflowRun, WorkflowView, FoldLemmas, SequenceTheorems

-----------------------------------------------------------------------------
(* What the run's state looks like.                                        *)

Answers == {Unanswered, NullAnswer, FatalAnswer, ErrorAnswer, BodyAnswer}
             \cup [tag : {"text"}, by : Nat, index : Int, key : Payloads]

\* A successful entry holds the text of an agent that was called that way
\* at that position.
Genuine(a, i, p) == a.tag = "text" /\ a.index = i /\ a.key = p

Entries ==
  { e \in [index : Int, key : Payloads, ok : BOOLEAN, text : Answers, resumed : BOOLEAN] :
      e.ok => Genuine(e.text, e.index, e.key) }

Pcs == {"none", "loading", "pastGate", "acquired", "held", "acquiring",
        "starting", "child", "gating", "over"}
Rows == {"none", "queued", "running", "done", "failed", "skipped", "cached"}

Calls ==
  [ pc : Pcs, index : Int, child : Int, intent : {"none", "skip", "retry"},
    stop : BOOLEAN, row : Rows, answer : Answers ]

Runs ==
  [ posted : Seq(Payloads), handled : Int, ending : {"no", "complete", "error"},
    paused : BOOLEAN, aborted : BOOLEAN, settled : BOOLEAN,
    status : {"none", "completed", "failed", "killed"},
    active : Int, waiters : Seq(CallIds), held : Seq(CallIds), ready : Seq(CallIds),
    count : Int, open : SUBSET CallIds, done : [Labels -> Int],
    entries : Seq(Entries), intact : BOOLEAN,
    journal : Seq(Entries), call : [CallIds -> Calls] ]

-----------------------------------------------------------------------------
(* The queues.                                                             *)

Listed(s) == {s[k] : k \in 1..Len(s)}
Distinct(s) == \A i, j \in 1..Len(s) : s[i] = s[j] => i = j

\* A call waits in the queue its pc names, once.
Queued(w) ==
  /\ \A c \in Listed(w.ready) : w.call[c].pc \in {"pastGate", "acquired"}
  /\ \A c \in Listed(w.held) : w.call[c].pc = "held"
  /\ \A c \in Listed(w.waiters) : w.call[c].pc = "acquiring"
  /\ Distinct(w.ready) /\ Distinct(w.held) /\ Distinct(w.waiters)

\* Call c waits nowhere.
Loose(w, c) == c \notin Listed(w.ready) /\ c \notin Listed(w.held) /\ c \notin Listed(w.waiters)

-----------------------------------------------------------------------------
(* The calls.                                                              *)

\* A call is taken in the order of the messages.
Taken(w) ==
  /\ w.handled \in 0..Len(w.posted) /\ Len(w.posted) <= MaxCalls
  /\ \A c \in CallIds : c > w.handled => w.call[c].pc = "none"
  /\ \A c \in CallIds : w.call[c].pc = "none" => w.call[c].row = "none" /\ w.call[c].index = NoAgent

\* Only a call that is over has an answer, and a text exactly if its row says so.
Rowed(w) ==
  \A c \in CallIds :
    /\ w.call[c].pc # "over" => w.call[c].answer = Unanswered
    /\ w.call[c].answer.tag = "text" <=> w.call[c].row \in {"done", "cached"}

\* In run n a text is the call's own, and one of another run was replayed.
Texted(w, n) ==
  \A c \in CallIds : w.call[c].answer.tag = "text" =>
    /\ Genuine(w.call[c].answer, w.call[c].index, w.posted[c])
    /\ w.call[c].answer.by # n => w.call[c].row = "cached"

\* The replayed positions are a prefix, and all there is while it is intact.
Prefixed(w) ==
  /\ w.count \in Nat
  /\ \A c \in CallIds : w.call[c].index = NoAgent \/ w.call[c].index \in 0..(w.count - 1)
  /\ \A c, d \in CallIds :
       w.call[c].row = "cached" /\ w.call[d].index \in 0..w.call[c].index => w.call[d].row = "cached"
  /\ w.intact => \A c \in CallIds : w.call[c].index # NoAgent => w.call[c].row = "cached"

\* An agent() call that was taken is open or answered until the run settles.
Accounted(w) ==
  /\ ~w.settled =>
       /\ w.status = "none"
       /\ \A c \in 1..w.handled : w.posted[c].kind # "load" => c \in w.open \/ w.call[c].answer # Unanswered
  /\ w.status = "completed" =>
       \A c \in 1..Len(w.posted) : w.posted[c].kind # "load" => w.call[c].answer # Unanswered

Sound(w, n) == Taken(w) /\ Rowed(w) /\ Texted(w, n) /\ Prefixed(w) /\ Accounted(w)

-----------------------------------------------------------------------------
(* Sequences without repetition.                                           *)

\* What Append adds to a list.
LEMMA AppendListed ==
  ASSUME NEW S, NEW s \in Seq(S), NEW c \in S
  PROVE  /\ Append(s, c) \in Seq(S)
         /\ Listed(Append(s, c)) = Listed(s) \cup {c}
         /\ Distinct(s) /\ c \notin Listed(s) => Distinct(Append(s, c))
<1>1. /\ Append(s, c) \in Seq(S) /\ Len(Append(s, c)) = Len(s) + 1 /\ Len(s) \in Nat
      /\ \A k \in 1..Len(s) : Append(s, c)[k] = s[k]
      /\ Append(s, c)[Len(s) + 1] = c
  BY AppendProperties, LenProperties
<1>2. Listed(Append(s, c)) = Listed(s) \cup {c}
  <2>1. 1..(Len(s) + 1) = 1..Len(s) \cup {Len(s) + 1}
    BY <1>1
  <2> QED BY <1>1, <2>1 DEF Listed
<1>3. ASSUME Distinct(s), c \notin Listed(s) PROVE Distinct(Append(s, c))
  BY <1>1, <1>3 DEF Listed, Distinct
<1> QED BY <1>1, <1>2, <1>3

\* What Tail leaves of a list.
LEMMA TailListed ==
  ASSUME NEW S, NEW s \in Seq(S), s # <<>>, Distinct(s)
  PROVE  /\ Head(s) \in S /\ Tail(s) \in Seq(S)
         /\ Head(s) \in Listed(s)
         /\ Listed(Tail(s)) = Listed(s) \ {Head(s)}
         /\ Distinct(Tail(s))
<1>1. /\ Head(s) \in S /\ Tail(s) \in Seq(S) /\ Len(Tail(s)) = Len(s) - 1 /\ Len(s) \in Nat /\ Len(s) >= 1
      /\ \A k \in 1..(Len(s) - 1) : Tail(s)[k] = s[k + 1]
      /\ Head(s) = s[1]
  BY HeadTailProperties, LenProperties, EmptySeq
<1>2. Head(s) \in Listed(s)
  BY <1>1 DEF Listed
<1>3. Distinct(Tail(s))
  BY <1>1 DEF Distinct
<1>4. ASSUME NEW d \in Listed(Tail(s)) PROVE d \in Listed(s) \ {Head(s)}
  <2>1. PICK k \in 1..(Len(s) - 1) : d = s[k + 1]
    BY <1>1 DEF Listed
  <2> QED BY <1>1, <2>1 DEF Listed, Distinct
<1>5. ASSUME NEW d \in Listed(s), d # Head(s) PROVE d \in Listed(Tail(s))
  <2>1. PICK k \in 1..Len(s) : d = s[k]
    BY DEF Listed
  <2>2. k - 1 \in 1..(Len(s) - 1) /\ (k - 1) + 1 = k
    BY <1>1, <1>5, <2>1
  <2> QED BY <1>1, <2>1, <2>2 DEF Listed
<1> QED BY <1>1, <1>2, <1>3, <1>4, <1>5

\* Two lists in a row.
LEMMA ConcatListed ==
  ASSUME NEW S, NEW s \in Seq(S), NEW t \in Seq(S)
  PROVE  /\ s \o t \in Seq(S)
         /\ Listed(s \o t) = Listed(s) \cup Listed(t)
         /\ Distinct(s) /\ Distinct(t) /\ Listed(s) \cap Listed(t) = {} => Distinct(s \o t)
<1>1. /\ s \o t \in Seq(S) /\ Len(s \o t) = Len(s) + Len(t) /\ Len(s) \in Nat /\ Len(t) \in Nat
      /\ \A k \in 1..(Len(s) + Len(t)) : (s \o t)[k] = IF k <= Len(s) THEN s[k] ELSE t[k - Len(s)]
  BY ConcatProperties, LenProperties
<1>2. ASSUME NEW d \in Listed(s) PROVE d \in Listed(s \o t)
  BY <1>1 DEF Listed
<1>3. ASSUME NEW d \in Listed(t) PROVE d \in Listed(s \o t)
  <2>1. PICK k \in 1..Len(t) : d = t[k]
    BY DEF Listed
  <2>2. k + Len(s) \in 1..(Len(s) + Len(t)) /\ ~(k + Len(s) <= Len(s)) /\ (k + Len(s)) - Len(s) = k
    BY <1>1
  <2> QED BY <1>1, <2>1, <2>2 DEF Listed
<1>4. ASSUME NEW d \in Listed(s \o t) PROVE d \in Listed(s) \cup Listed(t)
  BY <1>1 DEF Listed
<1>5. ASSUME Distinct(s), Distinct(t), Listed(s) \cap Listed(t) = {}
      PROVE  Distinct(s \o t)
  <2> SUFFICES ASSUME NEW i \in 1..(Len(s) + Len(t)), NEW j \in 1..(Len(s) + Len(t)), (s \o t)[i] = (s \o t)[j]
               PROVE  i = j
    BY <1>1 DEF Distinct
  <2>1. CASE i <= Len(s) /\ j <= Len(s)
    BY <1>1, <1>5, <2>1 DEF Distinct
  <2>2. CASE ~(i <= Len(s)) /\ ~(j <= Len(s))
    <3>1. i - Len(s) \in 1..Len(t) /\ j - Len(s) \in 1..Len(t) /\ t[i - Len(s)] = t[j - Len(s)]
      BY <1>1, <2>2
    <3> QED BY <1>1, <1>5, <3>1 DEF Distinct
  <2>3. ASSUME NEW k \in 1..Len(s), NEW m \in 1..Len(t) PROVE s[k] # t[m]
    BY <1>5 DEF Listed
  <2>4. CASE i <= Len(s) /\ ~(j <= Len(s))
    <3>1. j - Len(s) \in 1..Len(t) /\ i \in 1..Len(s) /\ s[i] = t[j - Len(s)]
      BY <1>1, <2>4
    <3> QED BY <2>3, <3>1
  <2>5. CASE ~(i <= Len(s)) /\ j <= Len(s)
    <3>1. i - Len(s) \in 1..Len(t) /\ j \in 1..Len(s) /\ s[j] = t[i - Len(s)]
      BY <1>1, <2>5
    <3> QED BY <2>3, <3>1
  <2> QED BY <2>1, <2>2, <2>4, <2>5
<1> QED BY <1>1, <1>2, <1>3, <1>4, <1>5

\* A list without the element at one position.
LEMMA RemovedListed ==
  ASSUME NEW S, NEW s \in Seq(S), Distinct(s), NEW k \in 1..Len(s)
  PROVE  /\ RemoveAt(s, k) \in Seq(S)
         /\ Listed(RemoveAt(s, k)) \subseteq Listed(s) \ {s[k]}
         /\ Distinct(RemoveAt(s, k))
<1> DEFINE t == RemoveAt(s, k)
<1>1. Len(s) \in Nat
  BY LenProperties
<1>2. /\ SubSeq(s, 1, k - 1) \in Seq(S) /\ Len(SubSeq(s, 1, k - 1)) = k - 1
      /\ \A i \in 1..(k - 1) : SubSeq(s, 1, k - 1)[i] = s[i]
  <2>1. \A i \in 1..(k - 1) : s[i] \in S
    BY <1>1, ElementOfSeq
  <2> QED BY <1>1, <2>1, SubSeqProperties
<1>3. /\ SubSeq(s, k + 1, Len(s)) \in Seq(S) /\ Len(SubSeq(s, k + 1, Len(s))) = Len(s) - k
      /\ \A i \in 1..(Len(s) - k) : SubSeq(s, k + 1, Len(s))[i] = s[k + i]
  <2>1. \A i \in (k + 1)..Len(s) : s[i] \in S
    BY <1>1, ElementOfSeq
  <2>2. /\ SubSeq(s, k + 1, Len(s)) \in Seq(S)
        /\ Len(SubSeq(s, k + 1, Len(s))) = IF k + 1 <= Len(s) THEN Len(s) - (k + 1) + 1 ELSE 0
        /\ \A i \in 1..(Len(s) - (k + 1) + 1) : SubSeq(s, k + 1, Len(s))[i] = s[(k + 1) + i - 1]
    BY <1>1, <2>1, SubSeqProperties
  <2> QED BY <1>1, <2>2
<1>4. /\ t \in Seq(S) /\ Len(t) = Len(s) - 1
      /\ \A i \in 1..(Len(s) - 1) : t[i] = IF i <= k - 1 THEN s[i] ELSE s[i + 1]
  <2> DEFINE a == SubSeq(s, 1, k - 1)
             b == SubSeq(s, k + 1, Len(s))
  <2>1. t = a \o b
    BY DEF RemoveAt
  <2>2. a \in Seq(S) /\ b \in Seq(S) /\ Len(a) = k - 1 /\ Len(b) = Len(s) - k
    BY <1>2, <1>3
  <2>3. /\ a \o b \in Seq(S) /\ Len(a \o b) = Len(a) + Len(b)
        /\ \A i \in 1..(Len(a) + Len(b)) : (a \o b)[i] = IF i <= Len(a) THEN a[i] ELSE b[i - Len(a)]
    BY <2>2, ConcatProperties
  <2>4. (k - 1) + (Len(s) - k) = Len(s) - 1
    BY <1>1
  <2> HIDE DEF a, b
  <2>5. ASSUME NEW i \in 1..(Len(s) - 1), i <= k - 1 PROVE (a \o b)[i] = s[i]
    <3>1. i \in 1..(k - 1) /\ i \in 1..(Len(a) + Len(b)) /\ i <= Len(a)
      BY <1>1, <2>2, <2>5
    <3> QED BY <1>2, <2>3, <3>1 DEF a
  <2>6. ASSUME NEW i \in 1..(Len(s) - 1), ~(i <= k - 1) PROVE (a \o b)[i] = s[i + 1]
    <3>1. /\ i - Len(a) \in 1..(Len(s) - k) /\ k + (i - Len(a)) = i + 1
          /\ i \in 1..(Len(a) + Len(b)) /\ ~(i <= Len(a))
      BY <1>1, <2>2, <2>6
    <3> QED BY <1>3, <2>3, <3>1 DEF b
  <2> QED BY <2>1, <2>2, <2>3, <2>4, <2>5, <2>6
<1> HIDE DEF t
<1>5. Distinct(t)
  BY <1>1, <1>4 DEF Distinct
<1>6. Listed(t) \subseteq Listed(s) \ {s[k]}
  BY <1>1, <1>4 DEF Distinct, Listed
<1> QED BY <1>4, <1>5, <1>6 DEF t

-----------------------------------------------------------------------------
(* The semaphore and the gate: they only move calls that are underway.     *)

Underway(w, c) == w.call[c].pc \notin {"none", "over"}

\* v has the books of w: everything but queues, permits and calls.
SameBooks(w, v) ==
  /\ v.posted = w.posted /\ v.handled = w.handled /\ v.count = w.count /\ v.intact = w.intact
  /\ v.open = w.open /\ v.settled = w.settled /\ v.status = w.status

SameGate(w, v) == v.aborted = w.aborted /\ v.paused = w.paused

\* Call c was moved on, if it was underway.
Moves(w, v, c) ==
  /\ v.call[c].index = w.call[c].index /\ v.call[c].answer = w.call[c].answer
  /\ Underway(w, c) => Underway(v, c) /\ v.call[c].row \in {w.call[c].row, "queued", "running"}
  /\ ~Underway(w, c) => v.call[c].pc = w.call[c].pc /\ v.call[c].row = w.call[c].row

\* v is w with calls that are underway moved on.
Goes(w, v) == SameBooks(w, v) /\ \A c \in CallIds : Moves(w, v, c)

\* No child starts between w and v.
Still(w, v) == \A c \in CallIds : Started(v, c) => Started(w, c)

\* What waits nowhere still does, and is as it was.
Spares(w, v, c) ==
  \A d \in CallIds : Loose(w, d) /\ d # c => Loose(v, d) /\ v.call[d] = w.call[d]

\* v is w with call c parked at pc.
Parked(w, v, c, pc) ==
  /\ v \in Runs /\ Queued(v) /\ SameBooks(w, v) /\ SameGate(w, v) /\ Spares(w, v, c)
  /\ v.call = [w.call EXCEPT ![c].pc = pc]

\* A call at another pc is a call.
LEMMA RecalledType ==
  ASSUME NEW call \in [CallIds -> Calls], NEW c \in CallIds, NEW pc \in Pcs
  PROVE  [call EXCEPT ![c].pc = pc] \in [CallIds -> Calls]
<1>1. [call[c] EXCEPT !.pc = pc] \in Calls
  <2>1. call[c] \in Calls
    OBVIOUS
  <2> QED BY <2>1 DEF Calls
<1> QED BY <1>1

\* A call of its own goes into the queue of continuations.
LEMMA ContinueParks ==
  ASSUME NEW w \in Runs, Queued(w), NEW c \in CallIds, Loose(w, c), NEW pc \in {"pastGate", "acquired"}
  PROVE  Parked(w, continueAt(w, c, pc), c, pc)
<1> DEFINE v == continueAt(w, c, pc)
<1>1. /\ Append(w.ready, c) \in Seq(CallIds)
      /\ Listed(Append(w.ready, c)) = Listed(w.ready) \cup {c}
      /\ Distinct(Append(w.ready, c))
  BY AppendListed DEF Runs, Queued, Loose
<1>2. [w.call EXCEPT ![c].pc = pc] \in [CallIds -> Calls]
  BY RecalledType DEF Runs, Pcs
<1>3. v \in Runs
  BY <1>1, <1>2 DEF continueAt, Runs
<1>4. /\ v.ready = Append(w.ready, c) /\ v.held = w.held /\ v.waiters = w.waiters
      /\ v.call = [w.call EXCEPT ![c].pc = pc] /\ SameBooks(w, v) /\ SameGate(w, v)
  BY DEF continueAt, Runs, SameBooks, SameGate
<1> HIDE DEF v
<1>5. \A d \in CallIds : d # c => v.call[d] = w.call[d]
  BY <1>4 DEF Runs
<1>6. v.call[c].pc = pc
  BY <1>4 DEF Runs, Calls
<1>7. Listed(w.ready) \subseteq CallIds /\ Listed(w.held) \subseteq CallIds /\ Listed(w.waiters) \subseteq CallIds
  BY ElementOfSeq DEF Runs, Listed
<1>8. Queued(v)
  BY <1>1, <1>4, <1>5, <1>6, <1>7 DEF Queued, Loose
<1>9. Spares(w, v, c)
  BY <1>1, <1>4, <1>5 DEF Spares, Loose
<1> QED BY <1>3, <1>4, <1>8, <1>9 DEF Parked, v

\* A call of its own asks for a permit.
LEMMA AcquireParks ==
  ASSUME NEW w \in Runs, Queued(w), NEW c \in CallIds, Loose(w, c)
  PROVE  \E pc \in {"acquired", "acquiring"} : Parked(w, acquire(w, c), c, pc)
<1>1. CASE w.active < Concurrency
  <2> DEFINE u == [w EXCEPT !.active = @ + 1]
  <2>1. u \in Runs
    <3>1. w.active + 1 \in Int
      BY DEF Runs
    <3> QED BY <3>1 DEF Runs
  <2>2. u.call = w.call /\ SameBooks(w, u) /\ SameGate(w, u) /\ u.ready = w.ready /\ u.held = w.held /\ u.waiters = w.waiters
    BY DEF Runs, SameBooks, SameGate
  <2> HIDE DEF u
  <2>0. Queued(u) /\ \A d \in CallIds : Loose(w, d) <=> Loose(u, d)
    BY <2>2 DEF Queued, Loose
  <2>3. Parked(u, continueAt(u, c, "acquired"), c, "acquired")
    BY <2>0, <2>1, ContinueParks
  <2>4. Parked(w, continueAt(u, c, "acquired"), c, "acquired")
    BY <2>0, <2>2, <2>3 DEF Parked, SameBooks, SameGate, Spares
  <2>5. acquire(w, c) = continueAt(u, c, "acquired")
    BY <1>1 DEF acquire, u
  <2> QED BY <2>4, <2>5
<1>2. CASE ~(w.active < Concurrency)
  <2> DEFINE v == acquire(w, c)
  <2>1. /\ Append(w.waiters, c) \in Seq(CallIds)
        /\ Listed(Append(w.waiters, c)) = Listed(w.waiters) \cup {c}
        /\ Distinct(Append(w.waiters, c))
    BY AppendListed DEF Runs, Queued, Loose
  <2>2. [w.call EXCEPT ![c].pc = "acquiring"] \in [CallIds -> Calls]
    BY RecalledType DEF Runs, Pcs
  <2>3. v \in Runs
    BY <1>2, <2>1, <2>2 DEF acquire, Runs
  <2>4. /\ v.waiters = Append(w.waiters, c) /\ v.held = w.held /\ v.ready = w.ready
        /\ v.call = [w.call EXCEPT ![c].pc = "acquiring"] /\ SameBooks(w, v) /\ SameGate(w, v)
    BY <1>2 DEF acquire, Runs, SameBooks, SameGate
  <2> HIDE DEF v
  <2>5. \A d \in CallIds : d # c => v.call[d] = w.call[d]
    BY <2>4 DEF Runs
  <2>6. v.call[c].pc = "acquiring"
    BY <2>4 DEF Runs, Calls
  <2>7. Listed(w.ready) \subseteq CallIds /\ Listed(w.held) \subseteq CallIds /\ Listed(w.waiters) \subseteq CallIds
    BY ElementOfSeq DEF Runs, Listed
  <2>8. Queued(v)
    BY <2>1, <2>4, <2>5, <2>6, <2>7 DEF Queued, Loose
  <2>9. Spares(w, v, c)
    BY <2>1, <2>4, <2>5 DEF Spares, Loose
  <2> QED BY <2>3, <2>4, <2>8, <2>9 DEF Parked, v
<1> QED BY <1>1, <1>2

\* A call of its own comes to the pause gate.
LEMMA GateParks ==
  ASSUME NEW w \in Runs, Queued(w), NEW c \in CallIds, Loose(w, c)
  PROVE  \E pc \in {"pastGate", "held"} : Parked(w, pauseGate(w, c), c, pc)
<1>1. CASE ~w.paused \/ w.aborted \/ w.settled
  <2>1. Parked(w, continueAt(w, c, "pastGate"), c, "pastGate")
    BY ContinueParks
  <2> QED BY <1>1, <2>1 DEF pauseGate
<1>2. CASE ~(~w.paused \/ w.aborted \/ w.settled)
  <2> DEFINE v == pauseGate(w, c)
  <2>1. /\ Append(w.held, c) \in Seq(CallIds)
        /\ Listed(Append(w.held, c)) = Listed(w.held) \cup {c}
        /\ Distinct(Append(w.held, c))
    BY AppendListed DEF Runs, Queued, Loose
  <2>2. [w.call EXCEPT ![c].pc = "held"] \in [CallIds -> Calls]
    BY RecalledType DEF Runs, Pcs
  <2>3. v \in Runs
    BY <1>2, <2>1, <2>2 DEF pauseGate, Runs
  <2>4. /\ v.waiters = w.waiters /\ v.held = Append(w.held, c) /\ v.ready = w.ready
        /\ v.call = [w.call EXCEPT ![c].pc = "held"] /\ SameBooks(w, v) /\ SameGate(w, v)
    BY <1>2 DEF pauseGate, Runs, SameBooks, SameGate
  <2> HIDE DEF v
  <2>5. \A d \in CallIds : d # c => v.call[d] = w.call[d]
    BY <2>4 DEF Runs
  <2>6. v.call[c].pc = "held"
    BY <2>4 DEF Runs, Calls
  <2>7. Listed(w.ready) \subseteq CallIds /\ Listed(w.held) \subseteq CallIds /\ Listed(w.waiters) \subseteq CallIds
    BY ElementOfSeq DEF Runs, Listed
  <2>8. Queued(v)
    BY <2>1, <2>4, <2>5, <2>6, <2>7 DEF Queued, Loose
  <2>9. Spares(w, v, c)
    BY <2>1, <2>4, <2>5 DEF Spares, Loose
  <2> QED BY <2>3, <2>4, <2>8, <2>9 DEF Parked, v
<1> QED BY <1>1, <1>2

\* A call that is underway moves on by being parked.
LEMMA ParkedGoes ==
  ASSUME NEW w \in Runs, NEW v, NEW c \in CallIds, NEW pc \in {"pastGate", "acquired", "held", "acquiring"},
         Parked(w, v, c, pc), Underway(w, c)
  PROVE  Goes(w, v) /\ Still(w, v)
<1>1. v.call[c] = [w.call[c] EXCEPT !.pc = pc] /\ \A d \in CallIds : d # c => v.call[d] = w.call[d]
  BY DEF Parked, Runs
<1>2. /\ v.call[c].pc = pc /\ v.call[c].row = w.call[c].row /\ v.call[c].index = w.call[c].index
      /\ v.call[c].answer = w.call[c].answer
  <2>1. w.call[c] \in Calls
    BY DEF Runs
  <2> QED BY <1>1, <2>1 DEF Calls
<1>3. SameBooks(w, v) /\ SameGate(w, v)
  BY DEF Parked
<1>4. Still(w, v)
  BY <1>1, <1>2 DEF Still, Started
<1>5. \A d \in CallIds : Moves(w, v, d)
  BY <1>1, <1>2 DEF Moves, Underway
<1> QED BY <1>3, <1>4, <1>5 DEF Goes

\* A permit that is given back goes to the first waiter.
LEMMA ReleaseGoes ==
  ASSUME NEW w \in Runs, Queued(w)
  PROVE  /\ release(w) \in Runs /\ Queued(release(w)) /\ SameBooks(w, release(w)) /\ SameGate(w, release(w))
         /\ Goes(w, release(w)) /\ Still(w, release(w))
         /\ \A d \in CallIds : Loose(w, d) => Loose(release(w), d) /\ release(w).call[d] = w.call[d]
<1>1. CASE w.waiters = <<>>
  <2> DEFINE v == [w EXCEPT !.active = @ - 1]
  <2>1. v \in Runs
    <3>1. w.active - 1 \in Int
      BY DEF Runs
    <3> QED BY <3>1 DEF Runs
  <2>2. v.call = w.call /\ SameBooks(w, v) /\ SameGate(w, v) /\ v.ready = w.ready /\ v.held = w.held /\ v.waiters = w.waiters
    BY DEF Runs, SameBooks, SameGate
  <2>3. release(w) = v
    BY <1>1 DEF release
  <2> HIDE DEF v
  <2>4. Goes(w, v) /\ Still(w, v)
    BY <2>2 DEF Goes, Moves, Still, Underway, Started
  <2>5. Queued(v) /\ \A d \in CallIds : Loose(w, d) => Loose(v, d)
    BY <2>2 DEF Queued, Loose
  <2> QED BY <2>1, <2>2, <2>3, <2>4, <2>5
<1>2. CASE w.waiters # <<>>
  <2> DEFINE c == Head(w.waiters)
             u == [w EXCEPT !.waiters = Tail(@)]
             v == continueAt(u, c, "acquired")
  <2>1. /\ c \in CallIds /\ Tail(w.waiters) \in Seq(CallIds) /\ c \in Listed(w.waiters)
        /\ Listed(Tail(w.waiters)) = Listed(w.waiters) \ {c}
        /\ Distinct(Tail(w.waiters))
    BY <1>2, TailListed DEF Runs, Queued
  <2> HIDE DEF c
  <2>2. u \in Runs
    BY <2>1 DEF Runs
  <2>3. u.call = w.call /\ SameBooks(w, u) /\ SameGate(w, u) /\ u.ready = w.ready /\ u.held = w.held /\ u.waiters = Tail(w.waiters)
    BY DEF Runs, SameBooks, SameGate
  <2>4. release(w) = v
    BY <1>2 DEF release, c
  <2> HIDE DEF u
  <2>5. Queued(u) /\ Loose(u, c) /\ Underway(u, c)
    BY <2>1, <2>3 DEF Queued, Loose, Underway
  <2>6. Parked(u, v, c, "acquired")
    BY <2>1, <2>2, <2>5, ContinueParks
  <2> HIDE DEF v
  <2>7. Goes(u, v) /\ Still(u, v)
    BY <2>1, <2>2, <2>5, <2>6, ParkedGoes
  <2>8. Goes(w, v) /\ Still(w, v)
    BY <2>3, <2>7 DEF Goes, Moves, Still, Underway, Started, SameBooks
  <2>9. ASSUME NEW d \in CallIds, Loose(w, d) PROVE Loose(v, d) /\ v.call[d] = w.call[d]
    <3>1. Loose(u, d) /\ d # c
      BY <2>1, <2>3, <2>9 DEF Loose
    <3> QED BY <2>3, <2>6, <3>1 DEF Parked, Spares
  <2>10. v \in Runs /\ Queued(v) /\ SameBooks(w, v) /\ SameGate(w, v)
    BY <2>3, <2>6 DEF Parked, SameBooks, SameGate
  <2> QED BY <2>4, <2>8, <2>9, <2>10
<1> QED BY <1>1, <1>2

\* Calls that waited in one list are woken: they were underway and wait nowhere else.
LEMMA WakeAllGoes ==
  ASSUME NEW w \in Runs, Queued(w), NEW calls \in Seq(CallIds), NEW pc \in {"pastGate", "acquired"},
         Distinct(calls), \A c \in Listed(calls) : Loose(w, c) /\ Underway(w, c)
  PROVE  LET v == wakeAll(w, calls, pc)
         IN  /\ v \in Runs /\ Queued(v) /\ SameBooks(w, v) /\ SameGate(w, v)
             /\ Goes(w, v) /\ Still(w, v)
<1> DEFINE v == wakeAll(w, calls, pc)
           woken == [c \in CallIds |-> IF c \in Range(calls) THEN [w.call[c] EXCEPT !.pc = pc] ELSE w.call[c]]
<1>1. /\ w.ready \o calls \in Seq(CallIds)
      /\ Listed(w.ready \o calls) = Listed(w.ready) \cup Listed(calls)
      /\ Distinct(w.ready \o calls)
  <2>1. w.ready \in Seq(CallIds) /\ Distinct(w.ready) /\ Listed(w.ready) \cap Listed(calls) = {}
    BY DEF Runs, Queued, Loose
  <2> QED BY <2>1, ConcatListed
<1>2. Range(calls) = Listed(calls)
  <2>1. DOMAIN calls = 1..Len(calls)
    OBVIOUS
  <2> QED BY <2>1 DEF Range, Listed
<1>3. ASSUME NEW c \in CallIds PROVE [w.call[c] EXCEPT !.pc = pc] \in Calls
  <2>1. w.call[c] \in Calls
    BY DEF Runs
  <2> QED BY <2>1 DEF Calls, Pcs
<1>4. woken \in [CallIds -> Calls]
  BY <1>3 DEF Runs
<1>5. \A c \in CallIds : woken[c] = IF c \in Listed(calls) THEN [w.call[c] EXCEPT !.pc = pc] ELSE w.call[c]
  BY <1>2
<1> HIDE DEF woken
<1>6. v \in Runs /\ v.call = woken /\ v.ready = w.ready \o calls /\ v.held = w.held /\ v.waiters = w.waiters
      /\ SameBooks(w, v) /\ SameGate(w, v)
  <2>1. v = [w EXCEPT !.ready = w.ready \o calls, !.call = woken]
    BY DEF wakeAll, woken
  <2> HIDE DEF v
  <2> QED BY <1>1, <1>4, <2>1 DEF Runs, SameBooks, SameGate
<1> HIDE DEF v
<1>7. ASSUME NEW c \in CallIds
      PROVE  /\ v.call[c].pc = IF c \in Listed(calls) THEN pc ELSE w.call[c].pc
             /\ v.call[c].row = w.call[c].row /\ v.call[c].index = w.call[c].index
             /\ v.call[c].answer = w.call[c].answer
  <2>1. w.call[c] \in Calls
    BY DEF Runs
  <2> QED BY <1>5, <1>6, <2>1 DEF Calls
<1>8. Goes(w, v)
  <2>1. \A c \in CallIds : c \in Listed(calls) => Underway(w, c)
    OBVIOUS
  <2>2. \A c \in CallIds : Moves(w, v, c)
    BY <1>7, <2>1 DEF Moves, Underway
  <2> QED BY <1>6, <2>2 DEF Goes
<1>9. Still(w, v)
  BY <1>7 DEF Still, Started
<1>10. Listed(w.ready) \subseteq CallIds /\ Listed(w.held) \subseteq CallIds /\ Listed(w.waiters) \subseteq CallIds
       /\ Listed(calls) \subseteq CallIds
  BY ElementOfSeq DEF Runs, Listed
<1>11. Queued(v)
  BY <1>1, <1>6, <1>7, <1>10 DEF Queued, Loose
<1> QED BY <1>6, <1>8, <1>9, <1>11 DEF v

\* The end of a pause wakes what was held.
LEMMA ReleasePauseGoes ==
  ASSUME NEW w \in Runs, Queued(w)
  PROVE  LET v == releasePause(w)
         IN  v \in Runs /\ Queued(v) /\ SameBooks(w, v) /\ SameGate(w, v) /\ Goes(w, v) /\ Still(w, v)
<1> DEFINE u == [w EXCEPT !.held = <<>>]
           v == wakeAll(u, w.held, "pastGate")
<1>1. u \in Runs
  <2>1. <<>> \in Seq(CallIds)
    BY EmptySeq
  <2> QED BY <2>1 DEF Runs
<1>2. u.call = w.call /\ SameBooks(w, u) /\ SameGate(w, u) /\ u.ready = w.ready /\ u.held = <<>> /\ u.waiters = w.waiters
  BY DEF Runs, SameBooks, SameGate
<1>3. releasePause(w) = v
  BY DEF releasePause
<1> HIDE DEF u
<1>4. Listed(<<>>) = {} /\ Distinct(<<>>)
  BY DEF Listed, Distinct
<1>5. Queued(u) /\ \A c \in Listed(w.held) : Loose(u, c) /\ Underway(u, c)
  BY <1>2, <1>4 DEF Queued, Loose, Underway
<1>6. w.held \in Seq(CallIds) /\ Distinct(w.held)
  BY DEF Runs, Queued
<1>7. v \in Runs /\ Queued(v) /\ SameBooks(u, v) /\ SameGate(u, v) /\ Goes(u, v) /\ Still(u, v)
  BY <1>1, <1>5, <1>6, WakeAllGoes
<1> HIDE DEF v
<1>8. SameBooks(w, v) /\ SameGate(w, v) /\ Goes(w, v) /\ Still(w, v)
  BY <1>2, <1>7 DEF Goes, Moves, Still, Underway, Started, SameBooks, SameGate
<1> QED BY <1>3, <1>7, <1>8

\* The end of the run wakes what was queued for a permit.
LEMMA DrainGoes ==
  ASSUME NEW w \in Runs, Queued(w)
  PROVE  LET v == drain(w)
         IN  v \in Runs /\ Queued(v) /\ SameBooks(w, v) /\ SameGate(w, v) /\ Goes(w, v) /\ Still(w, v)
<1> DEFINE u == [w EXCEPT !.waiters = <<>>]
           v == wakeAll(u, w.waiters, "acquired")
<1>1. u \in Runs
  <2>1. <<>> \in Seq(CallIds)
    BY EmptySeq
  <2> QED BY <2>1 DEF Runs
<1>2. u.call = w.call /\ SameBooks(w, u) /\ SameGate(w, u) /\ u.ready = w.ready /\ u.held = w.held /\ u.waiters = <<>>
  BY DEF Runs, SameBooks, SameGate
<1>3. drain(w) = v
  BY DEF drain
<1> HIDE DEF u
<1>4. Listed(<<>>) = {} /\ Distinct(<<>>)
  BY DEF Listed, Distinct
<1>5. Queued(u) /\ \A c \in Listed(w.waiters) : Loose(u, c) /\ Underway(u, c)
  BY <1>2, <1>4 DEF Queued, Loose, Underway
<1>6. w.waiters \in Seq(CallIds) /\ Distinct(w.waiters)
  BY DEF Runs, Queued
<1>7. v \in Runs /\ Queued(v) /\ SameBooks(u, v) /\ SameGate(u, v) /\ Goes(u, v) /\ Still(u, v)
  BY <1>1, <1>5, <1>6, WakeAllGoes
<1> HIDE DEF v
<1>8. SameBooks(w, v) /\ SameGate(w, v) /\ Goes(w, v) /\ Still(w, v)
  BY <1>2, <1>7 DEF Goes, Moves, Still, Underway, Started, SameBooks, SameGate
<1> QED BY <1>3, <1>7, <1>8

-----------------------------------------------------------------------------
(* What keeps the calls sound.                                             *)

\* What is underway has no answer, and neither done nor cached as its row.
LEMMA UnderwayPlain ==
  ASSUME NEW w \in Runs, Rowed(w), NEW c \in CallIds, Underway(w, c)
  PROVE  w.call[c].answer = Unanswered /\ w.call[c].row \notin {"done", "cached"}
<1>1. w.call[c].answer = Unanswered
  BY DEF Rowed, Underway
<1>2. w.call[c].answer.tag # "text"
  BY <1>1 DEF Unanswered
<1> QED BY <1>1, <1>2 DEF Rowed

\* Moving calls on keeps everything sound.
LEMMA GoesSound ==
  ASSUME NEW w \in Runs, NEW v \in Runs, NEW n, Sound(w, n), Goes(w, v)
  PROVE  Sound(v, n)
<1>1. SameBooks(w, v) /\ \A c \in CallIds : Moves(w, v, c)
  BY DEF Goes
<1>2. Taken(w) /\ Rowed(w) /\ Texted(w, n) /\ Prefixed(w) /\ Accounted(w)
  BY DEF Sound
<1>3. ASSUME NEW c \in CallIds
      PROVE  /\ v.call[c].index = w.call[c].index /\ v.call[c].answer = w.call[c].answer
             /\ v.call[c].pc = "none" => w.call[c].pc = "none"
             /\ w.call[c].pc = "none" => v.call[c].pc = "none" /\ v.call[c].row = w.call[c].row
             /\ v.call[c].pc # "over" => w.call[c].pc # "over"
             /\ v.call[c].row \in {"done", "cached"} => v.call[c].row = w.call[c].row
             /\ w.call[c].row \in {"done", "cached"} => v.call[c].row = w.call[c].row
  <2>1. CASE Underway(w, c)
    <3>1. w.call[c].row \notin {"done", "cached"}
      BY <1>2, <2>1, UnderwayPlain
    <3> QED BY <1>1, <2>1, <3>1 DEF Moves, Underway
  <2>2. CASE ~Underway(w, c)
    BY <1>1, <2>2 DEF Moves, Underway
  <2> QED BY <2>1, <2>2
<1>4. Taken(v)
  BY <1>1, <1>2, <1>3 DEF Taken, SameBooks
<1>5. Rowed(v)
  BY <1>2, <1>3 DEF Rowed
<1>6. Texted(v, n)
  BY <1>1, <1>2, <1>3 DEF Texted, SameBooks
<1>7. Prefixed(v)
  <2>1. \A c \in CallIds : /\ v.call[c].index = w.call[c].index
                           /\ v.call[c].row = "cached" <=> w.call[c].row = "cached"
    BY <1>3
  <2> QED BY <1>1, <1>2, <2>1 DEF Prefixed, SameBooks
<1>8. Accounted(v)
  <2>1. Len(w.posted) <= MaxCalls /\ w.handled <= Len(w.posted) /\ w.handled \in Int /\ Len(w.posted) \in Nat
    BY <1>2, LenProperties DEF Taken, Runs
  <2>2. 1..w.handled \subseteq CallIds /\ 1..Len(w.posted) \subseteq CallIds
    BY <2>1, CallsAssumption DEF CallIds
  <2>3. \A c \in CallIds : v.call[c].answer = w.call[c].answer
    BY <1>3
  <2> QED BY <1>1, <1>2, <2>2, <2>3 DEF Accounted, SameBooks
<1> QED BY <1>4, <1>5, <1>6, <1>7, <1>8 DEF Sound

\* v is w with call c over: until the run settles, with an answer to match its row.
Closes(w, v, c, n) ==
  /\ v.posted = w.posted /\ v.handled = w.handled /\ v.count = w.count /\ v.intact = w.intact
  /\ v.settled = w.settled /\ v.status = w.status
  /\ \A d \in CallIds : d # c => v.call[d] = w.call[d]
  /\ v.call[c].pc = "over" /\ v.call[c].index = w.call[c].index
  /\ w.settled => v.call[c].answer = w.call[c].answer /\ v.call[c].row \in {w.call[c].row, "skipped"}
  /\ ~w.settled =>
       /\ v.open = w.open \ {c}
       /\ \/ /\ v.call[c].answer \in {NullAnswer, FatalAnswer, ErrorAnswer, BodyAnswer}
             /\ v.call[c].row \notin {"done", "cached"}
          \/ /\ Genuine(v.call[c].answer, w.call[c].index, w.posted[c])
             /\ v.call[c].answer.by = n
             /\ v.call[c].row = "done"

\* Tags tell the answers apart.
LEMMA PlainAnswers ==
  /\ Unanswered.tag # "text"
  /\ \A a \in {NullAnswer, FatalAnswer, ErrorAnswer, BodyAnswer} : a.tag # "text" /\ a # Unanswered
  /\ \A a : a.tag = "text" => a # Unanswered
<1>1. Unanswered.tag = "none"
  BY DEF Unanswered
<1>2. \A a \in {NullAnswer, FatalAnswer, ErrorAnswer, BodyAnswer} : a.tag \in {"null", "fatal", "error", "body"}
  BY DEF NullAnswer, FatalAnswer, ErrorAnswer, BodyAnswer
<1>3. \A a \in {NullAnswer, FatalAnswer, ErrorAnswer, BodyAnswer} : a.tag # "text" /\ a.tag # "none"
  BY <1>2
<1> QED BY <1>1, <1>3

\* The end of a call keeps everything sound.
LEMMA ClosesSound ==
  ASSUME NEW w \in Runs, NEW v \in Runs, NEW n, NEW c \in CallIds, Sound(w, n), Underway(w, c), Closes(w, v, c, n)
  PROVE  Sound(v, n)
<1>1. Taken(w) /\ Rowed(w) /\ Texted(w, n) /\ Prefixed(w) /\ Accounted(w)
  BY DEF Sound
<1>2. w.call[c].answer = Unanswered /\ w.call[c].row \notin {"done", "cached"} /\ w.call[c].pc # "none"
  BY <1>1, UnderwayPlain DEF Underway
<1>3. /\ v.posted = w.posted /\ v.handled = w.handled /\ v.count = w.count /\ v.intact = w.intact
      /\ v.settled = w.settled /\ v.status = w.status
      /\ \A d \in CallIds : d # c => v.call[d] = w.call[d]
      /\ v.call[c].pc = "over" /\ v.call[c].index = w.call[c].index
  BY DEF Closes
<1>4. v.call[c].row # "cached"
  BY <1>2 DEF Closes
<1>5. v.call[c].answer.tag = "text" <=> v.call[c].row \in {"done", "cached"}
  BY <1>2, PlainAnswers DEF Closes, Genuine
<1>6. v.call[c].answer.tag = "text" =>
        Genuine(v.call[c].answer, v.call[c].index, v.posted[c]) /\ v.call[c].answer.by = n
  BY <1>2, <1>3, PlainAnswers DEF Closes
<1>7. ~w.settled => v.call[c].answer # Unanswered /\ v.open = w.open \ {c}
  BY PlainAnswers DEF Closes, Genuine
<1>8. w.settled => v.call[c].answer = w.call[c].answer
  BY DEF Closes
<1>9. Taken(v)
  BY <1>1, <1>2, <1>3 DEF Taken
<1>10. Rowed(v)
  BY <1>1, <1>3, <1>5 DEF Rowed
<1>11. Texted(v, n)
  BY <1>1, <1>3, <1>6 DEF Texted
<1>12. Prefixed(v)
  <2>1. \A d \in CallIds : /\ v.call[d].index = w.call[d].index
                           /\ v.call[d].row = "cached" <=> w.call[d].row = "cached"
    BY <1>2, <1>3, <1>4
  <2> QED BY <1>1, <1>3, <2>1 DEF Prefixed
<1>13. Accounted(v)
  <2>1. Len(w.posted) <= MaxCalls /\ w.handled <= Len(w.posted) /\ w.handled \in Int /\ Len(w.posted) \in Nat
    BY <1>1, LenProperties DEF Taken, Runs
  <2>2. 1..w.handled \subseteq CallIds /\ 1..Len(w.posted) \subseteq CallIds
    BY <2>1, CallsAssumption DEF CallIds
  <2>3. CASE w.settled
    <3>1. \A d \in CallIds : v.call[d].answer = w.call[d].answer
      BY <1>3, <1>8, <2>3
    <3> QED BY <1>1, <1>3, <2>2, <2>3, <3>1 DEF Accounted
  <2>4. CASE ~w.settled
    <3>1. v.status = "none"
      BY <1>1, <1>3, <2>4 DEF Accounted
    <3>2. ASSUME NEW d \in 1..w.handled, w.posted[d].kind # "load" PROVE d \in v.open \/ v.call[d].answer # Unanswered
      BY <1>1, <1>3, <1>7, <2>2, <2>4, <3>2 DEF Accounted
    <3> QED BY <1>3, <3>1, <3>2 DEF Accounted
  <2> QED BY <2>3, <2>4
<1> QED BY <1>9, <1>10, <1>11, <1>12, <1>13 DEF Sound

\* v is w with the next call taken: a load, refused, to be run, or replayed.
Takes(w, v, c, n) ==
  /\ c = w.handled + 1 /\ c <= Len(w.posted) /\ ~w.settled
  /\ v.posted = w.posted /\ v.handled = c /\ v.settled = w.settled /\ v.status = w.status
  /\ \A d \in CallIds : d # c => v.call[d] = w.call[d]
  /\ v.call[c].pc # "none"
  /\ \/ /\ v.count = w.count /\ v.intact = w.intact /\ v.call[c].index = NoAgent
        /\ v.call[c].row = "none"
        /\ \/ w.posted[c].kind = "load" /\ v.open = w.open /\ v.call[c].answer = Unanswered
           \/ v.call[c].pc = "over" /\ v.open = w.open \ {c} /\ v.call[c].answer = FatalAnswer
     \/ /\ v.count = w.count + 1 /\ ~v.intact /\ v.call[c].index = w.count
        /\ v.call[c].row = "queued" /\ v.call[c].answer = Unanswered
        /\ v.open = w.open \cup {c}
     \/ /\ v.count = w.count + 1 /\ w.intact /\ v.call[c].index = w.count
        /\ v.call[c].row = "cached" /\ v.call[c].pc = "over"
        /\ v.open = w.open \ {c}
        /\ Genuine(v.call[c].answer, w.count, w.posted[c])

\* Taking a call keeps everything sound.
LEMMA TakesSound ==
  ASSUME NEW w \in Runs, NEW v \in Runs, NEW n, NEW c, Sound(w, n), Takes(w, v, c, n)
  PROVE  Sound(v, n)
<1>1. Taken(w) /\ Rowed(w) /\ Texted(w, n) /\ Prefixed(w) /\ Accounted(w)
  BY DEF Sound
<1>2. /\ w.handled \in Int /\ Len(w.posted) \in Nat /\ w.handled >= 0 /\ w.handled < Len(w.posted)
      /\ Len(w.posted) <= MaxCalls
      /\ c = w.handled + 1 /\ c <= Len(w.posted) /\ ~w.settled
  BY <1>1, LenProperties, SMTT(30) DEF Taken, Runs, Takes
<1>3. c \in CallIds /\ 1..Len(w.posted) \subseteq CallIds /\ 1..c = 1..w.handled \cup {c} /\ 1..c \subseteq CallIds
  BY <1>2, CallsAssumption DEF CallIds
<1>4. w.call[c].pc = "none" /\ w.call[c].row = "none" /\ w.call[c].index = NoAgent
  BY <1>1, <1>2, <1>3 DEF Taken
<1>5. /\ v.posted = w.posted /\ v.handled = c /\ v.settled = w.settled /\ v.status = w.status
      /\ \A d \in CallIds : d # c => v.call[d] = w.call[d]
      /\ v.call[c].pc # "none"
  BY DEF Takes
<1>6. Taken(v)
  BY <1>1, <1>2, <1>5 DEF Taken, CallIds
<1>7. Rowed(v)
  <2>1. /\ v.call[c].pc # "over" => v.call[c].answer = Unanswered
        /\ v.call[c].answer.tag = "text" <=> v.call[c].row \in {"done", "cached"}
    BY PlainAnswers DEF Takes, Genuine
  <2> QED BY <1>1, <1>5, <2>1 DEF Rowed
<1>8. Texted(v, n)
  <2>1. v.call[c].answer.tag = "text" =>
          Genuine(v.call[c].answer, v.call[c].index, v.posted[c]) /\ v.call[c].row = "cached"
    BY PlainAnswers DEF Takes
  <2> QED BY <1>1, <1>5, <2>1 DEF Texted
<1>9. Prefixed(v)
  <2>0. w.count \in Nat /\ NoAgent \notin Nat
    BY <1>1 DEF Prefixed, NoAgent
  <2>1. CASE v.call[c].index = NoAgent
    <3>1. v.count = w.count /\ v.intact = w.intact /\ v.call[c].row # "cached"
      BY <2>0, <2>1 DEF Takes
    <3>2. \A d \in CallIds : /\ v.call[d].index = w.call[d].index
                             /\ v.call[d].row = "cached" <=> w.call[d].row = "cached"
      BY <1>4, <1>5, <2>1, <3>1
    <3> QED BY <1>1, <3>1, <3>2 DEF Prefixed
  <2>2. CASE v.call[c].index # NoAgent
    <3>1. /\ v.count = w.count + 1 /\ v.call[c].index = w.count
          /\ v.intact => v.call[c].row = "cached"
          /\ v.call[c].row = "cached" => w.intact
      BY <2>2 DEF Takes
    <3>2. v.count \in Nat /\ \A d \in CallIds : v.call[d].index = NoAgent \/ v.call[d].index \in 0..(v.count - 1)
      BY <1>1, <1>5, <2>0, <3>1 DEF Prefixed
    <3>3. ASSUME w.intact, NEW d \in CallIds, v.call[d].index # NoAgent, d # c PROVE v.call[d].row = "cached"
      BY <1>1, <1>5, <3>3 DEF Prefixed
    <3>4. ASSUME v.intact, NEW d \in CallIds, v.call[d].index # NoAgent PROVE v.call[d].row = "cached"
      BY <3>1, <3>3, <3>4
    <3>5. ASSUME NEW a \in CallIds, NEW d \in CallIds, v.call[a].row = "cached", v.call[d].index \in 0..v.call[a].index
          PROVE  v.call[d].row = "cached"
      <4>1. CASE a = c
        <5>1. v.call[d].index # NoAgent
          BY <3>5 DEF NoAgent
        <5> QED BY <3>1, <3>3, <3>5, <4>1, <5>1
      <4>2. CASE a # c
        <5>1. v.call[a] = w.call[a] /\ w.call[a].index < w.count
          BY <1>1, <1>5, <2>0, <4>2 DEF Prefixed, NoAgent
        <5>2. d # c
          <6>1. v.call[d].index <= v.call[a].index /\ v.call[a].index \in Int
            BY <3>5, <5>1 DEF Runs, Calls
          <6> QED BY <2>0, <3>1, <5>1, <6>1
        <5> QED BY <1>1, <1>5, <3>5, <5>1, <5>2 DEF Prefixed
      <4> QED BY <4>1, <4>2
    <3> QED BY <3>2, <3>4, <3>5 DEF Prefixed
  <2> QED BY <2>1, <2>2
<1>10. Accounted(v)
  <2>1. v.status = "none" /\ ~v.settled
    BY <1>1, <1>2, <1>5 DEF Accounted
  <2>2. w.posted[c].kind # "load" => c \in v.open \/ v.call[c].answer # Unanswered
    BY PlainAnswers DEF Takes, Genuine
  <2>3. ASSUME NEW d \in 1..w.handled, w.posted[d].kind # "load" PROVE d \in v.open \/ v.call[d].answer # Unanswered
    <3>1. d \in CallIds /\ d # c /\ (d \in w.open \/ w.call[d].answer # Unanswered)
      BY <1>1, <1>2, <1>3, <2>3 DEF Accounted
    <3>2. d \in w.open => d \in v.open
      BY <3>1 DEF Takes
    <3> QED BY <1>5, <3>1, <3>2
  <2> QED BY <1>3, <1>5, <2>1, <2>2, <2>3 DEF Accounted
<1> QED BY <1>6, <1>7, <1>8, <1>9, <1>10 DEF Sound

-----------------------------------------------------------------------------
(* Answers, the journal, and the end of the run.                           *)

\* v is w with call c over and answered with a, unless the run has settled.
Responded(w, v, c, a) ==
  /\ v \in Runs /\ Queued(v) /\ SameGate(w, v)
  /\ v.posted = w.posted /\ v.handled = w.handled /\ v.count = w.count /\ v.intact = w.intact
  /\ v.settled = w.settled /\ v.status = w.status /\ v.open = w.open \ {c}
  /\ \A d \in CallIds : d # c => v.call[d] = w.call[d]
  /\ v.call[c].pc = "over" /\ v.call[c].index = w.call[c].index /\ v.call[c].row = w.call[c].row
  /\ v.call[c].answer = IF w.settled THEN w.call[c].answer ELSE a

\* A response closes its call and nothing else.
LEMMA RespondFacts ==
  ASSUME NEW w \in Runs, Queued(w), NEW c \in CallIds, Loose(w, c), NEW a \in Answers
  PROVE  Responded(w, respond(w, c, a), c, a)
<1> DEFINE v == respond(w, c, a)
           r == [w.call[c] EXCEPT !.answer = IF w.settled THEN @ ELSE a, !.pc = "over"]
<1>1. w.call[c] \in Calls /\ w.settled \in BOOLEAN
  BY DEF Runs
<1>2. /\ r \in Calls /\ r.pc = "over" /\ r.index = w.call[c].index /\ r.row = w.call[c].row
      /\ r.answer = IF w.settled THEN w.call[c].answer ELSE a
  BY <1>1 DEF Calls, Pcs
<1> HIDE DEF r
<1>3. /\ v = [w EXCEPT !.open = w.open \ {c}, !.call = [w.call EXCEPT ![c] = r]]
  <2>1. DOMAIN w.call = CallIds
    BY DEF Runs
  <2> QED BY <2>1 DEF respond, r, Runs
<1>4. [w.call EXCEPT ![c] = r] \in [CallIds -> Calls]
  BY <1>2 DEF Runs
<1>5. w.open \ {c} \in SUBSET CallIds
  BY DEF Runs
<1> HIDE DEF v
<1>6. v \in Runs
  BY <1>3, <1>4, <1>5 DEF Runs
<1>7. /\ v.posted = w.posted /\ v.handled = w.handled /\ v.count = w.count /\ v.intact = w.intact
      /\ v.settled = w.settled /\ v.status = w.status /\ v.open = w.open \ {c}
      /\ v.call = [w.call EXCEPT ![c] = r]
      /\ v.ready = w.ready /\ v.held = w.held /\ v.waiters = w.waiters /\ SameGate(w, v)
  BY <1>3 DEF Runs, SameGate
<1>8. v.call[c] = r /\ \A d \in CallIds : d # c => v.call[d] = w.call[d]
  BY <1>7 DEF Runs
<1>9. Listed(w.ready) \subseteq CallIds /\ Listed(w.held) \subseteq CallIds /\ Listed(w.waiters) \subseteq CallIds
  BY ElementOfSeq DEF Runs, Listed
<1>10. Queued(v)
  BY <1>7, <1>8, <1>9 DEF Queued, Loose
<1> QED BY <1>2, <1>6, <1>7, <1>8, <1>10 DEF v, Responded

\* An entry that is genuine goes to the journal, and nothing else changes.
LEMMA RecordFacts ==
  ASSUME NEW w \in Runs, NEW c \in CallIds, c <= Len(w.posted), NEW ok \in BOOLEAN, NEW text \in Answers,
         ok => Genuine(text, w.call[c].index, w.posted[c])
  PROVE  LET v == recordJournal(w, c, ok, text)
         IN  v \in Runs /\ \E j \in Seq(Entries) : v = [w EXCEPT !.journal = j]
<1> DEFINE e == [index |-> w.call[c].index, key |-> w.posted[c], ok |-> ok, text |-> text,
                 resumed |-> w.posted[c].kind = "resume"]
           v == recordJournal(w, c, ok, text)
<1>1. w.posted[c] \in Payloads
  <2>1. c \in 1..Len(w.posted) /\ w.posted \in Seq(Payloads)
    BY LenProperties DEF Runs, CallIds
  <2> QED BY <2>1, ElementOfSeq
<1>2. w.call[c].index \in Int
  BY DEF Runs, Calls
<1>3. PICK b \in BOOLEAN : b = (w.posted[c].kind = "resume")
  OBVIOUS
<1>4. e = [index |-> w.call[c].index, key |-> w.posted[c], ok |-> ok, text |-> text, resumed |-> b]
  BY <1>3, Zenon
<1>5. e \in Entries
  <2> DEFINE f == [index |-> w.call[c].index, key |-> w.posted[c], ok |-> ok, text |-> text, resumed |-> b]
  <2>1. f \in [index : Int, key : Payloads, ok : BOOLEAN, text : Answers, resumed : BOOLEAN]
    BY <1>1, <1>2
  <2>2. f.ok => Genuine(f.text, f.index, f.key)
    OBVIOUS
  <2>3. f \in Entries
    BY <2>1, <2>2 DEF Entries
  <2> QED BY <1>4, <2>3
<1>6. v = [w EXCEPT !.journal = Append(w.journal, e)]
  BY DEF recordJournal
<1> HIDE DEF e, v
<1>7. Append(w.journal, e) \in Seq(Entries)
  BY <1>5, AppendProperties DEF Runs
<1>8. v \in Runs
  BY <1>6, <1>7 DEF Runs
<1> QED BY <1>6, <1>7, <1>8 DEF v

\* Another journal is no other run.
LEMMA JournalAside ==
  ASSUME NEW w \in Runs, NEW j \in Seq(Entries)
  PROVE  LET v == [w EXCEPT !.journal = j]
         IN  /\ v \in Runs /\ v.call = w.call /\ v.open = w.open
             /\ SameBooks(w, v) /\ SameGate(w, v)
             /\ v.ready = w.ready /\ v.held = w.held /\ v.waiters = w.waiters
BY DEF Runs, SameBooks, SameGate

\* An answer that is journalled first closes its call all the same.
LEMMA JournalledFacts ==
  ASSUME NEW w \in Runs, Queued(w), NEW c \in CallIds, Loose(w, c), c <= Len(w.posted),
         NEW ok \in BOOLEAN, NEW a \in Answers, ok => Genuine(a, w.call[c].index, w.posted[c])
  PROVE  Responded(w, respond(recordJournal(w, c, ok, a), c, a), c, a)
<1> DEFINE u == recordJournal(w, c, ok, a)
<1>1. PICK j \in Seq(Entries) : u = [w EXCEPT !.journal = j]
  BY RecordFacts
<1> HIDE DEF u
<1>2. /\ u \in Runs /\ u.call = w.call /\ u.open = w.open
      /\ SameBooks(w, u) /\ SameGate(w, u)
      /\ u.ready = w.ready /\ u.held = w.held /\ u.waiters = w.waiters
  BY <1>1, JournalAside
<1>3. Queued(u) /\ Loose(u, c)
  BY <1>2 DEF Queued, Loose
<1>4. Responded(u, respond(u, c, a), c, a)
  BY <1>2, <1>3, RespondFacts
<1>5. Responded(w, respond(u, c, a), c, a)
  BY <1>2, <1>4 DEF Responded, SameBooks, SameGate
<1> QED BY <1>5 DEF u

\* A call that changes keeps its place in the queues, if its pc stays or it waits nowhere.
LEMMA Relabelled ==
  ASSUME NEW w \in Runs, Queued(w), NEW c \in CallIds, NEW r \in Calls, r.pc = w.call[c].pc \/ Loose(w, c)
  PROVE  LET v == [w EXCEPT !.call = [w.call EXCEPT ![c] = r]]
         IN  /\ v \in Runs /\ Queued(v) /\ SameBooks(w, v) /\ SameGate(w, v)
             /\ \A d \in CallIds : Loose(w, d) => Loose(v, d)
             /\ v.call[c] = r /\ \A d \in CallIds : d # c => v.call[d] = w.call[d]
<1> DEFINE v == [w EXCEPT !.call = [w.call EXCEPT ![c] = r]]
<1>1. [w.call EXCEPT ![c] = r] \in [CallIds -> Calls]
  BY DEF Runs
<1>2. v \in Runs
  BY <1>1 DEF Runs
<1>3. /\ v.call = [w.call EXCEPT ![c] = r] /\ SameBooks(w, v) /\ SameGate(w, v)
      /\ v.ready = w.ready /\ v.held = w.held /\ v.waiters = w.waiters
  BY DEF Runs, SameBooks, SameGate
<1> HIDE DEF v
<1>4. v.call[c] = r /\ \A d \in CallIds : d # c => v.call[d] = w.call[d]
  BY <1>3 DEF Runs
<1>5. Listed(w.ready) \subseteq CallIds /\ Listed(w.held) \subseteq CallIds /\ Listed(w.waiters) \subseteq CallIds
  BY ElementOfSeq DEF Runs, Listed
<1>6. \A d \in CallIds : ~Loose(w, d) => v.call[d].pc = w.call[d].pc
  BY <1>4
<1>7. Queued(v)
  BY <1>3, <1>5, <1>6 DEF Queued, Loose
<1>8. \A d \in CallIds : Loose(w, d) => Loose(v, d)
  BY <1>3 DEF Loose
<1> QED BY <1>2, <1>3, <1>4, <1>7, <1>8 DEF v

\* A skipped call is over, and no text.
LEMMA SkippedCloses ==
  ASSUME NEW w \in Runs, Queued(w), NEW c \in CallIds, Loose(w, c), c <= Len(w.posted), NEW n
  PROVE  LET v == settleSkipped(w, c)
         IN  v \in Runs /\ Queued(v) /\ SameGate(w, v) /\ Closes(w, v, c, n)
<1> DEFINE r == [w.call[c] EXCEPT !.row = "skipped"]
           u == [w EXCEPT !.call = [w.call EXCEPT ![c] = r]]
           v == settleSkipped(w, c)
<1>1. w.call[c] \in Calls /\ DOMAIN w.call = CallIds
  BY DEF Runs
<1>2. /\ r \in Calls /\ r.pc = w.call[c].pc /\ r.row = "skipped"
      /\ r.index = w.call[c].index /\ r.answer = w.call[c].answer
  BY <1>1 DEF Calls, Rows
<1>3. v = respond(recordJournal(u, c, FALSE, NullAnswer), c, NullAnswer)
  BY DEF settleSkipped
<1> HIDE DEF r
<1>4. /\ u \in Runs /\ Queued(u) /\ SameBooks(w, u) /\ SameGate(w, u)
      /\ \A d \in CallIds : Loose(w, d) => Loose(u, d)
      /\ u.call[c] = r /\ \A d \in CallIds : d # c => u.call[d] = w.call[d]
  BY <1>2, Relabelled, ZenonT(40)
<1> HIDE DEF u, v
<1>5. c <= Len(u.posted) /\ NullAnswer \in Answers
  BY <1>4 DEF SameBooks, Answers
<1>6. Responded(u, v, c, NullAnswer)
  BY <1>3, <1>4, <1>5, JournalledFacts
<1>7. Closes(w, v, c, n)
  BY <1>2, <1>4, <1>6 DEF Closes, Responded, SameBooks
<1> QED BY <1>4, <1>6, <1>7 DEF v, Responded, SameGate

Right(w, n) == w \in Runs /\ Queued(w) /\ Sound(w, n)

\* The posted payload of a call that was taken.
LEMMA TakenPosted ==
  ASSUME NEW w \in Runs, Taken(w), NEW c \in CallIds, Underway(w, c)
  PROVE  c <= Len(w.posted)
<1>1. c <= w.handled /\ w.handled <= Len(w.posted) /\ w.handled \in Int /\ Len(w.posted) \in Nat
  BY LenProperties DEF Taken, Underway, Runs, CallIds
<1> QED BY <1>1 DEF CallIds

\* However an attempt ends, what follows keeps everything right, and starts no child.
LEMMA SettleRight ==
  ASSUME NEW w, Right(w, RunNumber), RunNumber \in Nat,
         NEW c \in CallIds, Loose(w, c), Underway(w, c), NEW ok \in BOOLEAN
  PROVE  Right(settleAttempt(w, c, ok), RunNumber) /\ Still(w, settleAttempt(w, c, ok))
<1> DEFINE f == release(w)
           text == Text(RunNumber, w.call[c].index, w.posted[c])
           a == IF ok THEN text ELSE NullAnswer
           row == IF ok THEN "done" ELSE IF w.call[c].stop THEN "skipped" ELSE "failed"
           v == settleAttempt(w, c, ok)
<1>1. w \in Runs /\ Queued(w) /\ Sound(w, RunNumber)
  BY DEF Right
<1>2. /\ f \in Runs /\ Queued(f) /\ SameBooks(w, f) /\ SameGate(w, f)
      /\ Goes(w, f) /\ Still(w, f) /\ Loose(f, c) /\ f.call[c] = w.call[c]
  BY <1>1, ReleaseGoes
<1> HIDE DEF f
<1>3. Sound(f, RunNumber) /\ Underway(f, c)
  BY <1>1, <1>2, GoesSound DEF Underway
<1>4. f.call[c] \in Calls /\ DOMAIN f.call = CallIds /\ f.posted = w.posted /\ f.settled = w.settled
  BY <1>2 DEF Runs, SameBooks
<1>5. c <= Len(f.posted)
  BY <1>2, <1>3, TakenPosted DEF Sound
<1>6. CASE w.settled
  <2> DEFINE r == [f.call[c] EXCEPT !.pc = "over"]
  <2>1. r \in Calls /\ r.pc = "over" /\ r.index = f.call[c].index /\ r.row = f.call[c].row /\ r.answer = f.call[c].answer
    BY <1>4 DEF Calls, Pcs
  <2>2. v = [f EXCEPT !.call = [f.call EXCEPT ![c] = r]]
    BY <1>4, <1>6 DEF settleAttempt, f
  <2> HIDE DEF r, v
  <2>3. /\ v \in Runs /\ Queued(v) /\ SameBooks(f, v) /\ SameGate(f, v)
        /\ v.call[c] = r /\ \A d \in CallIds : d # c => v.call[d] = f.call[d]
    BY <1>2, <2>1, <2>2, Relabelled
  <2>4. Closes(f, v, c, RunNumber)
    BY <1>4, <1>6, <2>1, <2>3 DEF Closes, SameBooks
  <2>5. Sound(v, RunNumber)
    BY <1>2, <1>3, <2>3, <2>4, ClosesSound
  <2>6. Still(w, v)
    BY <1>2, <2>1, <2>3 DEF Still, Started
  <2> QED BY <2>3, <2>5, <2>6 DEF Right, v
<1>7. CASE ~w.settled /\ w.call[c].intent = "retry"
  <2> DEFINE r == [f.call[c] EXCEPT !.intent = "none", !.stop = FALSE, !.row = "queued"]
             u == [f EXCEPT !.call = [f.call EXCEPT ![c] = r]]
  <2>1. /\ r \in Calls /\ r.pc = f.call[c].pc /\ r.index = f.call[c].index
        /\ r.row = "queued" /\ r.answer = f.call[c].answer
    BY <1>4 DEF Calls, Rows
  <2>2. u = [f EXCEPT !.call[c].intent = "none", !.call[c].stop = FALSE, !.call[c].row = "queued"]
    BY <1>2, <1>4 DEF Runs
  <2>3. v = pauseGate(u, c)
    BY <1>7, <2>2 DEF settleAttempt, f
  <2> HIDE DEF r
  <2>4. /\ u \in Runs /\ Queued(u) /\ SameBooks(f, u) /\ SameGate(f, u) /\ Loose(u, c)
        /\ u.call[c] = r /\ \A d \in CallIds : d # c => u.call[d] = f.call[d]
    BY <1>2, <2>1, Relabelled
  <2> HIDE DEF u, v
  <2>5. Goes(f, u) /\ Still(f, u) /\ Underway(u, c)
    BY <1>3, <2>1, <2>4 DEF Goes, Moves, Still, Started, Underway
  <2>6. PICK pc \in {"pastGate", "held"} : Parked(u, v, c, pc)
    BY <2>3, <2>4, GateParks
  <2>7. Goes(u, v) /\ Still(u, v)
    BY <2>4, <2>5, <2>6, ParkedGoes
  <2>8. v \in Runs /\ Queued(v)
    BY <2>6 DEF Parked
  <2>9. Sound(v, RunNumber)
    <3>1. Sound(u, RunNumber)
      BY <1>2, <1>3, <2>4, <2>5, GoesSound
    <3> QED BY <2>4, <2>7, <2>8, <3>1, GoesSound
  <2>10. Still(w, v)
    BY <1>2, <2>5, <2>7 DEF Still
  <2> QED BY <2>8, <2>9, <2>10 DEF Right, v
<1>8. CASE ~w.settled /\ w.call[c].intent # "retry"
  <2> DEFINE r == [f.call[c] EXCEPT !.row = row]
             u == [f EXCEPT !.call = [f.call EXCEPT ![c] = r]]
  <2>0. row \in Rows /\ (ok => row = "done") /\ (~ok => row \notin {"done", "cached"})
    BY DEF Rows
  <2>1. v = respond(recordJournal(u, c, ok, a), c, a)
    BY <1>4, <1>8 DEF settleAttempt, f
  <2> HIDE DEF row
  <2>2. /\ r \in Calls /\ r.pc = f.call[c].pc /\ r.index = f.call[c].index
        /\ r.row = row /\ r.answer = f.call[c].answer
    BY <1>4, <2>0 DEF Calls
  <2> HIDE DEF r
  <2>3. /\ u \in Runs /\ Queued(u) /\ SameBooks(f, u) /\ SameGate(f, u) /\ Loose(u, c)
        /\ u.call[c] = r /\ \A d \in CallIds : d # c => u.call[d] = f.call[d]
    BY <1>2, <2>2, Relabelled
  <2> HIDE DEF u, v
  <2>4. w.posted[c] \in Payloads /\ w.call[c].index \in Int /\ c <= Len(u.posted)
    <3>1. c \in 1..Len(f.posted) /\ f.posted \in Seq(Payloads)
      BY <1>2, <1>5, LenProperties DEF Runs, CallIds
    <3>2. f.posted[c] \in Payloads
      BY <3>1, ElementOfSeq
    <3>3. w.call[c].index \in Int
      BY <1>2, <1>4 DEF Calls
    <3> QED BY <1>4, <1>5, <2>3, <3>2, <3>3 DEF SameBooks
  <2>5. text \in Answers /\ Genuine(text, w.call[c].index, w.posted[c]) /\ text.by = RunNumber
    BY <2>4 DEF Answers, Text, Genuine
  <2>6. a \in Answers /\ (ok => a = text) /\ (~ok => a = NullAnswer)
    BY <2>5 DEF Answers
  <2>7. u.call[c].index = w.call[c].index /\ u.posted = w.posted
    BY <1>2, <1>4, <2>2, <2>3 DEF SameBooks
  <2> HIDE DEF text, a
  <2>8. ok => Genuine(a, u.call[c].index, u.posted[c])
    BY <2>5, <2>6, <2>7
  <2>9. Responded(u, v, c, a)
    BY <2>1, <2>3, <2>4, <2>6, <2>8, JournalledFacts
  <2>10. Closes(f, v, c, RunNumber)
    <3>1. v.call[c].answer = a /\ v.call[c].row = row /\ v.open = f.open \ {c}
      BY <1>4, <1>8, <2>2, <2>3, <2>9 DEF Responded, SameBooks
    <3>2. \/ a \in {NullAnswer, FatalAnswer, ErrorAnswer, BodyAnswer} /\ row \notin {"done", "cached"}
          \/ Genuine(a, f.call[c].index, f.posted[c]) /\ a.by = RunNumber /\ row = "done"
      BY <1>2, <1>4, <2>0, <2>5, <2>6
    <3>3. /\ v.posted = f.posted /\ v.handled = f.handled /\ v.count = f.count /\ v.intact = f.intact
          /\ v.settled = f.settled /\ v.status = f.status
          /\ \A d \in CallIds : d # c => v.call[d] = f.call[d]
          /\ v.call[c].pc = "over" /\ v.call[c].index = f.call[c].index
      BY <2>2, <2>3, <2>9 DEF Responded, SameBooks
    <3> QED BY <1>4, <1>8, <3>1, <3>2, <3>3 DEF Closes
  <2>11. v \in Runs /\ Queued(v)
    BY <2>9 DEF Responded
  <2>12. Sound(v, RunNumber)
    BY <1>2, <1>3, <2>10, <2>11, ClosesSound
  <2>13. Still(w, v)
    BY <1>2, <2>10 DEF Still, Started, Closes
  <2> QED BY <2>11, <2>12, <2>13 DEF Right, v
<1> QED BY <1>6, <1>7, <1>8

\* A call that was skipped while it waited is closed, and the run stays right.
LEMMA SkippedRight ==
  ASSUME NEW w, NEW n, Right(w, n), NEW c \in CallIds, Loose(w, c), Underway(w, c)
  PROVE  Right(settleSkipped(w, c), n) /\ Still(w, settleSkipped(w, c))
<1> DEFINE v == settleSkipped(w, c)
<1>1. w \in Runs /\ Queued(w) /\ Sound(w, n) /\ c <= Len(w.posted)
  BY TakenPosted DEF Right, Sound
<1>2. v \in Runs /\ Queued(v) /\ Closes(w, v, c, n)
  BY <1>1, SkippedCloses
<1> HIDE DEF v
<1>3. Sound(v, n)
  BY <1>1, <1>2, ClosesSound
<1>4. Still(w, v)
  BY <1>2 DEF Closes, Still, Started
<1> QED BY <1>2, <1>3, <1>4 DEF Right, v

\* Past the gate a call asks for a permit, or is closed.
LEMMA PastGateRight ==
  ASSUME NEW w, NEW n, Right(w, n), NEW c \in CallIds, Loose(w, c), Underway(w, c)
  PROVE  Right(pastGate(w, c), n) /\ Still(w, pastGate(w, c))
<1>1. CASE w.call[c].intent = "skip"
  BY <1>1, SkippedRight DEF pastGate
<1>2. CASE w.call[c].intent # "skip"
  <2> DEFINE v == acquire(w, c)
  <2>1. w \in Runs /\ Queued(w) /\ Sound(w, n)
    BY DEF Right
  <2> HIDE DEF v
  <2>2. PICK pc \in {"acquired", "acquiring"} : Parked(w, v, c, pc)
    BY <2>1, AcquireParks DEF v
  <2>3. Goes(w, v) /\ Still(w, v)
    BY <2>1, <2>2, ParkedGoes
  <2>4. v \in Runs /\ Queued(v)
    BY <2>2 DEF Parked
  <2>5. Sound(v, n)
    BY <2>1, <2>3, <2>4, GoesSound
  <2> QED BY <1>2, <2>3, <2>4, <2>5 DEF pastGate, Right, v
<1> QED BY <1>1, <1>2

\* A child that is started is underway like any other call.
LEMMA StartRight ==
  ASSUME NEW w, NEW n, Right(w, n), NEW c \in CallIds, Loose(w, c), Underway(w, c)
  PROVE  Right(startChild(w, c), n)
<1> DEFINE pc == IF w.posted[c].kind = "resume" THEN "child" ELSE "starting"
           r == [w.call[c] EXCEPT !.row = "running", !.pc = pc]
           v == [w EXCEPT !.call = [w.call EXCEPT ![c] = r]]
<1>1. w \in Runs /\ Queued(w) /\ Sound(w, n) /\ w.call[c] \in Calls /\ DOMAIN w.call = CallIds
  BY DEF Right, Runs
<1>2. pc \in {"child", "starting"}
  OBVIOUS
<1>3. startChild(w, c) = v
  BY <1>1 DEF startChild, Runs
<1> HIDE DEF pc
<1>4. /\ r \in Calls /\ r.pc = pc /\ r.row = "running"
      /\ r.index = w.call[c].index /\ r.answer = w.call[c].answer
  BY <1>1, <1>2 DEF Calls, Pcs, Rows
<1> HIDE DEF r
<1>5. /\ v \in Runs /\ Queued(v) /\ SameBooks(w, v)
      /\ v.call[c] = r /\ \A d \in CallIds : d # c => v.call[d] = w.call[d]
  BY <1>1, <1>4, Relabelled
<1> HIDE DEF v
<1>6. Goes(w, v)
  BY <1>2, <1>4, <1>5 DEF Goes, Moves, Underway
<1>7. Sound(v, n)
  BY <1>1, <1>5, <1>6, GoesSound
<1> QED BY <1>3, <1>5, <1>7 DEF Right

\* A call with its permit starts, waits again or is closed; it never starts in a pause.
LEMMA AcquiredRight ==
  ASSUME NEW w, NEW n, Right(w, n), NEW c \in CallIds, Loose(w, c), Underway(w, c)
  PROVE  Right(acquired(w, c), n) /\ (w.paused => Still(w, acquired(w, c)))
<1> DEFINE f == release(w)
<1>1. w \in Runs /\ Queued(w) /\ Sound(w, n)
  BY DEF Right
<1>2. /\ f \in Runs /\ Queued(f) /\ SameBooks(w, f)
      /\ Goes(w, f) /\ Still(w, f) /\ Loose(f, c) /\ f.call[c] = w.call[c]
  BY <1>1, ReleaseGoes
<1> HIDE DEF f
<1>3. Right(f, n) /\ Underway(f, c)
  BY <1>1, <1>2, GoesSound DEF Underway, Right
<1>4. CASE w.aborted \/ w.settled
  <2> DEFINE v == respond(f, c, FatalAnswer)
  <2>1. acquired(w, c) = v
    BY <1>4 DEF acquired, f
  <2>2. FatalAnswer \in Answers
    BY DEF Answers
  <2> HIDE DEF v
  <2>3. Responded(f, v, c, FatalAnswer)
    BY <1>2, <2>2, RespondFacts DEF v
  <2>4. f.call[c].row \notin {"done", "cached"}
    BY <1>3, UnderwayPlain DEF Right, Sound
  <2>5. Closes(f, v, c, n)
    BY <2>3, <2>4 DEF Closes, Responded
  <2>6. v \in Runs /\ Queued(v)
    BY <2>3 DEF Responded
  <2>7. Sound(v, n)
    BY <1>3, <2>5, <2>6, ClosesSound DEF Right
  <2>8. Still(w, v)
    BY <1>2, <2>3 DEF Still, Started, Responded
  <2> QED BY <2>1, <2>6, <2>7, <2>8 DEF Right
<1>5. CASE ~(w.aborted \/ w.settled) /\ w.paused
  <2> DEFINE v == pauseGate(f, c)
  <2>1. acquired(w, c) = v
    BY <1>5 DEF acquired, f
  <2> HIDE DEF v
  <2>2. PICK pc \in {"pastGate", "held"} : Parked(f, v, c, pc)
    BY <1>2, GateParks DEF v
  <2>3. Goes(f, v) /\ Still(f, v)
    BY <1>2, <1>3, <2>2, ParkedGoes
  <2>4. v \in Runs /\ Queued(v)
    BY <2>2 DEF Parked
  <2>5. Sound(v, n)
    BY <1>3, <2>3, <2>4, GoesSound DEF Right
  <2>6. Still(w, v)
    BY <1>2, <2>3 DEF Still
  <2> QED BY <2>1, <2>4, <2>5, <2>6 DEF Right
<1>6. CASE ~(w.aborted \/ w.settled) /\ ~w.paused /\ w.call[c].intent = "skip"
  <2>1. acquired(w, c) = settleSkipped(f, c)
    BY <1>6 DEF acquired, f
  <2>2. Right(settleSkipped(f, c), n)
    BY <1>2, <1>3, SkippedRight
  <2> QED BY <1>6, <2>1, <2>2
<1>7. CASE ~(w.aborted \/ w.settled) /\ ~w.paused /\ w.call[c].intent # "skip"
  <2>1. acquired(w, c) = startChild(w, c)
    BY <1>7 DEF acquired
  <2>2. Right(startChild(w, c), n)
    BY StartRight
  <2> QED BY <1>7, <2>1, <2>2
<1> QED BY <1>4, <1>5, <1>6, <1>7

\* The end of a run, as failed or killed, or as completed with every call
\* taken and none open: what waited is woken, and no child starts.
LEMMA FinishRight ==
  ASSUME NEW w, NEW n, Right(w, n), NEW status \in {"completed", "failed", "killed"},
         status = "completed" => w.handled = Len(w.posted) /\ w.open = {}
  PROVE  Right(finish(w, status), n) /\ Still(w, finish(w, status))
<1> DEFINE stops == [c \in CallIds |-> abortAgent(w, c).call[c]]
           s == [w EXCEPT !.settled = TRUE, !.status = status, !.call = stops]
           r == releasePause(s)
           v == drain(r)
<1>1. w \in Runs /\ Queued(w) /\ Sound(w, n) /\ DOMAIN w.call = CallIds
  BY DEF Right, Runs
<1>2. CASE w.settled
  <2>1. finish(w, status) = w
    BY <1>2 DEF finish
  <2> QED BY <1>1, <2>1 DEF Right, Still
<1>3. CASE ~w.settled
  <2>1. finish(w, status) = v
    BY <1>3 DEF finish
  <2>2. ASSUME NEW c \in CallIds
        PROVE  /\ stops[c] \in Calls /\ stops[c].pc = w.call[c].pc /\ stops[c].index = w.call[c].index
               /\ stops[c].row = w.call[c].row /\ stops[c].answer = w.call[c].answer
    <3>1. w.call[c] \in Calls
      BY <1>1 DEF Runs
    <3>2. PICK b \in BOOLEAN : b = (w.call[c].stop \/ w.call[c].pc = "child")
      OBVIOUS
    <3>3. abortAgent(w, c) = [w EXCEPT !.call[c].stop = b]
      BY <3>2, Zenon DEF abortAgent
    <3>4. stops[c] = [w.call[c] EXCEPT !.stop = b]
      BY <1>1, <3>3 DEF Runs
    <3> HIDE DEF stops
    <3> QED BY <3>1, <3>4 DEF Calls
  <2>3. stops \in [CallIds -> Calls]
    BY <2>2
  <2> HIDE DEF stops
  <2>4. s \in Runs
    BY <1>1, <2>3 DEF Runs
  <2>5. /\ s.posted = w.posted /\ s.handled = w.handled /\ s.count = w.count /\ s.intact = w.intact
        /\ s.open = w.open /\ s.settled /\ s.status = status /\ s.call = stops
        /\ s.ready = w.ready /\ s.held = w.held /\ s.waiters = w.waiters
    BY <1>1 DEF Runs
  <2> HIDE DEF s
  <2>6. Listed(w.ready) \subseteq CallIds /\ Listed(w.held) \subseteq CallIds /\ Listed(w.waiters) \subseteq CallIds
    BY <1>1, ElementOfSeq DEF Runs, Listed
  <2>7. Queued(s)
    BY <1>1, <2>2, <2>5, <2>6 DEF Queued
  <2>8. Taken(w) /\ Rowed(w) /\ Texted(w, n) /\ Prefixed(w) /\ Accounted(w)
    BY <1>1 DEF Sound
  <2>9. Taken(s) /\ Rowed(s) /\ Texted(s, n)
    BY <2>2, <2>5, <2>8 DEF Taken, Rowed, Texted
  <2>10. Prefixed(s)
    <3>1. \A c \in CallIds : s.call[c].index = w.call[c].index /\ s.call[c].row = w.call[c].row
      BY <2>2, <2>5
    <3> QED BY <2>5, <2>8, <3>1 DEF Prefixed
  <2>11. Accounted(s)
    <3>1. Len(w.posted) <= MaxCalls /\ Len(w.posted) \in Nat
      BY <1>1, <2>8, LenProperties DEF Taken, Runs
    <3>2. 1..Len(w.posted) \subseteq CallIds
      BY <3>1, CallsAssumption DEF CallIds
    <3>3. ASSUME status = "completed", NEW c \in 1..Len(w.posted), w.posted[c].kind # "load"
          PROVE  s.call[c].answer # Unanswered
      <4>1. w.call[c].answer # Unanswered
        BY <1>3, <2>8, <3>3 DEF Accounted
      <4> QED BY <2>2, <2>5, <3>2, <3>3, <4>1
    <3> QED BY <2>5, <3>3 DEF Accounted
  <2>12. Sound(s, n)
    BY <2>9, <2>10, <2>11 DEF Sound
  <2>13. r \in Runs /\ Queued(r) /\ Goes(s, r) /\ Still(s, r)
    BY <2>4, <2>7, ReleasePauseGoes
  <2> HIDE DEF r
  <2>14. v \in Runs /\ Queued(v) /\ Goes(r, v) /\ Still(r, v)
    BY <2>13, DrainGoes
  <2> HIDE DEF v
  <2>15. Sound(r, n)
    BY <2>4, <2>12, <2>13, GoesSound
  <2>16. Sound(v, n)
    BY <2>13, <2>14, <2>15, GoesSound
  <2>17. Still(w, v)
    BY <2>2, <2>5, <2>13, <2>14 DEF Still, Started
  <2> QED BY <2>1, <2>14, <2>16, <2>17 DEF Right
<1> QED BY <1>2, <1>3

\* A run that has just begun.
LEMMA FreshRight ==
  ASSUME NEW entries \in Seq(Entries), NEW n
  PROVE  Right(freshRun(entries), n) /\ \A c \in CallIds : ~Started(freshRun(entries), c)
<1> DEFINE none == [c \in CallIds |-> NoCall]
           v == freshRun(entries)
<1>1. /\ NoCall \in Calls /\ NoCall.pc = "none" /\ NoCall.row = "none" /\ NoCall.index = NoAgent
      /\ NoCall.answer = Unanswered
  BY DEF NoCall, Calls, Pcs, Rows, NoAgent, Answers
<1>2. none \in [CallIds -> Calls] /\ \A c \in CallIds : none[c] = NoCall
  BY <1>1
<1>3. PICK b \in BOOLEAN : b = (entries # <<>> /\ ~\E k \in 1..Len(entries) : entries[k].resumed)
  OBVIOUS
<1>4. PICK d \in [Labels -> Int] : d = [l \in Labels |-> NoAgent]
  <2>1. [l \in Labels |-> NoAgent] \in [Labels -> Int]
    BY DEF NoAgent
  <2> QED BY <2>1
<1> HIDE DEF none
<1>5. v = [ posted |-> <<>>, handled |-> 0, ending |-> "no",
            paused |-> FALSE, aborted |-> FALSE, settled |-> FALSE, status |-> "none",
            active |-> 0, waiters |-> <<>>, held |-> <<>>, ready |-> <<>>,
            count |-> 0, open |-> {}, done |-> d, entries |-> entries,
            intact |-> b, journal |-> <<>>, call |-> none ]
  BY <1>3, <1>4, Zenon DEF freshRun, none
<1>6. <<>> \in Seq(CallIds) /\ <<>> \in Seq(Payloads) /\ <<>> \in Seq(Entries) /\ Len(<<>>) = 0
  BY EmptySeq
<1> HIDE DEF v
<1>7. v \in Runs
  BY <1>2, <1>5, <1>6 DEF Runs
<1>8. /\ v.posted = <<>> /\ v.handled = 0 /\ ~v.settled /\ v.status = "none" /\ v.waiters = <<>> /\ v.held = <<>>
      /\ v.ready = <<>> /\ v.count = 0 /\ \A c \in CallIds : v.call[c] = NoCall
  BY <1>2, <1>5
<1>9. Queued(v)
  BY <1>6, <1>8 DEF Queued, Listed, Distinct
<1>10. Taken(v) /\ Rowed(v) /\ Texted(v, n)
  BY <1>1, <1>6, <1>8, PlainAnswers, CallsAssumption DEF Taken, Rowed, Texted
<1>11. Prefixed(v) /\ Accounted(v)
  BY <1>1, <1>6, <1>8 DEF Prefixed, Accounted
<1>12. \A c \in CallIds : ~Started(v, c)
  BY <1>1, <1>8 DEF Started
<1> QED BY <1>7, <1>9, <1>10, <1>11, <1>12 DEF v, Right, Sound

\* What can be replayed at a position is a text of that very call.
LEMMA ReplayGenuine ==
  ASSUME NEW w \in Runs, NEW i \in Int, NEW p, NEW e \in replayAt(w, i, p)
  PROVE  e.text \in Answers /\ Genuine(e.text, i, p) /\ w.intact
<1>1. PICK k \in 1..Len(w.entries) : e = w.entries[k]
  BY DEF replayAt
<1>2. e \in Entries
  <2>1. w.entries \in Seq(Entries)
    BY DEF Runs
  <2> QED BY <1>1, <2>1, ElementOfSeq
<1>3. e.index = i /\ e.key = p /\ e.ok /\ w.intact
  BY DEF replayAt
<1> QED BY <1>2, <1>3 DEF Entries

\* The host takes a call: the four ways it may go.
LEMMA HandleAgentRight ==
  ASSUME NEW u, NEW n, Right(u, n), ~u.settled, u.handled < Len(u.posted),
         NEW c, c = u.handled + 1
  PROVE  LET w == [u EXCEPT !.handled = c]
         IN  /\ Right(handleAgent(w, c), n) /\ Still(u, handleAgent(w, c))
             /\ u.posted[c].kind = "load" =>
                  LET v == [w EXCEPT !.call[c].pc = "loading"] IN Right(v, n) /\ Still(u, v)
<1> DEFINE w == [u EXCEPT !.handled = c]
           p == w.posted[c]
           i == w.count
           hits == replayAt(w, i, p)
<1>1. u \in Runs /\ Queued(u) /\ Sound(u, n) /\ Taken(u) /\ Rowed(u) /\ Prefixed(u)
  BY DEF Right, Sound
<1>2. c \in CallIds /\ c \in Int /\ c <= Len(u.posted)
  <2>1. u.handled \in Int /\ u.handled >= 0 /\ Len(u.posted) \in Nat /\ Len(u.posted) <= MaxCalls
    BY <1>1, LenProperties DEF Taken, Runs
  <2> QED BY <2>1, CallsAssumption DEF CallIds
<1>3. w \in Runs
  BY <1>1, <1>2 DEF Runs
<1>4. /\ w.posted = u.posted /\ w.handled = c /\ w.count = u.count /\ w.intact = u.intact
      /\ w.open = u.open /\ w.settled = u.settled /\ w.status = u.status
      /\ w.call = u.call /\ w.ready = u.ready /\ w.held = u.held /\ w.waiters = u.waiters
  BY <1>1 DEF Runs
<1> HIDE DEF w
<1>5. u.call[c] \in Calls /\ u.call[c].pc = "none" /\ u.call[c].row = "none" /\ u.call[c].index = NoAgent
      /\ u.call[c].answer = Unanswered /\ DOMAIN u.call = CallIds
  <2>1. c > u.handled
    BY <1>1 DEF Runs
  <2>2. u.call[c].pc = "none"
    BY <1>1, <1>2, <2>1 DEF Taken
  <2> QED BY <1>1, <1>2, <2>2 DEF Taken, Rowed, Runs
<1>6. Queued(w) /\ Loose(w, c)
  BY <1>1, <1>4, <1>5 DEF Queued, Loose
<1>7. ASSUME NEW v, v \in Runs, Queued(v), Takes(u, v, c, n), ~Started(v, c)
      PROVE  Right(v, n) /\ Still(u, v)
  <2>1. Sound(v, n)
    BY <1>1, <1>7, TakesSound
  <2>2. Still(u, v)
    BY <1>7 DEF Still, Started, Takes
  <2> QED BY <1>7, <2>1, <2>2 DEF Right
<1>8. ASSUME u.posted[c].kind = "load"
      PROVE  LET v == [w EXCEPT !.call[c].pc = "loading"] IN Right(v, n) /\ Still(u, v)
  <2> DEFINE r == [w.call[c] EXCEPT !.pc = "loading"]
             v == [w EXCEPT !.call = [w.call EXCEPT ![c] = r]]
  <2>1. r \in Calls /\ r.pc = "loading" /\ r.row = "none" /\ r.index = NoAgent /\ r.answer = Unanswered
    BY <1>4, <1>5 DEF Calls, Pcs
  <2>2. [w EXCEPT !.call[c].pc = "loading"] = v
    OBVIOUS
  <2> HIDE DEF r
  <2>3. /\ v \in Runs /\ Queued(v) /\ SameBooks(w, v)
        /\ v.call[c] = r /\ \A d \in CallIds : d # c => v.call[d] = w.call[d]
    BY <1>2, <1>3, <1>6, <2>1, Relabelled, SMTT(30), ZenonT(40)
  <2> HIDE DEF v
  <2>4. Takes(u, v, c, n)
    BY <1>2, <1>4, <1>8, <2>1, <2>3 DEF Takes, SameBooks
  <2>5. ~Started(v, c)
    BY <2>1, <2>3 DEF Started
  <2> QED BY <1>7, <2>2, <2>3, <2>4, <2>5
<1>9. ASSUME Refused(w, p)
      PROVE  Right(handleAgent(w, c), n) /\ Still(u, handleAgent(w, c))
  <2> DEFINE v == respond(w, c, FatalAnswer)
  <2>1. handleAgent(w, c) = v
    BY <1>9 DEF handleAgent
  <2>2. FatalAnswer \in Answers
    BY DEF Answers
  <2> HIDE DEF v
  <2>3. Responded(w, v, c, FatalAnswer)
    BY <1>2, <1>3, <1>6, <2>2, RespondFacts DEF v
  <2>4. Takes(u, v, c, n)
    BY <1>2, <1>4, <1>5, <2>3 DEF Takes, Responded
  <2>5. v \in Runs /\ Queued(v) /\ ~Started(v, c)
    BY <2>3 DEF Responded, Started
  <2> QED BY <1>7, <2>1, <2>4, <2>5
<1>10. ASSUME ~Refused(w, p)
       PROVE  Right(handleAgent(w, c), n) /\ Still(u, handleAgent(w, c))
  <2>1. PICK b \in BOOLEAN : b = (hits # {})
    OBVIOUS
  <2>2. PICK k \in Int : k = IF p.kind = "resume" THEN w.done[p.label] ELSE i
    <3>1. p \in Payloads
      <4>1. w.posted \in Seq(Payloads) /\ c \in 1..Len(w.posted)
        BY <1>2, <1>3, <1>4 DEF Runs, CallIds
      <4> QED BY <4>1, ElementOfSeq
    <3>2. w.done[p.label] \in Int /\ i \in Int
      BY <1>3, <3>1 DEF Runs, Labels
    <3> QED BY <3>2
  <2> DEFINE r == [w.call[c] EXCEPT !.index = i, !.row = "queued", !.child = k]
             x == [w EXCEPT !.count = w.count + 1, !.open = w.open \cup {c}, !.intact = b,
                            !.call = [w.call EXCEPT ![c] = r]]
             row == [w EXCEPT !.count = @ + 1, !.open = @ \cup {c}, !.intact = hits # {},
                              !.call[c].index = i, !.call[c].row = "queued",
                              !.call[c].child = IF p.kind = "resume" THEN w.done[p.label] ELSE i]
  <2>3. row = x
    <3>1. row = [w EXCEPT !.count = @ + 1, !.open = @ \cup {c}, !.intact = b,
                          !.call[c].index = i, !.call[c].row = "queued", !.call[c].child = k]
      BY <2>1, <2>2, Zenon
    <3> HIDE DEF row, hits
    <3>2. row = [w EXCEPT !.count = w.count + 1, !.open = w.open \cup {c}, !.intact = b,
                          !.call[c].index = i, !.call[c].row = "queued", !.call[c].child = k]
      BY <3>1, Zenon
    <3> HIDE DEF i
    <3>3. [w EXCEPT !.count = w.count + 1, !.open = w.open \cup {c}, !.intact = b,
                    !.call[c].index = i, !.call[c].row = "queued", !.call[c].child = k] = x
      <4>1. DOMAIN w.call = CallIds
        BY <1>4, <1>5
      <4>2. [w.call EXCEPT ![c].index = i, ![c].row = "queued", ![c].child = k] = [w.call EXCEPT ![c] = r]
        BY <1>2, <4>1
      <4> HIDE DEF r
      <4> QED BY <1>2, <1>3, <4>1, <4>2, ZenonT(40) DEF Runs
    <3> QED BY <3>2, <3>3, Zenon
  <2> HIDE DEF row
  <2>4. i \in Int /\ w.count + 1 \in Int
    BY <1>3 DEF Runs
  <2>5. r \in Calls /\ r.pc = "none" /\ r.row = "queued" /\ r.index = u.count /\ r.answer = Unanswered
    BY <1>4, <1>5, <2>4 DEF Calls, Rows
  <2> HIDE DEF r
  <2>6. x \in Runs
    <3>1. [w.call EXCEPT ![c] = r] \in [CallIds -> Calls] /\ w.open \cup {c} \in SUBSET CallIds
      BY <1>2, <1>3, <2>5 DEF Runs
    <3> QED BY <1>3, <2>4, <3>1 DEF Runs
  <2>7. /\ x.posted = u.posted /\ x.handled = c /\ x.count = u.count + 1 /\ x.intact = b
        /\ x.open = u.open \cup {c} /\ x.settled = u.settled /\ x.status = u.status
        /\ x.ready = u.ready /\ x.held = u.held /\ x.waiters = u.waiters
        /\ x.call[c] = r /\ \A d \in CallIds : d # c => x.call[d] = u.call[d]
    BY <1>2, <1>3, <1>4, <1>5 DEF Runs
  <2> HIDE DEF x
  <2>8. Listed(u.ready) \subseteq CallIds /\ Listed(u.held) \subseteq CallIds /\ Listed(u.waiters) \subseteq CallIds
    BY <1>1, ElementOfSeq DEF Runs, Listed
  <2>9. Queued(x) /\ Loose(x, c)
    BY <1>1, <1>4, <1>6, <2>7, <2>8 DEF Queued, Loose
  <2>10. CASE hits = {}
    <3> DEFINE v == pauseGate(x, c)
    <3>1. handleAgent(w, c) = v
      BY <1>10, <2>3, <2>10 DEF handleAgent, row
    <3> HIDE DEF v
    <3>2. PICK pc \in {"pastGate", "held"} : Parked(x, v, c, pc)
      BY <1>2, <2>6, <2>9, GateParks DEF v
    <3>3. v \in Runs /\ Queued(v) /\ SameBooks(x, v) /\ v.call = [x.call EXCEPT ![c].pc = pc]
      BY <3>2 DEF Parked
    <3>4. DOMAIN x.call = CallIds /\ x.call[c] \in Calls
      BY <1>2, <2>6 DEF Runs
    <3>5. /\ v.call[c].pc = pc /\ v.call[c].row = "queued" /\ v.call[c].index = u.count /\ v.call[c].answer = Unanswered
          /\ \A d \in CallIds : d # c => v.call[d] = u.call[d]
      BY <1>2, <2>5, <2>7, <3>3, <3>4 DEF Calls
    <3>6. Takes(u, v, c, n)
      BY <1>2, <2>1, <2>7, <2>10, <3>3, <3>5 DEF Takes, SameBooks
    <3>7. ~Started(v, c)
      BY <3>5 DEF Started
    <3> QED BY <1>7, <3>1, <3>3, <3>6, <3>7
  <2>11. CASE hits # {}
    <3> DEFINE e == CHOOSE e \in hits : TRUE
               q == [x.call[c] EXCEPT !.row = "cached"]
               y == [x EXCEPT !.call = [x.call EXCEPT ![c] = q]]
               v == respond(recordJournal(y, c, TRUE, e.text), c, e.text)
    <3>1. handleAgent(w, c) = v
      <4>1. y = [x EXCEPT !.call[c].row = "cached"]
        OBVIOUS
      <4> QED BY <1>10, <2>3, <2>11, <4>1 DEF handleAgent, row
    <3>2. e \in replayAt(w, i, p)
      BY <2>11
    <3>3. e.text \in Answers /\ Genuine(e.text, u.count, u.posted[c]) /\ u.intact
      BY <1>3, <1>4, <2>4, <3>2, ReplayGenuine
    <3> HIDE DEF e, hits
    <3>4. q \in Calls /\ q.pc = "none" /\ q.row = "cached" /\ q.index = u.count
      BY <2>5, <2>7 DEF Calls, Rows
    <3> HIDE DEF q
    <3>5. /\ y \in Runs /\ Queued(y) /\ SameBooks(x, y) /\ Loose(y, c)
          /\ y.call[c] = q /\ \A d \in CallIds : d # c => y.call[d] = x.call[d]
      <4>1. c \in CallIds /\ q \in Calls /\ x \in Runs /\ Queued(x) /\ Loose(x, c)
        BY <1>2, <2>6, <2>9, <3>4
      <4> QED BY <4>1, Relabelled
    <3> HIDE DEF y, v
    <3>6. c <= Len(y.posted) /\ Genuine(e.text, y.call[c].index, y.posted[c])
      BY <1>2, <2>7, <3>3, <3>4, <3>5 DEF SameBooks
    <3>7. Responded(y, v, c, e.text)
      BY <1>2, <3>3, <3>5, <3>6, JournalledFacts DEF v
    <3>8. Takes(u, v, c, n)
      <4>1. /\ v.posted = u.posted /\ v.handled = c /\ v.settled = u.settled /\ v.status = u.status
            /\ v.count = u.count + 1 /\ v.open = (u.open \cup {c}) \ {c}
            /\ v.call[c].pc = "over" /\ v.call[c].index = u.count /\ v.call[c].row = "cached"
            /\ v.call[c].answer = e.text /\ \A d \in CallIds : d # c => v.call[d] = u.call[d]
        BY <2>7, <3>4, <3>5, <3>7 DEF Responded, SameBooks
      <4>2. (u.open \cup {c}) \ {c} = u.open \ {c}
        OBVIOUS
      <4> QED BY <1>2, <3>3, <4>1, <4>2 DEF Takes
    <3>9. v \in Runs /\ Queued(v) /\ ~Started(v, c)
      BY <3>7 DEF Responded, Started
    <3> QED BY <1>7, <3>1, <3>8, <3>9
  <2> QED BY <2>10, <2>11
<1> QED BY <1>8, <1>9, <1>10 DEF w

-----------------------------------------------------------------------------
(* Every step keeps the run right.                                         *)

RunInv == Right(wf, RunNumber) /\ files \in Seq(Seq(Entries))

\* The step leaves the run right, and starts no child in a pause.
Kept == Right(wf', RunNumber) /\ (wf.paused => Still(wf, wf'))

\* A change of what no property looks at.
LEMMA AsideRight ==
  ASSUME NEW w, NEW v \in Runs, NEW n, Right(w, n), SameBooks(w, v), v.call = w.call,
         v.ready = w.ready, v.held = w.held, v.waiters = w.waiters
  PROVE  Right(v, n) /\ Still(w, v) /\ \A c \in CallIds : Loose(w, c) => Loose(v, c)
<1>1. w \in Runs /\ Queued(w) /\ Sound(w, n)
  BY DEF Right
<1>2. Goes(w, v) /\ Still(w, v)
  BY DEF Goes, Moves, Still, Started, Underway
<1>3. Queued(v) /\ \A c \in CallIds : Loose(w, c) => Loose(v, c)
  BY <1>1 DEF Queued, Loose
<1>4. Sound(v, n)
  BY <1>1, <1>2, GoesSound
<1> QED BY <1>2, <1>3, <1>4 DEF Right

\* What is at no queue's pc waits nowhere.
LEMMA LooseElsewhere ==
  ASSUME NEW w, Queued(w), NEW c \in CallIds, w.call[c].pc \notin {"pastGate", "acquired", "held", "acquiring"}
  PROVE  Loose(w, c)
BY DEF Queued, Loose

\* One call changes, neither its answer nor whether it is underway.
LEMMA RelabelRight ==
  ASSUME NEW w, NEW n, Right(w, n), NEW c \in CallIds, NEW r \in Calls,
         Underway(w, c), r.pc \notin {"none", "over"}, r.pc = w.call[c].pc \/ Loose(w, c),
         r.index = w.call[c].index, r.answer = w.call[c].answer, r.row = w.call[c].row
  PROVE  LET v == [w EXCEPT !.call = [w.call EXCEPT ![c] = r]]
         IN  /\ Right(v, n) /\ (r.pc = w.call[c].pc \/ Started(w, c) => Still(w, v))
             /\ \A d \in CallIds : Loose(w, d) => Loose(v, d)
             /\ v.held = w.held /\ v.call[c] = r /\ v \in Runs
<1> DEFINE v == [w EXCEPT !.call = [w.call EXCEPT ![c] = r]]
<1>1. w \in Runs /\ Queued(w) /\ Sound(w, n)
  BY DEF Right
<1>2. v.held = w.held
  BY <1>1 DEF Runs
<1>3. /\ v \in Runs /\ Queued(v) /\ SameBooks(w, v)
      /\ v.call[c] = r /\ \A d \in CallIds : d # c => v.call[d] = w.call[d]
      /\ \A d \in CallIds : Loose(w, d) => Loose(v, d)
  BY <1>1, Relabelled
<1> HIDE DEF v
<1>4. Goes(w, v)
  BY <1>3 DEF Goes, Moves, Underway
<1>5. Sound(v, n)
  BY <1>1, <1>3, <1>4, GoesSound
<1>6. r.pc = w.call[c].pc \/ Started(w, c) => Still(w, v)
  BY <1>3 DEF Still, Started
<1> QED BY <1>2, <1>3, <1>5, <1>6 DEF Right, v

\* Entries read from a journal are entries.
LEMMA ReadEntries ==
  ASSUME NEW file \in Seq(Entries), NEW s \in readJournals(file)
  PROVE  s \in Seq(Entries)
<1>1. PICK n \in 0..Len(file) : s \in [1..n -> Range(file)]
  BY DEF readJournals, BoundedSeq, SeqOf
<1>2. Range(file) \subseteq Entries
  BY ElementOfSeq DEF Range
<1>3. n \in Nat
  BY LenProperties
<1> QED BY <1>1, <1>2, <1>3

\* A run starts: a fresh one, with the entries of an earlier one.
LEMMA StartRunKept ==
  ASSUME RunInv, StartRun PROVE Kept /\ files' = files
<1>1. PICK from \in ResumeTargets :
        \E entries \in (IF from = 0 THEN {<<>>} ELSE readJournals(files[from])) : wf' = freshRun(entries)
  BY DEF StartRun
<1>2. PICK entries \in (IF from = 0 THEN {<<>>} ELSE readJournals(files[from])) : wf' = freshRun(entries)
  BY <1>1
<1>3. entries \in Seq(Entries)
  <2>1. CASE from = 0
    BY <1>2, <2>1, EmptySeq
  <2>2. CASE from # 0
    <3>1. files \in Seq(Seq(Entries)) /\ Len(files) \in Nat
      BY LenProperties DEF RunInv
    <3>2. from \in 1..Len(files)
      BY <1>1, <2>2, <3>1 DEF ResumeTargets
    <3>3. files[from] \in Seq(Entries)
      BY <3>1, <3>2, ElementOfSeq
    <3> QED BY <1>2, <2>2, <3>3, ReadEntries
  <2> QED BY <2>1, <2>2
<1>4. Right(wf', RunNumber) /\ \A c \in CallIds : ~Started(wf', c)
  BY <1>2, <1>3, FreshRight
<1>5. Still(wf, wf')
  BY <1>4 DEF Still
<1> QED BY <1>4, <1>5 DEF Kept, StartRun

\* The script makes a call: nothing is said of it until it is taken.
LEMMA CallHostKept ==
  ASSUME RunInv, NEW p \in Payloads, callHost(p) PROVE Kept /\ files' = files
<1> DEFINE n == RunNumber
<1>1. wf \in Runs /\ Queued(wf) /\ Sound(wf, n)
  BY DEF RunInv, Right
<1> HIDE DEF n
<1>2. /\ ~wf.settled /\ Len(wf.posted) < MaxCalls /\ wf.handled = Len(wf.posted)
      /\ wf' = [wf EXCEPT !.posted = Append(wf.posted, p)] /\ files' = files
  BY DEF callHost, wfOnly
<1> DEFINE posted == Append(wf.posted, p)
<1>3. /\ posted \in Seq(Payloads) /\ Len(posted) = Len(wf.posted) + 1 /\ Len(wf.posted) \in Nat
      /\ \A k \in 1..Len(wf.posted) : posted[k] = wf.posted[k]
  BY <1>1, AppendProperties, LenProperties DEF Runs
<1> HIDE DEF posted
<1> DEFINE v == [wf EXCEPT !.posted = posted]
<1>4. v \in Runs
  BY <1>1, <1>3 DEF Runs
<1>5. /\ v.posted = posted /\ v.handled = wf.handled /\ v.call = wf.call /\ v.count = wf.count
      /\ v.intact = wf.intact /\ v.settled = wf.settled /\ v.status = wf.status /\ v.open = wf.open
      /\ v.ready = wf.ready /\ v.held = wf.held /\ v.waiters = wf.waiters
  BY <1>1 DEF Runs
<1>6. wf' = v
  BY <1>2 DEF posted
<1> HIDE DEF v
<1>7. Taken(wf) /\ Rowed(wf) /\ Texted(wf, n) /\ Prefixed(wf) /\ Accounted(wf)
  BY <1>1 DEF Sound
<1>8. Queued(v)
  BY <1>1, <1>5 DEF Queued
<1>9. Taken(v)
  BY <1>2, <1>3, <1>5, <1>7, CallsAssumption DEF Taken
<1>10. Rowed(v)
  BY <1>5, <1>7 DEF Rowed
<1>11. Texted(v, n)
  <2> SUFFICES ASSUME NEW c \in CallIds, v.call[c].answer.tag = "text"
               PROVE  /\ Genuine(v.call[c].answer, v.call[c].index, v.posted[c])
                      /\ v.call[c].answer.by # n => v.call[c].row = "cached"
    BY DEF Texted
  <2>1. wf.call[c].pc # "none"
    BY <1>5, <1>7, PlainAnswers DEF Rowed
  <2>2. c \in 1..Len(wf.posted)
    BY <1>2, <1>3, <1>7, <2>1 DEF Taken, CallIds
  <2> QED BY <1>3, <1>5, <1>7, <2>2 DEF Texted
<1>12. Prefixed(v)
  BY <1>5, <1>7 DEF Prefixed
<1>13. Accounted(v)
  <2>1. wf.status = "none"
    BY <1>2, <1>7 DEF Accounted
  <2>2. \A c \in 1..wf.handled : posted[c] = wf.posted[c]
    BY <1>2, <1>3
  <2> QED BY <1>2, <1>5, <1>7, <2>1, <2>2 DEF Accounted
<1>14. Still(wf, v)
  BY <1>5 DEF Still, Started
<1> QED BY <1>2, <1>4, <1>6, <1>8, <1>9, <1>10, <1>11, <1>12, <1>13, <1>14 DEF Kept, Right, Sound, n

\* The script ends: the host has not heard of it yet.
LEMMA ScriptEndsKept ==
  ASSUME RunInv, ScriptEnds PROVE Kept /\ files' = files
<1> DEFINE n == RunNumber
<1>1. PICK e \in {"complete", "error"} : wf' = [wf EXCEPT !.ending = e]
  BY DEF ScriptEnds
<1>2. files' = files
  BY DEF ScriptEnds, wfOnly
<1>3. wf \in Runs
  BY DEF RunInv, Right
<1>4. /\ wf' \in Runs /\ SameBooks(wf, wf') /\ wf'.call = wf.call
      /\ wf'.ready = wf.ready /\ wf'.held = wf.held /\ wf'.waiters = wf.waiters
  BY <1>1, <1>3 DEF Runs, SameBooks
<1>5. Right(wf', n) /\ Still(wf, wf')
  BY <1>4, AsideRight DEF RunInv
<1> QED BY <1>2, <1>5 DEF Kept

\* The host takes the next call.
LEMMA HandleCallKept ==
  ASSUME RunInv, HandleCall PROVE Kept /\ files' = files
<1> DEFINE n == RunNumber
           c == wf.handled + 1
           w == [wf EXCEPT !.handled = c]
<1>1. ~wf.settled /\ wf.handled < Len(wf.posted) /\ Right(wf, n) /\ files' = files
  BY DEF HandleCall, RunInv, wfOnly
<1>2. wf' = IF wf.posted[c].kind = "load" THEN [w EXCEPT !.call[c].pc = "loading"] ELSE handleAgent(w, c)
  BY DEF HandleCall
<1> HIDE DEF n
<1>3. /\ Right(handleAgent(w, c), n) /\ Still(wf, handleAgent(w, c))
      /\ wf.posted[c].kind = "load" =>
           LET v == [w EXCEPT !.call[c].pc = "loading"] IN Right(v, n) /\ Still(wf, v)
  BY <1>1, HandleAgentRight
<1> HIDE DEF c, w
<1>4. Right(wf', n) /\ Still(wf, wf')
  BY <1>2, <1>3
<1> QED BY <1>1, <1>4 DEF Kept, n

\* The script's end is handled when every call was taken.
LEMMA HandleEndingKept ==
  ASSUME RunInv, HandleEnding PROVE Kept /\ files' = files
<1> DEFINE status == endingStatus(wf)
<1>1. status \in {"completed", "failed"} /\ (status = "completed" => wf.open = {})
  BY DEF endingStatus
<1>2. wf.handled = Len(wf.posted) /\ wf' = finish(wf, status) /\ files' = files
  BY DEF HandleEnding, wfOnly
<1> HIDE DEF status
<1>3. Right(wf', RunNumber) /\ Still(wf, wf')
  BY <1>1, <1>2, FinishRight DEF RunInv
<1> QED BY <1>2, <1>3 DEF Kept

\* A workflow's source is read, or not.
LEMMA LoadEndsKept ==
  ASSUME RunInv, NEW c \in CallIds, LoadEnds(c) PROVE Kept /\ files' = files
<1> DEFINE n == RunNumber
<1>1. PICK a \in {BodyAnswer, ErrorAnswer} : wf' = respond(wf, c, a)
  BY DEF LoadEnds
<1>2. wf.call[c].pc = "loading" /\ files' = files
  BY DEF LoadEnds, wfOnly
<1>3. wf \in Runs /\ Queued(wf) /\ Sound(wf, n)
  BY DEF RunInv, Right
<1> HIDE DEF n
<1>4. Loose(wf, c) /\ Underway(wf, c)
  BY <1>2, <1>3, LooseElsewhere DEF Underway
<1>5. Responded(wf, wf', c, a)
  BY <1>1, <1>3, <1>4, RespondFacts DEF Answers
<1>6. wf.call[c].row \notin {"done", "cached"}
  BY <1>3, <1>4, UnderwayPlain DEF Sound
<1>7. Closes(wf, wf', c, n)
  BY <1>5, <1>6 DEF Closes, Responded
<1>8. wf' \in Runs /\ Queued(wf')
  BY <1>5 DEF Responded
<1>9. Sound(wf', n)
  BY <1>3, <1>4, <1>7, <1>8, ClosesSound
<1>10. Still(wf, wf')
  BY <1>5 DEF Still, Started, Responded
<1> QED BY <1>2, <1>8, <1>9, <1>10 DEF Kept, Right, n

\* The continuation at the head of the queue runs.
LEMMA ContinueKept ==
  ASSUME RunInv, Continue PROVE Kept /\ files' = files
<1> DEFINE n == RunNumber
           c == Head(wf.ready)
           w == [wf EXCEPT !.ready = Tail(@)]
<1>1. wf' = IF wf.call[c].pc = "pastGate" THEN pastGate(w, c) ELSE acquired(w, c)
  BY DEF Continue
<1>2. wf.ready # <<>> /\ files' = files
  BY DEF Continue, wfOnly
<1>3. Right(wf, n) /\ wf \in Runs /\ Queued(wf)
  BY DEF RunInv, Right
<1>4. /\ c \in CallIds /\ Tail(wf.ready) \in Seq(CallIds) /\ c \in Listed(wf.ready)
      /\ Listed(Tail(wf.ready)) = Listed(wf.ready) \ {c}
      /\ Distinct(Tail(wf.ready))
  BY <1>2, <1>3, TailListed DEF Runs, Queued
<1> HIDE DEF c, n
<1>5. w \in Runs
  BY <1>3, <1>4 DEF Runs
<1>6. /\ SameBooks(wf, w) /\ w.call = wf.call /\ w.paused = wf.paused
      /\ w.ready = Tail(wf.ready) /\ w.held = wf.held /\ w.waiters = wf.waiters
  BY <1>3 DEF Runs, SameBooks
<1> HIDE DEF w
<1>7. Loose(w, c) /\ Underway(w, c) /\ Queued(w)
  BY <1>3, <1>4, <1>6 DEF Queued, Loose, Underway
<1>8. Goes(wf, w) /\ Still(wf, w)
  BY <1>6 DEF Goes, Moves, Still, Started, Underway
<1>9. Right(w, n)
  BY <1>3, <1>5, <1>7, <1>8, GoesSound DEF Right
<1>10. CASE wf.call[c].pc = "pastGate"
  <2>1. Right(wf', n) /\ Still(w, wf')
    BY <1>1, <1>4, <1>7, <1>9, <1>10, PastGateRight
  <2>2. Still(wf, wf')
    BY <1>8, <2>1 DEF Still
  <2> QED BY <1>2, <2>1, <2>2 DEF Kept, n
<1>11. CASE wf.call[c].pc # "pastGate"
  <2>1. Right(wf', n) /\ (w.paused => Still(w, wf'))
    BY <1>1, <1>4, <1>7, <1>9, <1>11, AcquiredRight
  <2>2. wf.paused => Still(wf, wf')
    BY <1>6, <1>8, <2>1 DEF Still
  <2> QED BY <1>2, <2>1, <2>2 DEF Kept, n
<1> QED BY <1>10, <1>11

\* The manager issued the child's id.
LEMMA ChildStartedKept ==
  ASSUME RunInv, NEW c \in CallIds, ChildStarted(c) PROVE Kept /\ files' = files
<1> DEFINE n == RunNumber
           r == [wf.call[c] EXCEPT !.pc = "child"]
<1>1. wf.call[c].pc = "starting" /\ wf' = [wf EXCEPT !.call = [wf.call EXCEPT ![c] = r]] /\ files' = files
  BY DEF ChildStarted, wfOnly
<1>2. Right(wf, n) /\ wf \in Runs /\ Queued(wf)
  BY DEF RunInv, Right
<1> HIDE DEF n
<1>3. Loose(wf, c) /\ Underway(wf, c) /\ Started(wf, c)
  BY <1>1, <1>2, LooseElsewhere DEF Underway, Started
<1>4. wf.call[c] \in Calls
  BY <1>2 DEF Runs
<1>5. /\ r \in Calls /\ r.pc = "child" /\ r.index = wf.call[c].index /\ r.answer = wf.call[c].answer
      /\ r.row = wf.call[c].row
  BY <1>4 DEF Calls, Pcs
<1> HIDE DEF r
<1>6. Right(wf', n) /\ Still(wf, wf')
  BY <1>1, <1>2, <1>3, <1>5, RelabelRight
<1> QED BY <1>1, <1>6 DEF Kept, n

\* An attempt ends, of a run that is wf but for the labels.
LEMMA AttemptKept ==
  ASSUME RunInv, NEW w, Right(w, RunNumber), Still(wf, w), NEW c \in CallIds, Started(w, c),
         NEW ok \in BOOLEAN, wf' = settleAttempt(w, c, ok), files' = files
  PROVE  Kept
<1>1. Queued(w) /\ RunNumber \in Nat
  BY LenProperties DEF RunInv, Right, RunNumber
<1>2. Loose(w, c) /\ Underway(w, c)
  BY <1>1, LooseElsewhere DEF Started, Underway
<1>3. Right(wf', RunNumber) /\ Still(w, wf')
  BY <1>1, <1>2, SettleRight
<1>4. Still(wf, wf')
  BY <1>3 DEF Still
<1> QED BY <1>3, <1>4 DEF Kept

\* A child ends, or goes to its gate.
LEMMA ChildEndsKept ==
  ASSUME RunInv, NEW c \in CallIds, ChildEnds(c) PROVE Kept /\ files' = files
<1> DEFINE n == RunNumber
           w == [wf EXCEPT !.done[wf.posted[c].label] = wf.call[c].child]
<1>1. /\ \/ /\ wf.call[c].pc \in {"starting", "child"}
            /\ wf' = settleAttempt(wf, c, FALSE)
         \/ /\ wf.call[c].pc = "child"
            /\ \/ wf' = settleAttempt(w, c, TRUE)
               \/ wf' = settleAttempt(w, c, FALSE)
               \/ wf' = [w EXCEPT !.call[c].pc = "gating"]
      /\ files' = files
  BY DEF ChildEnds, MaySucceed, wfOnly
<1>2. Right(wf, n) /\ wf \in Runs /\ Queued(wf) /\ Taken(wf) /\ wf.call[c] \in Calls
  BY DEF RunInv, Right, Sound, Runs
<1>3. Started(wf, c) /\ Underway(wf, c)
  BY <1>1 DEF Started, Underway
<1>4. Still(wf, wf)
  BY DEF Still
<1>5. w \in Runs
  <2>1. c \in 1..Len(wf.posted) /\ wf.posted \in Seq(Payloads)
    <3>1. c <= Len(wf.posted)
      BY <1>2, <1>3, TakenPosted
    <3> QED BY <1>2, <3>1, LenProperties DEF Runs, CallIds
  <2>2. wf.posted[c].label \in Labels
    <3>1. wf.posted[c] \in Payloads
      BY <2>1, ElementOfSeq
    <3> QED BY <3>1 DEF Labels
  <2>3. wf.call[c].child \in Int
    BY <1>2 DEF Calls
  <2>4. [wf.done EXCEPT ![wf.posted[c].label] = wf.call[c].child] \in [Labels -> Int]
    BY <1>2, <2>2, <2>3 DEF Runs
  <2> QED BY <1>2, <2>4 DEF Runs
<1>6. /\ SameBooks(wf, w) /\ w.call = wf.call
      /\ w.ready = wf.ready /\ w.held = wf.held /\ w.waiters = wf.waiters
  BY <1>2 DEF Runs, SameBooks
<1> HIDE DEF w
<1>7. Right(w, n) /\ Still(wf, w) /\ Started(w, c)
  BY <1>2, <1>3, <1>5, <1>6, AsideRight DEF Started
<1>8. CASE wf' = settleAttempt(wf, c, FALSE)
  BY <1>1, <1>2, <1>3, <1>4, <1>8, AttemptKept
<1>9. CASE \E ok \in BOOLEAN : wf' = settleAttempt(w, c, ok)
  BY <1>1, <1>7, <1>9, AttemptKept
<1>10. CASE wf' = [w EXCEPT !.call[c].pc = "gating"]
  <2> DEFINE r == [w.call[c] EXCEPT !.pc = "gating"]
  <2>1. wf' = [w EXCEPT !.call = [w.call EXCEPT ![c] = r]]
    BY <1>10
  <2>2. /\ r \in Calls /\ r.pc = "gating" /\ r.index = w.call[c].index /\ r.answer = w.call[c].answer
        /\ r.row = w.call[c].row
    BY <1>2, <1>6 DEF Calls, Pcs
  <2> HIDE DEF r
  <2>3. Loose(w, c) /\ Underway(w, c)
    BY <1>7, LooseElsewhere DEF Started, Underway, Right
  <2>4. Right(wf', n) /\ Still(w, wf')
    BY <1>7, <2>1, <2>2, <2>3, RelabelRight
  <2>5. Still(wf, wf')
    BY <1>7, <2>4 DEF Still
  <2> QED BY <1>1, <2>4, <2>5 DEF Kept
<1> QED BY <1>1, <1>8, <1>9, <1>10

\* A gate ends.
LEMMA GateEndsKept ==
  ASSUME RunInv, NEW c \in CallIds, GateEnds(c) PROVE Kept /\ files' = files
<1>1. PICK ok \in BOOLEAN : wf' = settleAttempt(wf, c, ok)
  BY DEF GateEnds
<1>2. Started(wf, c) /\ files' = files /\ Still(wf, wf)
  BY DEF GateEnds, wfOnly, Started, Still
<1> QED BY <1>1, <1>2, AttemptKept DEF RunInv

\* The pause key, and the end of the pause.
LEMMA PauseKept ==
  ASSUME RunInv, Pause \/ Resume PROVE Kept /\ files' = files
<1> DEFINE n == RunNumber
<1>1. Right(wf, n) /\ wf \in Runs /\ files' = files
  BY DEF RunInv, Right, Pause, Resume, Key
<1>2. PICK b \in BOOLEAN : LET v == [wf EXCEPT !.paused = b] IN wf' = v \/ wf' = releasePause(v)
  BY DEF Pause, Resume
<1> DEFINE v == [wf EXCEPT !.paused = b]
<1>3. /\ v \in Runs /\ SameBooks(wf, v) /\ v.call = wf.call
      /\ v.ready = wf.ready /\ v.held = wf.held /\ v.waiters = wf.waiters
  BY <1>1 DEF Runs, SameBooks
<1>4. wf' = v \/ wf' = releasePause(v)
  BY <1>2
<1> HIDE DEF v
<1>5. Right(v, n) /\ Still(wf, v)
  BY <1>1, <1>3, AsideRight
<1>6. CASE wf' = v
  BY <1>1, <1>5, <1>6 DEF Kept
<1>7. CASE wf' = releasePause(v)
  <2>1. wf' \in Runs /\ Queued(wf') /\ Goes(v, wf') /\ Still(v, wf')
    BY <1>5, <1>7, ReleasePauseGoes DEF Right
  <2>2. Sound(wf', n)
    BY <1>5, <2>1, GoesSound DEF Right
  <2>3. Still(wf, wf')
    BY <1>5, <2>1 DEF Still
  <2> QED BY <1>1, <2>1, <2>2, <2>3 DEF Kept, Right
<1> QED BY <1>4, <1>6, <1>7

\* A call is stopped, if its child can be reached.
LEMMA AbortRight ==
  ASSUME NEW w, NEW n, Right(w, n), NEW c \in CallIds, Underway(w, c)
  PROVE  Right(abortAgent(w, c), n) /\ Still(w, abortAgent(w, c))
<1>1. w \in Runs /\ w.call[c] \in Calls
  BY DEF Right, Runs
<1>2. PICK b \in BOOLEAN : b = (w.call[c].stop \/ w.call[c].pc = "child")
  OBVIOUS
<1> DEFINE r == [w.call[c] EXCEPT !.stop = b]
<1>3. abortAgent(w, c) = [w EXCEPT !.call[c].stop = b]
  BY <1>2, Zenon DEF abortAgent
<1>4. abortAgent(w, c) = [w EXCEPT !.call = [w.call EXCEPT ![c] = r]]
  BY <1>3
<1>5. /\ r \in Calls /\ r.pc = w.call[c].pc /\ r.index = w.call[c].index /\ r.answer = w.call[c].answer
      /\ r.row = w.call[c].row
  BY <1>1 DEF Calls
<1> HIDE DEF r
<1>6. r.pc \notin {"none", "over"}
  BY <1>5 DEF Underway
<1> QED BY <1>4, <1>5, <1>6, RelabelRight

\* The user's wish is noted at the call.
LEMMA IntentRight ==
  ASSUME NEW w, NEW n, Right(w, n), NEW c \in CallIds, Underway(w, c), NEW i \in {"skip", "retry"}
  PROVE  LET v == [w EXCEPT !.call[c].intent = i]
         IN  /\ Right(v, n) /\ Still(w, v) /\ Underway(v, c)
             /\ v.held = w.held /\ v.call[c].pc = w.call[c].pc
<1> DEFINE r == [w.call[c] EXCEPT !.intent = i]
           v == [w EXCEPT !.call[c].intent = i]
<1>1. w.call[c] \in Calls
  BY DEF Right, Runs
<1>2. v = [w EXCEPT !.call = [w.call EXCEPT ![c] = r]]
  OBVIOUS
<1>3. /\ r \in Calls /\ r.pc = w.call[c].pc /\ r.index = w.call[c].index /\ r.answer = w.call[c].answer
      /\ r.row = w.call[c].row
  BY <1>1 DEF Calls
<1> HIDE DEF r, v
<1>4. r.pc \notin {"none", "over"}
  BY <1>3 DEF Underway
<1>5. Right(v, n) /\ Still(w, v) /\ v.held = w.held /\ v.call[c] = r
  BY <1>2, <1>3, <1>4, RelabelRight
<1> QED BY <1>3, <1>4, <1>5 DEF v, Underway

\* A call that is held is woken.
LEMMA WakeRight ==
  ASSUME NEW w, NEW n, Right(w, n), NEW k \in 1..Len(w.held), NEW c \in CallIds, w.held[k] = c
  PROVE  LET v == continueAt([w EXCEPT !.held = RemoveAt(@, k)], c, "pastGate")
         IN  Right(v, n) /\ Still(w, v)
<1> DEFINE h == RemoveAt(w.held, k)
           x == [w EXCEPT !.held = h]
           v == continueAt(x, c, "pastGate")
<1>1. w \in Runs /\ Queued(w) /\ w.held \in Seq(CallIds)
  BY DEF Right, Runs
<1>2. h \in Seq(CallIds) /\ Listed(h) \subseteq Listed(w.held) \ {c} /\ Distinct(h)
  BY <1>1, RemovedListed DEF Queued
<1> HIDE DEF h
<1>3. x \in Runs
  BY <1>1, <1>2 DEF Runs
<1>4. /\ SameBooks(w, x) /\ x.call = w.call
      /\ x.ready = w.ready /\ x.held = h /\ x.waiters = w.waiters
  BY <1>1 DEF Runs, SameBooks
<1> HIDE DEF x, v
<1>5. w.call[c].pc = "held"
  BY <1>1 DEF Queued, Listed
<1>6. Queued(x) /\ Loose(x, c) /\ Underway(x, c)
  BY <1>1, <1>2, <1>4, <1>5 DEF Queued, Loose, Underway
<1>7. Goes(w, x) /\ Still(w, x)
  BY <1>4 DEF Goes, Moves, Still, Started, Underway
<1>8. Parked(x, v, c, "pastGate")
  BY <1>3, <1>6, ContinueParks DEF v
<1>9. Goes(x, v) /\ Still(x, v)
  BY <1>3, <1>6, <1>8, ParkedGoes
<1>10. v \in Runs /\ Queued(v)
  BY <1>8 DEF Parked
<1>11. Sound(x, n)
  BY <1>1, <1>3, <1>7, GoesSound DEF Right
<1>12. Sound(v, n)
  BY <1>3, <1>9, <1>10, <1>11, GoesSound
<1>13. Still(w, v)
  BY <1>7, <1>9 DEF Still
<1> QED BY <1>10, <1>12, <1>13 DEF Right, v, x, h

\* The skip key: a child is stopped, a held call is woken.
LEMMA SkipKept ==
  ASSUME RunInv, NEW c \in CallIds, Skip(c) PROVE Kept /\ files' = files
<1> DEFINE n == RunNumber
           w == [wf EXCEPT !.call[c].intent = "skip"]
<1>1. /\ \/ Started(w, c) /\ wf' = abortAgent(w, c)
         \/ w.call[c].pc = "acquiring" /\ wf' = w
         \/ \E k \in 1..Len(w.held) :
              /\ w.held[k] = c
              /\ wf' = continueAt([w EXCEPT !.held = RemoveAt(@, k)], c, "pastGate")
      /\ files' = files
  BY DEF Skip, Key
<1>2. Right(wf, n) /\ Underway(wf, c)
  BY DEF RunInv, Skip, Live, Underway
<1>3. Right(w, n) /\ Still(wf, w) /\ Underway(w, c)
  BY <1>2, IntentRight
<1> HIDE DEF w, n
<1>4. CASE wf' = abortAgent(w, c)
  <2>1. Right(wf', n) /\ Still(w, wf')
    BY <1>3, <1>4, AbortRight
  <2>2. Still(wf, wf')
    BY <1>3, <2>1 DEF Still
  <2> QED BY <1>1, <2>1, <2>2 DEF Kept, n
<1>5. CASE wf' = w
  BY <1>1, <1>3, <1>5 DEF Kept, n
<1>6. ASSUME NEW k \in 1..Len(w.held), w.held[k] = c,
             wf' = continueAt([w EXCEPT !.held = RemoveAt(@, k)], c, "pastGate")
      PROVE  Kept /\ files' = files
  <2>1. Right(wf', n) /\ Still(w, wf')
    BY <1>3, <1>6, WakeRight
  <2>2. Still(wf, wf')
    BY <1>3, <2>1 DEF Still
  <2> QED BY <1>1, <2>1, <2>2 DEF Kept, n
<1> QED BY <1>1, <1>4, <1>5, <1>6

\* The retry key.
LEMMA RetryKept ==
  ASSUME RunInv, NEW c \in CallIds, Retry(c) PROVE Kept /\ files' = files
<1> DEFINE n == RunNumber
           w == [wf EXCEPT !.call[c].intent = "retry"]
<1>1. wf' = abortAgent(w, c) /\ files' = files
  BY DEF Retry, Key
<1>2. Right(wf, n) /\ Underway(wf, c)
  BY DEF RunInv, Retry, Started, Underway
<1>3. Right(w, n) /\ Still(wf, w) /\ Underway(w, c)
  BY <1>2, IntentRight
<1> HIDE DEF w, n
<1>4. Right(wf', n) /\ Still(w, wf')
  BY <1>1, <1>3, AbortRight
<1>5. Still(wf, wf')
  BY <1>3, <1>4 DEF Still
<1> QED BY <1>1, <1>4, <1>5 DEF Kept, n

\* The run is killed: it ends, and the children that are starting are stopped too.
LEMMA KillKept ==
  ASSUME RunInv, Kill PROVE Kept /\ files' = files
<1> DEFINE n == RunNumber
           x == [wf EXCEPT !.aborted = TRUE]
           w == finish(x, "killed")
           stops == [c \in CallIds |-> [w.call[c] EXCEPT !.stop = @ \/ Started(w, c)]]
<1>1. wf' = [w EXCEPT !.call = stops] /\ files' = files
  BY DEF Kill, wfOnly
<1>2. Right(wf, n) /\ wf \in Runs
  BY DEF RunInv, Right
<1>3. /\ x \in Runs /\ SameBooks(wf, x) /\ x.call = wf.call
      /\ x.ready = wf.ready /\ x.held = wf.held /\ x.waiters = wf.waiters
  BY <1>2 DEF Runs, SameBooks
<1> HIDE DEF x, n
<1>4. Right(x, n) /\ Still(wf, x)
  BY <1>2, <1>3, AsideRight
<1>5. Right(w, n) /\ Still(x, w)
  BY <1>4, FinishRight
<1> HIDE DEF w
<1>6. w \in Runs /\ Queued(w) /\ Sound(w, n)
  BY <1>5 DEF Right
<1>7. ASSUME NEW c \in CallIds
      PROVE  /\ stops[c] \in Calls /\ stops[c].pc = w.call[c].pc /\ stops[c].index = w.call[c].index
             /\ stops[c].row = w.call[c].row /\ stops[c].answer = w.call[c].answer
  <2>1. w.call[c] \in Calls
    BY <1>6 DEF Runs
  <2>2. PICK b \in BOOLEAN : b = (w.call[c].stop \/ Started(w, c))
    OBVIOUS
  <2>3. stops[c] = [w.call[c] EXCEPT !.stop = b]
    BY <2>2, Zenon
  <2> HIDE DEF stops
  <2> QED BY <2>1, <2>3 DEF Calls
<1>8. stops \in [CallIds -> Calls]
  BY <1>7
<1> HIDE DEF stops
<1>9. wf' \in Runs
  BY <1>1, <1>6, <1>8 DEF Runs
<1>10. /\ SameBooks(w, wf') /\ wf'.call = stops
       /\ wf'.ready = w.ready /\ wf'.held = w.held /\ wf'.waiters = w.waiters
  BY <1>1, <1>6 DEF Runs, SameBooks
<1>11. Listed(w.ready) \subseteq CallIds /\ Listed(w.held) \subseteq CallIds /\ Listed(w.waiters) \subseteq CallIds
  BY <1>6, ElementOfSeq DEF Runs, Listed
<1>12. Queued(wf')
  BY <1>6, <1>7, <1>10, <1>11 DEF Queued
<1>13. Goes(w, wf') /\ Still(w, wf')
  BY <1>7, <1>10 DEF Goes, Moves, Still, Started, Underway
<1>14. Sound(wf', n)
  BY <1>6, <1>9, <1>13, GoesSound
<1>15. Still(wf, wf')
  BY <1>4, <1>5, <1>13 DEF Still
<1> QED BY <1>1, <1>9, <1>12, <1>14, <1>15 DEF Kept, Right, n

\* The worker dies.
LEMMA WorkerExitKept ==
  ASSUME RunInv, WorkerExit PROVE Kept /\ files' = files
<1>1. wf' = finish(wf, "failed") /\ files' = files
  BY DEF WorkerExit, wfOnly
<1>2. Right(wf', RunNumber) /\ Still(wf, wf')
  BY <1>1, FinishRight DEF RunInv
<1> QED BY <1>1, <1>2 DEF Kept

-----------------------------------------------------------------------------
(* The theorems.                                                           *)

\* Every step keeps the invariant, and starts no child in a pause.
LEMMA NextRight ==
  ASSUME RunInv, [Next]_wvars
  PROVE  RunInv' /\ (wf.paused => Still(wf, wf'))
<1>1. ASSUME Kept, files' = files PROVE RunInv' /\ (wf.paused => Still(wf, wf'))
  <2>1. RunNumber' = RunNumber
    BY <1>1 DEF RunNumber
  <2> QED BY <1>1, <2>1 DEF RunInv, Kept
<1>2. CASE UNCHANGED wvars
  BY <1>2 DEF RunInv, Kept, RunNumber, Still, Started, wvars
<1>3. CASE Finished
  <2>1. wf' = freshRun(<<>>) /\ files' = Append(files, wf.journal)
    BY <1>3 DEF Finished
  <2>2. wf.journal \in Seq(Entries) /\ files \in Seq(Seq(Entries))
    BY DEF RunInv, Right, Runs
  <2>3. files' \in Seq(Seq(Entries))
    BY <2>1, <2>2, AppendProperties
  <2>4. Right(wf', RunNumber') /\ \A c \in CallIds : ~Started(wf', c)
    BY <2>1, FreshRight, EmptySeq
  <2>5. Still(wf, wf')
    BY <2>4 DEF Still
  <2> QED BY <2>3, <2>4, <2>5 DEF RunInv
<1>4. CASE AllOver
  BY <1>2, <1>4 DEF AllOver
<1>5. CASE StartRun
  BY <1>1, <1>5, StartRunKept
<1>6. CASE ScriptEnds
  BY <1>1, <1>6, ScriptEndsKept
<1>7. CASE HandleCall
  BY <1>1, <1>7, HandleCallKept
<1>8. CASE HandleEnding
  BY <1>1, <1>8, HandleEndingKept
<1>9. CASE Continue
  BY <1>1, <1>9, ContinueKept
<1>10. CASE Pause \/ Resume
  BY <1>1, <1>10, PauseKept
<1>11. CASE Kill
  BY <1>1, <1>11, KillKept
<1>12. CASE WorkerExit
  BY <1>1, <1>12, WorkerExitKept
<1>13. CASE \E p \in Payloads : AgentCall(p) \/ WorkflowCall(p)
  BY <1>1, <1>13, CallHostKept DEF AgentCall, WorkflowCall
<1>14. CASE \E c \in CallIds : LoadEnds(c)
  BY <1>1, <1>14, LoadEndsKept
<1>15. CASE \E c \in CallIds : ChildStarted(c)
  BY <1>1, <1>15, ChildStartedKept
<1>16. CASE \E c \in CallIds : ChildEnds(c)
  BY <1>1, <1>16, ChildEndsKept
<1>17. CASE \E c \in CallIds : GateEnds(c)
  BY <1>1, <1>17, GateEndsKept
<1>18. CASE \E c \in CallIds : Skip(c)
  BY <1>1, <1>18, SkipKept
<1>19. CASE \E c \in CallIds : Retry(c)
  BY <1>1, <1>19, RetryKept
<1> QED BY <1>2, <1>3, <1>4, <1>5, <1>6, <1>7, <1>8, <1>9, <1>10, <1>11, <1>12, <1>13, <1>14,
           <1>15, <1>16, <1>17, <1>18, <1>19 DEF Next

\* A session without runs.
LEMMA InitRight == Init => RunInv
<1> SUFFICES ASSUME Init PROVE RunInv
  OBVIOUS
<1>1. wf = freshRun(<<>>) /\ files = <<>>
  BY DEF Init
<1> QED BY <1>1, FreshRight, EmptySeq DEF RunInv

\* The invariant holds in every session.
LEMMA RunInvariance == Spec => []RunInv
<1>1. RunInv /\ [Next]_wvars => RunInv'
  BY NextRight
<1> QED BY <1>1, InitRight, PTL DEF Spec

\* A replayed answer is the text of an agent that succeeded with the very
\* same call at the same position, and what is replayed is a prefix of the
\* run, whatever order the calls came in and whichever entries the journals
\* of earlier runs lost (replayAt, runtime.ts).
THEOREM ReplaysAreFaithful == Spec => []ReplayFaithful
<1>1. RunInv => ReplayFaithful
  <2> SUFFICES ASSUME RunInv, NEW c \in CallIds, wf.call[c].answer.tag = "text"
               PROVE  /\ wf.call[c].answer.key = wf.posted[c]
                      /\ wf.call[c].answer.index = wf.call[c].index
                      /\ wf.call[c].answer.by # RunNumber =>
                           \A d \in CallIds : wf.call[d].index \in 0..wf.call[c].index => wf.call[d].row = "cached"
    BY DEF ReplayFaithful
  <2>1. Texted(wf, RunNumber) /\ Prefixed(wf)
    BY DEF RunInv, Right, Sound
  <2>2. /\ Genuine(wf.call[c].answer, wf.call[c].index, wf.posted[c])
        /\ wf.call[c].answer.by # RunNumber => wf.call[c].row = "cached"
    BY <2>1 DEF Texted
  <2> QED BY <2>1, <2>2 DEF Genuine, Prefixed
<1> QED BY <1>1, RunInvariance, PTL

\* A run reported as completed answered every agent() call its script made,
\* each as its progress row says (openLaunches, runtime.ts).
THEOREM CompletedRunsAnswered == Spec => []CompletedAnswered
<1>1. RunInv => CompletedAnswered
  <2> SUFFICES ASSUME RunInv, wf.status = "completed", NEW c \in 1..Len(wf.posted), wf.posted[c].kind # "load"
               PROVE  /\ wf.call[c].answer # Unanswered
                      /\ wf.call[c].answer.tag = "text" <=> wf.call[c].row \in {"done", "cached"}
    BY DEF CompletedAnswered
  <2>1. Taken(wf) /\ Rowed(wf) /\ Accounted(wf) /\ wf \in Runs
    BY DEF RunInv, Right, Sound
  <2>2. c \in CallIds
    <3>1. Len(wf.posted) \in Nat /\ Len(wf.posted) <= MaxCalls
      BY <2>1, LenProperties DEF Taken, Runs
    <3> QED BY <3>1, CallsAssumption DEF CallIds
  <2> QED BY <2>1, <2>2 DEF Rowed, Accounted
<1> QED BY <1>1, RunInvariance, PTL

\* While the run is paused no child starts, not even one that was queued
\* behind the concurrency limit when the pause came (runtime.ts, past the permit).
THEOREM PausesHold == Spec => PauseHolds
<1>1. RunInv /\ [Next]_wvars => [\A c \in CallIds : wf.paused /\ ~Started(wf, c) => ~Started(wf', c)]_wvars
  BY NextRight DEF Still
<1> QED BY <1>1, RunInvariance, PTL DEF Spec, PauseHolds

-----------------------------------------------------------------------------
(***************************************************************************)
(* The view of a run: every agent is shown once.                           *)
(***************************************************************************)

AgentRow == [type : {"agent"}, index : Nat, phase : Int, state : {"queued", "started", "done", "failed", "skipped"}]
PhaseRow == [type : {"phase"}, index : Nat, title : Titles]
LogRows == AgentRow \cup PhaseRow

LEMMA RowTypes ==
  /\ \A e \in LogRows : e.type = "agent" => e \in AgentRow
  /\ \A e \in LogRows : e.type = "phase" => e \in PhaseRow
  BY DEF LogRows, AgentRow, PhaseRow

\* The last of a nonempty set of positions.
LEMMA LastPosition ==
  ASSUME NEW n \in Nat, NEW T, T \subseteq 1..n, T # {}
  PROVE  \E k \in T : \A l \in T : l <= k
<1>1. T \subseteq 0..n
  OBVIOUS
<1> QED BY <1>1, MaxOf

\* The first of one.
LEMMA FirstPosition ==
  ASSUME NEW n \in Nat, NEW T, T \subseteq 1..n, T # {}
  PROVE  \E k \in T : \A l \in T : k <= l
<1>1. T \subseteq Nat
  OBVIOUS
<1> QED BY <1>1, LeastOf

\* The rows of a log are finitely many entries of agents, by their index.
LEMMA CollapseSound ==
  ASSUME NEW log \in Seq(LogRows)
  PROVE  /\ IsFiniteSet(DOMAIN collapse(log)) /\ DOMAIN collapse(log) \subseteq Nat
         /\ \A i \in DOMAIN collapse(log) : collapse(log)[i] \in AgentRow /\ collapse(log)[i].index = i
<1> DEFINE ks == AgentEntries(log)
           seen == {log[k].index : k \in ks}
<1>1. ks \subseteq 1..Len(log) /\ Len(log) \in Nat /\ \A k \in ks : log[k] \in AgentRow
  BY RowTypes DEF AgentEntries
<1>2. IsFiniteSet(ks)
  <2>1. IsFiniteSet(1..Len(log))
    BY <1>1, FS_Interval
  <2> QED BY <1>1, <2>1, FS_Subset
<1>3. IsFiniteSet(seen)
  <2>1. [k \in ks |-> log[k].index] \in Surjection(ks, seen)
    <3> HIDE DEF ks
    <3> QED BY DEF Surjection
  <2> HIDE DEF ks, seen
  <2> QED BY <1>2, <2>1, FS_Surjection
<1>4. seen \subseteq Nat
  BY <1>1 DEF AgentRow
<1>5. ASSUME NEW i \in seen PROVE log[LastOf(log, i)] \in AgentRow /\ log[LastOf(log, i)].index = i
  <2> DEFINE T == {k \in ks : log[k].index = i}
  <2>1. T \subseteq 1..Len(log) /\ T # {}
    BY <1>1, <1>5
  <2>2. PICK k \in T : \A l \in T : l <= k
    BY <1>1, <2>1, LastPosition
  <2>3. LastOf(log, i) \in ks /\ log[LastOf(log, i)].index = i
    BY <2>2 DEF LastOf
  <2> QED BY <1>1, <2>3
<1>6. collapse(log) = [i \in seen |-> log[LastOf(log, i)]]
  BY DEF collapse
<1> HIDE DEF seen
<1> QED BY <1>3, <1>4, <1>5, <1>6

\* A set in ascending order lists each member once.
LEMMA AscendingIs ==
  ASSUME NEW S, S \subseteq Int, IsFiniteSet(S)
  PROVE  /\ Ascending(S) \in Seq(S) /\ Len(Ascending(S)) = Cardinality(S) /\ Cardinality(S) \in Nat
         /\ \A x \in S : \E k \in 1..Cardinality(S) : Ascending(S)[k] = x
         /\ \A j, k \in 1..Cardinality(S) : Ascending(S)[j] = Ascending(S)[k] => j = k
<1> DEFINE n == Cardinality(S)
           rank(x) == Cardinality({y \in S : y <= x})
<1>1. n \in Nat
  BY FS_CardinalityType
<1>2. /\ \A k \in 1..n : \E x \in S : rank(x) = k
      /\ \A x \in S : rank(x) \in 1..n
      /\ \A x, y \in S : x < y => rank(x) < rank(y)
  BY Ranks
<1>3. Ascending(S) = [k \in 1..n |-> CHOOSE x \in S : rank(x) = k]
  BY DEF Ascending
<1> HIDE DEF rank, n
<1>4. ASSUME NEW k \in 1..n PROVE Ascending(S)[k] \in S /\ rank(Ascending(S)[k]) = k
  BY <1>2, <1>3
<1>5. Ascending(S) \in Seq(S) /\ Len(Ascending(S)) = n
  <2>1. Ascending(S) \in [1..n -> S]
    BY <1>3, <1>4
  <2> QED BY <1>1, <2>1
<1>6. ASSUME NEW x \in S PROVE \E k \in 1..n : Ascending(S)[k] = x
  <2>1. rank(x) \in 1..n
    BY <1>2
  <2>2. PICK y \in S : y = Ascending(S)[rank(x)] /\ rank(y) = rank(x)
    BY <1>4, <2>1
  <2>3. ~(x < y) /\ ~(y < x) /\ x \in Int /\ y \in Int
    <3>1. rank(y) \in Nat
      BY <2>1, <2>2
    <3> QED BY <1>2, <2>2, <3>1
  <2> QED BY <2>1, <2>2, <2>3
<1>7. \A j, k \in 1..n : Ascending(S)[j] = Ascending(S)[k] => j = k
  BY <1>4
<1> QED BY <1>1, <1>5, <1>6, <1>7 DEF n

\* Groups in which each agent of a set is once.
Groups(all) == [title : Titles \cup {<<"Phase">>, <<"Agents">>}, agents : SUBSET all]
ShownOnce(gs, all) == \A i \in all : \E k \in 1..Len(gs) : \A j \in 1..Len(gs) : i \in gs[j].agents <=> j = k

LEMMA TitleSound ==
  ASSUME NEW log \in Seq(LogRows), NEW p PROVE phaseTitle(log, p) \in Titles \cup {<<"Phase">>, <<"Agents">>}
<1> DEFINE ks == {k \in 1..Len(log) : log[k].type = "phase" /\ log[k].index = p}
<1>1. CASE ks = {}
  BY <1>1 DEF phaseTitle
<1>2. CASE ks # {}
  <2>1. PICK j \in ks : \A l \in ks : l <= j
    <3>1. Len(log) \in Nat /\ ks \subseteq 1..Len(log)
      OBVIOUS
    <3> HIDE DEF ks
    <3> QED BY <1>2, <3>1, LastPosition
  <2>2. (CHOOSE k \in ks : \A l \in ks : l <= k) \in ks
    BY <2>1
  <2>3. PICK m \in ks : m = CHOOSE k \in ks : \A l \in ks : l <= k
    BY <2>2
  <2>4. phaseTitle(log, p) = log[m].title
    BY <1>2, <2>3 DEF phaseTitle
  <2>5. log[m] \in PhaseRow
    BY RowTypes
  <2> QED BY <2>4, <2>5 DEF PhaseRow
<1> QED BY <1>1, <1>2

LEMMA GroupsSound ==
  ASSUME NEW log \in Seq(LogRows)
  PROVE  /\ groupByPhase(log) \in Seq(Groups(DOMAIN collapse(log)))
         /\ groupByPhase(log) # <<>> => ShownOnce(groupByPhase(log), DOMAIN collapse(log))
<1> DEFINE rows == collapse(log)
           all == DOMAIN rows
           of(i) == IF rows[i].phase = NoPhase THEN 0 ELSE rows[i].phase
           phases == {of(i) : i \in all}
           group(p) == [title |-> phaseTitle(log, p), agents |-> {i \in all : of(i) = p}]
           order == Ascending(phases)
           gs == [k \in 1..Len(order) |-> group(order[k])]
<1>1. IsFiniteSet(all) /\ \A i \in all : rows[i] \in AgentRow
  BY CollapseSound
<1>2. IsFiniteSet(phases)
  <2>1. [i \in all |-> of(i)] \in Surjection(all, phases)
    <3> HIDE DEF all, rows
    <3> QED BY DEF Surjection
  <2> HIDE DEF rows, phases, of
  <2> QED BY <1>1, <2>1, FS_Surjection
<1>3. phases \subseteq Int
  <2> HIDE DEF rows
  <2> QED BY <1>1 DEF AgentRow
<1>4. groupByPhase(log) = <<>> \/ groupByPhase(log) = gs
  BY DEF groupByPhase
<1>5. /\ order \in Seq(phases) /\ Len(order) \in Nat
      /\ \A x \in phases : \E k \in 1..Len(order) : order[k] = x
      /\ \A j, k \in 1..Len(order) : order[j] = order[k] => j = k
  <2> HIDE DEF phases
  <2> QED BY <1>2, <1>3, AscendingIs
<1> HIDE DEF order
<1>6. \A k \in 1..Len(order) : group(order[k]) \in Groups(all)
  BY TitleSound DEF Groups
<1>7. gs \in Seq(Groups(all)) /\ Len(gs) = Len(order) /\ \A k \in 1..Len(gs) : gs[k].agents = {i \in all : of(i) = order[k]}
  BY <1>5, <1>6
<1>8. ShownOnce(gs, all)
  <2> SUFFICES ASSUME NEW i \in all PROVE \E k \in 1..Len(gs) : \A j \in 1..Len(gs) : i \in gs[j].agents <=> j = k
    BY DEF ShownOnce
  <2>1. of(i) \in phases
    OBVIOUS
  <2>2. PICK k \in 1..Len(order) : order[k] = of(i)
    BY <1>5, <2>1
  <2> HIDE DEF gs, of, all
  <2>3. \A j \in 1..Len(gs) : i \in gs[j].agents <=> order[j] = of(i)
    BY <1>7
  <2> QED BY <1>5, <1>7, <2>2, <2>3
<1>9. <<>> \in Seq(Groups(all))
  OBVIOUS
<1> HIDE DEF gs, all
<1> QED BY <1>4, <1>7, <1>8, <1>9 DEF all

\* The group a declared title takes is one that no earlier title took.
LEMMA FreeIs ==
  ASSUME NEW observed, Len(observed) \in Nat, NEW title, NEW taken
  PROVE  /\ firstFree(observed, title, taken) \in 0..Len(observed)
         /\ firstFree(observed, title, taken) # 0 => ~Contains(taken, firstFree(observed, title, taken))
<1> DEFINE free == {g \in 1..Len(observed) : TitlesMatch(observed[g].title, title) /\ ~Contains(taken, g)}
<1>1. CASE free = {}
  BY <1>1 DEF firstFree
<1>2. CASE free # {}
  <2>1. PICK h \in free : \A x \in free : h <= x
    <3>1. free \subseteq 1..Len(observed)
      OBVIOUS
    <3> HIDE DEF free
    <3> QED BY <1>2, <3>1, FirstPosition
  <2>2. PICK g \in free : g = CHOOSE y \in free : \A x \in free : y <= x
    BY <2>1
  <2>3. firstFree(observed, title, taken) = g
    BY <1>2, <2>2 DEF firstFree
  <2> QED BY <2>3
<1> QED BY <1>1, <1>2

\* What the titles take: a group, or none, and none twice.
TitlesTake(n, m, s) ==
  /\ s \in Seq(0..n) /\ Len(s) = m
  /\ \A j, k \in 1..m : s[j] = s[k] /\ s[j] # 0 => j = k

LEMMA TakenSound ==
  ASSUME NEW T, NEW titles \in Seq(T), NEW observed, Len(observed) \in Nat
  PROVE  TitlesTake(Len(observed), Len(titles), takenBy(titles, observed))
<1> DEFINE n == Len(titles)
           m == Len(observed)
           A == Seq(0..m)
           F == [p \in A \X (1..n) |-> Append(p[1], firstFree(observed, titles[p[2]], p[1]))]
           Eq(f) == [k \in 0..n |-> IF k = 0 THEN <<>> ELSE Append(f[k - 1], firstFree(observed, titles[k], f[k - 1]))]
           takes == CHOOSE f : f = Eq(f)
           B == {k \in 0..n : TitlesTake(m, k, takes[k])}
<1>1. n \in Nat /\ <<>> \in A
  OBVIOUS
<1>2. F \in [A \X (1..n) -> A]
  <2> SUFFICES ASSUME NEW p \in A \X (1..n) PROVE Append(p[1], firstFree(observed, titles[p[2]], p[1])) \in A
    OBVIOUS
  <2>1. p[1] \in A /\ firstFree(observed, titles[p[2]], p[1]) \in 0..m
    BY FreeIs
  <2> QED BY <2>1
<1>3. PICK f \in [0..n -> A] : f[0] = <<>> /\ \A k \in 1..n : f[k] = F[<<f[k - 1], k>>]
  <2>1. StepOf(F, n, A)
    BY <1>2 DEF StepOf
  <2>2. \E f \in [0..n -> A] : Stepwise(f, n, <<>>, F)
    <3> HIDE DEF F, A, n
    <3> QED BY <1>1, <2>1, StepsExist
  <2> QED BY <2>2 DEF Stepwise
<1>4. f = Eq(f)
  <2>1. ASSUME NEW k \in 1..n PROVE f[k] = Append(f[k - 1], firstFree(observed, titles[k], f[k - 1]))
    <3>1. k - 1 \in 0..n
      BY <1>1
    <3>2. f[k - 1] \in A
      BY <3>1
    <3>3. <<f[k - 1], k>> \in A \X (1..n)
      BY <3>2
    <3> QED BY <1>3, <3>3
  <2>2. \A k \in 0..n : k = 0 \/ k \in 1..n
    OBVIOUS
  <2> QED BY <1>3, <2>1, <2>2
<1>5. takes = Eq(takes)
  <2> HIDE DEF Eq
  <2> QED BY <1>4
<1>6. takenBy(titles, observed) = takes[n]
  BY DEF takenBy
<1> HIDE DEF takes, F
<1>7. 0 \in B
  <2>1. takes[0] = <<>>
    BY <1>1, <1>5
  <2>2. TitlesTake(m, 0, <<>>)
    BY DEF TitlesTake
  <2>3. 0 \in 0..n /\ TitlesTake(m, 0, takes[0])
    BY <1>1, <2>1, <2>2
  <2> QED BY <2>3
<1>8. ASSUME NEW k \in 1..n, k - 1 \in B PROVE k \in B
  <2>1. PICK s : s = takes[k - 1]
    OBVIOUS
  <2>2. PICK x : x = firstFree(observed, titles[k], s)
    OBVIOUS
  <2>3. takes[k] = Append(s, x)
    <3>1. takes[k] = Eq(takes)[k]
      <4> HIDE DEF Eq
      <4> QED BY <1>5
    <3>2. k \in 0..n /\ k # 0
      BY <1>1
    <3>3. Eq(takes)[k] = Append(takes[k - 1], firstFree(observed, titles[k], takes[k - 1]))
      BY <3>2
    <3> QED BY <2>1, <2>2, <3>1, <3>3
  <2>4. TitlesTake(m, k - 1, s)
    BY <1>8, <2>1
  <2>5. x \in 0..m /\ (x # 0 => \A i \in 1..Len(s) : s[i] # x)
    BY <2>2, FreeIs DEF Contains
  <2>6. Append(s, x) \in Seq(0..m) /\ Len(Append(s, x)) = k
    BY <2>4, <2>5 DEF TitlesTake
  <2>7. \A i \in 1..k : Append(s, x)[i] = IF i = k THEN x ELSE s[i]
    BY <2>4, <2>5 DEF TitlesTake
  <2>8. \A i, j \in 1..k : Append(s, x)[i] = Append(s, x)[j] /\ Append(s, x)[i] # 0 => i = j
    BY <2>4, <2>5, <2>7 DEF TitlesTake
  <2>9. TitlesTake(m, k, Append(s, x))
    BY <2>6, <2>8 DEF TitlesTake
  <2>10. k \in 0..n /\ TitlesTake(m, k, takes[k])
    BY <1>1, <2>3, <2>9
  <2> QED BY <2>10
<1>9. 0..n \subseteq B
  <2> HIDE DEF B
  <2> QED BY <1>1, <1>7, <1>8, UpToInduction
<1> QED BY <1>1, <1>6, <1>9

\* mergePhases lists every observed group once.
LEMMA MergeKeeps ==
  ASSUME NEW all, NEW titles \in Seq(Titles), NEW observed \in Seq(Groups(all))
  PROVE  /\ mergePhases(titles, observed) \in Seq(Groups(all))
         /\ ShownOnce(observed, all) => ShownOnce(mergePhases(titles, observed), all)
         /\ observed = <<>> => \A k \in 1..Len(mergePhases(titles, observed)) : mergePhases(titles, observed)[k].agents = {}
<1> DEFINE n == Len(titles)
           m == Len(observed)
           took == takenBy(titles, observed)
           left == {g \in 1..m : ~Contains(took, g)}
           rest == Ascending(left)
           q == [k \in 1..n |-> IF took[k] = 0 THEN [title |-> titles[k], agents |-> {}] ELSE observed[took[k]]]
           r == [k \in 1..Len(rest) |-> observed[rest[k]]]
           all2 == mergePhases(titles, observed)
<1>1. n \in Nat /\ m \in Nat /\ TitlesTake(m, n, took)
  BY TakenSound
<1>2. IsFiniteSet(left) /\ left \subseteq Int /\ left \subseteq 1..m
  <2>1. IsFiniteSet(1..m)
    BY <1>1, FS_Interval
  <2> QED BY <1>1, <2>1, FS_Subset
<1>3. /\ rest \in Seq(left) /\ Len(rest) \in Nat
      /\ \A x \in left : \E k \in 1..Len(rest) : rest[k] = x
      /\ \A j, k \in 1..Len(rest) : rest[j] = rest[k] => j = k
  <2> HIDE DEF left
  <2> QED BY <1>2, AscendingIs
<1>4. all2 = q \o r
  BY DEF mergePhases
<1>5. \A k \in 1..n : took[k] \in 0..m
  BY <1>1 DEF TitlesTake
<1> HIDE DEF took, rest
<1>6. q \in Seq(Groups(all)) /\ Len(q) = n
  <2>1. \A k \in 1..n : q[k] \in Groups(all)
    <3> SUFFICES ASSUME NEW k \in 1..n PROVE q[k] \in Groups(all)
      OBVIOUS
    <3>1. titles[k] \in Titles
      BY <1>1
    <3>2. took[k] = 0 \/ took[k] \in 1..m
      BY <1>1, <1>5
    <3>3. CASE took[k] = 0
      BY <3>1, <3>3 DEF Groups
    <3>4. CASE took[k] \in 1..m
      <4>1. took[k] # 0 /\ observed[took[k]] \in Groups(all)
        BY <1>1, <3>4
      <4> QED BY <4>1
    <3> QED BY <3>2, <3>3, <3>4
  <2> QED BY <1>1, <2>1
<1>7. r \in Seq(Groups(all)) /\ Len(r) = Len(rest)
  <2>1. \A k \in 1..Len(rest) : rest[k] \in 1..m
    BY <1>2, <1>3
  <2>2. \A k \in 1..Len(rest) : observed[rest[k]] \in Groups(all)
    BY <1>1, <2>1
  <2> QED BY <1>3, <2>2
<1>8. all2 \in Seq(Groups(all)) /\ Len(all2) = n + Len(rest)
  BY <1>4, <1>6, <1>7
<1>9. \A k \in 1..Len(all2) : all2[k] = IF k <= n THEN q[k] ELSE r[k - n]
  <2> HIDE DEF q, r
  <2> QED BY <1>1, <1>3, <1>4, <1>6, <1>7
<1>10. \A k \in 1..n : all2[k].agents = IF took[k] = 0 THEN {} ELSE observed[took[k]].agents
  <2> SUFFICES ASSUME NEW k \in 1..n PROVE all2[k].agents = IF took[k] = 0 THEN {} ELSE observed[took[k]].agents
    OBVIOUS
  <2>1. k \in 1..Len(all2) /\ k <= n
    BY <1>1, <1>3, <1>8
  <2>2. all2[k] = q[k]
    <3> HIDE DEF q, r, all2
    <3> QED BY <1>9, <2>1
  <2>3. q[k] = IF took[k] = 0 THEN [title |-> titles[k], agents |-> {}] ELSE observed[took[k]]
    OBVIOUS
  <2> QED BY <2>2, <2>3
<1>11. \A k \in 1..Len(rest) : n + k \in 1..Len(all2) /\ all2[n + k] = observed[rest[k]]
  <2> SUFFICES ASSUME NEW k \in 1..Len(rest) PROVE n + k \in 1..Len(all2) /\ all2[n + k] = observed[rest[k]]
    OBVIOUS
  <2>1. n + k \in 1..Len(all2) /\ ~(n + k <= n) /\ (n + k) - n = k
    BY <1>1, <1>3, <1>8
  <2>2. all2[n + k] = r[k]
    BY <1>9, <2>1
  <2> QED BY <2>1, <2>2
<1>12. \A j \in 1..Len(all2) : j \in 1..n \/ \E k \in 1..Len(rest) : j = n + k
  <2> SUFFICES ASSUME NEW j \in 1..Len(all2), j \notin 1..n PROVE j - n \in 1..Len(rest) /\ j = n + (j - n)
    OBVIOUS
  <2> QED BY <1>1, <1>3, <1>8
<1> HIDE DEF q, r, all2
<1>13. ASSUME ShownOnce(observed, all) PROVE ShownOnce(all2, all)
  <2> SUFFICES ASSUME NEW i \in all PROVE \E k \in 1..Len(all2) : \A j \in 1..Len(all2) : i \in all2[j].agents <=> j = k
    BY DEF ShownOnce
  <2>1. PICK g \in 1..m : \A j \in 1..m : i \in observed[j].agents <=> j = g
    BY <1>13 DEF ShownOnce
  <2>2. \A k \in 1..n : i \in all2[k].agents <=> took[k] = g
    <3> SUFFICES ASSUME NEW k \in 1..n PROVE i \in all2[k].agents <=> took[k] = g
      OBVIOUS
    <3>1. took[k] = 0 \/ took[k] \in 1..m
      BY <1>1, <1>5
    <3>2. g # 0
      BY <1>1, <2>1
    <3> QED BY <1>10, <2>1, <3>1, <3>2
  <2>3. \A k \in 1..Len(rest) : i \in all2[n + k].agents <=> rest[k] = g
    <3>1. \A k \in 1..Len(rest) : rest[k] \in left
      BY <1>3
    <3> QED BY <1>2, <1>11, <2>1, <3>1
  <2>4. \A j \in 1..n, k \in 1..Len(rest) : took[j] # rest[k]
    <3> SUFFICES ASSUME NEW j \in 1..n, NEW k \in 1..Len(rest) PROVE took[j] # rest[k]
      OBVIOUS
    <3>1. rest[k] \in left
      BY <1>3
    <3>2. \A x \in 1..Len(took) : took[x] # rest[k]
      BY <3>1 DEF Contains
    <3>3. Len(took) = n
      BY <1>1 DEF TitlesTake
    <3> QED BY <3>2, <3>3
  <2>5. CASE Contains(took, g)
    <3>1. PICK k \in 1..n : took[k] = g
      BY <1>1, <2>5 DEF Contains, TitlesTake
    <3>2. \A j \in 1..n : took[j] = g <=> j = k
      BY <1>1, <2>1, <3>1 DEF TitlesTake
    <3>3. k \in 1..Len(all2)
      BY <1>1, <1>3, <1>8
    <3>4. \A j \in 1..Len(rest) : rest[j] # g /\ n + j # k
      BY <1>1, <1>3, <2>4, <3>1
    <3>5. \A j \in 1..Len(all2) : i \in all2[j].agents <=> j = k
      <4> SUFFICES ASSUME NEW j \in 1..Len(all2) PROVE i \in all2[j].agents <=> j = k
        OBVIOUS
      <4> HIDE DEF all2, n, m, left
      <4>1. CASE j \in 1..n
        BY <2>2, <3>2, <4>1
      <4>2. CASE \E l \in 1..Len(rest) : j = n + l
        <5>1. PICK l \in 1..Len(rest) : j = n + l
          BY <4>2
        <5> QED BY <2>3, <3>4, <5>1
      <4> QED BY <1>12, <4>1, <4>2
    <3> QED BY <3>3, <3>5
  <2>6. CASE ~Contains(took, g)
    <3>1. g \in left
      BY <2>6
    <3>2. PICK k \in 1..Len(rest) : rest[k] = g
      BY <1>3, <3>1
    <3>3. \A j \in 1..Len(rest) : rest[j] = g <=> n + j = n + k
      <4> SUFFICES ASSUME NEW j \in 1..Len(rest) PROVE rest[j] = g <=> n + j = n + k
        OBVIOUS
      <4>1. rest[j] = g <=> j = k
        <5> HIDE DEF left, n, m
        <5> QED BY <1>3, <3>2
      <4>2. n \in Int /\ j \in Int /\ k \in Int
        BY <1>1, <1>3
      <4> HIDE DEF n
      <4> QED BY <4>1, <4>2
    <3>4. \A j \in 1..n : took[j] # g /\ j # n + k
      BY <1>1, <1>3, <2>4, <3>2
    <3>5. n + k \in 1..Len(all2)
      BY <1>11
    <3>6. \A j \in 1..Len(all2) : i \in all2[j].agents <=> j = n + k
      <4> SUFFICES ASSUME NEW j \in 1..Len(all2) PROVE i \in all2[j].agents <=> j = n + k
        OBVIOUS
      <4> HIDE DEF all2, n, m, left
      <4>1. CASE j \in 1..n
        BY <2>2, <3>4, <4>1
      <4>2. CASE \E l \in 1..Len(rest) : j = n + l
        <5>1. PICK l \in 1..Len(rest) : j = n + l
          BY <4>2
        <5> QED BY <2>3, <3>3, <5>1
      <4> QED BY <1>12, <4>1, <4>2
    <3> QED BY <3>5, <3>6
  <2> QED BY <2>5, <2>6
<1>14. ASSUME observed = <<>> PROVE \A k \in 1..Len(all2) : all2[k].agents = {}
  <2>1. m = 0
    BY <1>14
  <2>2. left = {}
    BY <2>1
  <2>3. Len(rest) = 0
    <3>1. \A k \in 1..Len(rest) : rest[k] \in left
      BY <1>3
    <3> HIDE DEF left
    <3> QED BY <1>3, <2>2, <3>1
  <2>4. \A k \in 1..n : took[k] = 0
    BY <1>5, <2>1
  <2> QED BY <1>10, <1>12, <2>3, <2>4
<1> QED BY <1>8, <1>13, <1>14 DEF all2

\* The tree shows every agent of the log once, whatever was declared.
LEMMA TreeShowsOnce ==
  ASSUME NEW log \in Seq(LogRows), NEW titles \in Seq(Titles)
  PROVE  /\ buildPhaseGroups(log, titles) \in Seq(Groups(DOMAIN collapse(log)))
         /\ ShownOnce(buildPhaseGroups(log, titles), DOMAIN collapse(log))
<1> DEFINE all == DOMAIN collapse(log)
           observed == groupByPhase(log)
           merged == mergePhases(titles, observed)
           rest == [title |-> <<"Agents">>, agents |-> all]
           gs == buildPhaseGroups(log, titles)
<1>1. observed \in Seq(Groups(all)) /\ (observed # <<>> => ShownOnce(observed, all))
  BY GroupsSound
<1> HIDE DEF all, observed
<1>2. /\ merged \in Seq(Groups(all)) /\ (ShownOnce(observed, all) => ShownOnce(merged, all))
      /\ observed = <<>> => \A k \in 1..Len(merged) : merged[k].agents = {}
  BY <1>1, MergeKeeps
<1>3. gs = IF all # {} /\ \A k \in 1..Len(merged) : merged[k].agents = {} THEN Append(merged, rest) ELSE merged
  BY DEF buildPhaseGroups, all, observed
<1> HIDE DEF gs, merged
<1>4. rest \in Groups(all) /\ rest.agents = all
  BY DEF Groups
<1> HIDE DEF rest
<1>5. gs \in Seq(Groups(all))
  BY <1>2, <1>3, <1>4
<1>10. SUFFICES ShownOnce(gs, all)
  BY <1>5 DEF gs, all
<1>6. CASE all = {}
  BY <1>6 DEF ShownOnce
<1>7. CASE all # {} /\ \A k \in 1..Len(merged) : merged[k].agents = {}
  <2>1. gs = Append(merged, rest) /\ Len(gs) = Len(merged) + 1 /\ Len(merged) \in Nat
    BY <1>2, <1>3, <1>4, <1>7
  <2>2. \A j \in 1..Len(gs) : gs[j] = IF j = Len(merged) + 1 THEN rest ELSE merged[j]
    BY <1>2, <1>4, <2>1
  <2>3. \A i \in all : \A j \in 1..Len(gs) : i \in gs[j].agents <=> j = Len(merged) + 1
    BY <1>4, <1>7, <2>1, <2>2
  <2>4. Len(merged) + 1 \in 1..Len(gs)
    BY <2>1
  <2> QED BY <2>3, <2>4 DEF ShownOnce
<1>8. CASE all # {} /\ ~\A k \in 1..Len(merged) : merged[k].agents = {}
  BY <1>1, <1>2, <1>3, <1>8
<1> QED BY <1>6, <1>7, <1>8

\* The log holds rows of phases and agents, the declared titles are titles, and the
\* dialog's positions are numbers, in range or not.
DialogType == [phase : Int, agent : Int, level : {"phases", "agent"}, filter : {Filters[k] : k \in 1..Len(Filters)}]
ViewTyped == progress \in Seq(LogRows) /\ declared \in Seq(Titles) /\ dialog \in DialogType

LEMMA MovedTyped ==
  ASSUME NEW d \in DialogType
  PROVE  /\ \A a \in Int : [d EXCEPT !.agent = a] \in DialogType
         /\ \A p \in Int : [d EXCEPT !.phase = p, !.agent = 0] \in DialogType
         /\ \A f \in {Filters[k] : k \in 1..Len(Filters)} : [d EXCEPT !.filter = f, !.agent = 0] \in DialogType
<1> DEFINE names == {Filters[k] : k \in 1..Len(Filters)}
<1>1. d \in [phase : Int, agent : Int, level : {"phases", "agent"}, filter : names]
  BY DEF DialogType
<1> HIDE DEF names
<1>2. \A a \in Int : [d EXCEPT !.agent = a] \in [phase : Int, agent : Int, level : {"phases", "agent"}, filter : names]
  BY <1>1
<1>3. ASSUME NEW p \in Int PROVE [d EXCEPT !.phase = p, !.agent = 0] \in [phase : Int, agent : Int, level : {"phases", "agent"}, filter : names]
  <2>1. PICK e : e = [d EXCEPT !.phase = p]
    OBVIOUS
  <2>2. e \in [phase : Int, agent : Int, level : {"phases", "agent"}, filter : names]
    BY <1>1, <2>1
  <2>3. [e EXCEPT !.agent = 0] \in [phase : Int, agent : Int, level : {"phases", "agent"}, filter : names]
    BY <2>2
  <2>4. [d EXCEPT !.phase = p, !.agent = 0] = [e EXCEPT !.agent = 0]
    BY <2>1
  <2> QED BY <2>3, <2>4
<1>4. ASSUME NEW f \in names PROVE [d EXCEPT !.filter = f, !.agent = 0] \in [phase : Int, agent : Int, level : {"phases", "agent"}, filter : names]
  <2>1. PICK e : e = [d EXCEPT !.filter = f]
    OBVIOUS
  <2>2. e \in [phase : Int, agent : Int, level : {"phases", "agent"}, filter : names]
    BY <1>1, <2>1
  <2>3. [e EXCEPT !.agent = 0] \in [phase : Int, agent : Int, level : {"phases", "agent"}, filter : names]
    BY <2>2
  <2>4. [d EXCEPT !.filter = f, !.agent = 0] = [e EXCEPT !.agent = 0]
    BY <2>1
  <2> QED BY <2>3, <2>4
<1> QED BY <1>2, <1>3, <1>4 DEF DialogType, names

\* An entry the host or the dialog appends is a row.
LEMMA EntryIsRow ==
  ASSUME NEW i \in Nat, NEW p \in Int, NEW st \in {"queued", "started", "done", "failed", "skipped"}
  PROVE  AgentEntry(i, p, st) \in LogRows
  BY DEF AgentEntry, LogRows, AgentRow

\* A clamped position is in range, whatever was asked for.
LEMMA ClampSound ==
  ASSUME NEW k \in Int, NEW n \in Nat
  PROVE  clampIndex(k, n) \in Int /\ (n # 0 => clampIndex(k, n) + 1 \in 1..n)
  BY DEF clampIndex

\* The row the keys act on is one of the log's agents.
LEMMA ViewSound ==
  ASSUME ViewTyped
  PROVE  /\ resolveWorkflowDialog.groups \in Nat /\ resolveWorkflowDialog.phase \in Int
         /\ Len(resolveWorkflowDialog.visible) \in Nat /\ resolveWorkflowDialog.agent \in Int
         /\ resolveWorkflowDialog.entry = <<>> \/ \E e \in AgentRow : resolveWorkflowDialog.entry = <<e>>
<1> DEFINE groups == buildPhaseGroups(progress, declared)
           phase == clampIndex(dialog.phase, Len(groups))
           rows == collapse(progress)
           all == IF groups = <<>> THEN {} ELSE groups[phase + 1].agents
           visible == {i \in all : dialog.filter = "all" \/ displayState(rows[i], active) = dialog.filter}
           order == Ascending(visible)
           agent == clampIndex(dialog.agent, Len(order))
           view == resolveWorkflowDialog
<1>1. view = [ groups |-> Len(groups), phase |-> phase, visible |-> order, agent |-> agent,
               entry |-> IF order = <<>> THEN <<>> ELSE <<rows[order[agent + 1]]>> ]
  BY DEF resolveWorkflowDialog
<1>2. groups \in Seq(Groups(DOMAIN rows))
  BY TreeShowsOnce DEF ViewTyped
<1>3. IsFiniteSet(DOMAIN rows) /\ DOMAIN rows \subseteq Nat /\ \A i \in DOMAIN rows : rows[i] \in AgentRow
  BY CollapseSound DEF ViewTyped
<1>4. dialog.phase \in Int /\ dialog.agent \in Int
  BY DEF ViewTyped, DialogType
<1> HIDE DEF groups, rows, view
<1>5. phase \in Int /\ (groups # <<>> => phase + 1 \in 1..Len(groups))
  <2>1. Len(groups) \in Nat /\ (groups # <<>> => Len(groups) # 0)
    BY <1>2
  <2> QED BY <1>4, <2>1, ClampSound
<1> HIDE DEF phase
<1>6. all \subseteq DOMAIN rows
  <2>1. CASE groups = <<>>
    BY <2>1
  <2>2. CASE groups # <<>>
    <3>1. groups[phase + 1] \in Groups(DOMAIN rows)
      BY <1>2, <1>5, <2>2
    <3> QED BY <2>2, <3>1 DEF Groups
  <2> QED BY <2>1, <2>2
<1> HIDE DEF all
<1>7. visible \subseteq DOMAIN rows /\ visible \subseteq Int /\ IsFiniteSet(visible)
  <2>1. visible \subseteq DOMAIN rows
    BY <1>6
  <2> HIDE DEF visible
  <2> QED BY <1>3, <2>1, FS_Subset
<1> HIDE DEF visible
<1>8. order \in Seq(visible)
  BY <1>7, AscendingIs
<1> HIDE DEF order
<1>9. agent \in Int /\ (order # <<>> => agent + 1 \in 1..Len(order))
  <2>1. Len(order) \in Nat /\ (order # <<>> => Len(order) # 0)
    BY <1>8
  <2> QED BY <1>4, <2>1, ClampSound
<1> HIDE DEF agent
<1>10. order # <<>> => rows[order[agent + 1]] \in AgentRow
  <2> SUFFICES ASSUME order # <<>> PROVE rows[order[agent + 1]] \in AgentRow
    OBVIOUS
  <2>1. order[agent + 1] \in visible
    BY <1>8, <1>9
  <2> QED BY <1>3, <1>7, <2>1
<1>11. view.groups \in Nat /\ view.phase \in Int /\ Len(view.visible) \in Nat /\ view.agent \in Int
  BY <1>1, <1>2, <1>5, <1>8, <1>9
<1>12. view.entry = <<>> \/ \E e \in AgentRow : view.entry = <<e>>
  <2>1. view.entry = IF order = <<>> THEN <<>> ELSE <<rows[order[agent + 1]]>>
    BY <1>1
  <2> QED BY <1>10, <2>1
<1> QED BY <1>11, <1>12 DEF view

\* The log grows by rows, and a key leaves the dialog's positions numbers.
LEMMA EmitTyped ==
  ASSUME ViewTyped, Emit PROVE ViewTyped'
<1> DEFINE rows == collapse(progress)
           phases == Cardinality({k \in 1..Len(progress) : progress[k].type = "phase"})
<1>1. phases \in Nat
  <2>1. Len(progress) \in Nat
    BY DEF ViewTyped
  <2>2. IsFiniteSet(1..Len(progress))
    BY <2>1, FS_Interval
  <2>3. IsFiniteSet({k \in 1..Len(progress) : progress[k].type = "phase"})
    BY <2>2, FS_Subset
  <2> QED BY <2>3, FS_CardinalityType
<1>2. /\ Cardinality(DOMAIN rows) \in Nat /\ DOMAIN rows \subseteq Nat
      /\ \A i \in DOMAIN rows : rows[i].phase \in Int
  BY CollapseSound, FS_CardinalityType DEF ViewTyped, AgentRow
<1> SUFFICES \E e \in LogRows : progress' = Append(progress, e)
  BY DEF ViewTyped, Emit
<1> HIDE DEF rows, phases
<1>3. \/ \E t \in Titles : progress' = Append(progress, [type |-> "phase", index |-> phases, title |-> t])
      \/ \E p \in {NoPhase} \cup 0..(phases - 1) :
           progress' = Append(progress, AgentEntry(Cardinality(DOMAIN rows), p, "queued"))
      \/ \E i \in DOMAIN rows, st \in {"started", "done", "failed"} :
           progress' = Append(progress, AgentEntry(i, rows[i].phase, st))
  BY DEF Emit, rows, phases
<1>4. CASE \E t \in Titles : progress' = Append(progress, [type |-> "phase", index |-> phases, title |-> t])
  BY <1>1, <1>4 DEF LogRows, PhaseRow
<1>5. CASE \E p \in {NoPhase} \cup 0..(phases - 1) :
             progress' = Append(progress, AgentEntry(Cardinality(DOMAIN rows), p, "queued"))
  <2>1. PICK p \in {NoPhase} \cup 0..(phases - 1) :
          progress' = Append(progress, AgentEntry(Cardinality(DOMAIN rows), p, "queued"))
    BY <1>5
  <2>2. p \in Int
    BY <1>1 DEF NoPhase
  <2> QED BY <1>2, <2>1, <2>2, EntryIsRow
<1>6. CASE \E i \in DOMAIN rows, st \in {"started", "done", "failed"} :
             progress' = Append(progress, AgentEntry(i, rows[i].phase, st))
  <2>1. PICK i \in DOMAIN rows, st \in {"started", "done", "failed"} :
          progress' = Append(progress, AgentEntry(i, rows[i].phase, st))
    BY <1>6
  <2> QED BY <1>2, <2>1, EntryIsRow
<1> QED BY <1>3, <1>4, <1>5, <1>6

LEMMA PressTyped ==
  ASSUME ViewTyped, Press PROVE ViewTyped'
<1> DEFINE view == resolveWorkflowDialog
<1>1. /\ view.groups \in Nat /\ view.phase \in Int /\ Len(view.visible) \in Nat /\ view.agent \in Int
      /\ view.entry = <<>> \/ \E e \in AgentRow : view.entry = <<e>>
  BY ViewSound
<1> HIDE DEF view
<1>2. PICK key \in Keys : handleWorkflowDialogKey(key, view)
  BY DEF Press, view
<1>3. declared' = declared
  BY DEF Press
<1>4. CASE \E d \in DialogType : Show(d)
  BY <1>3, <1>4 DEF ViewTyped, Show
<1>5. CASE Act(key, view.entry) /\ key \in {"skip", "retry"} /\ view.entry # <<>>
  <2>1. PICK e \in AgentRow : view.entry = <<e>>
    BY <1>1, <1>5
  <2>2. e.index \in Nat /\ e.phase \in Int
    BY DEF AgentRow
  <2>3. \E st \in {"skipped", "queued"} : progress' = Append(progress, AgentEntry(e.index, e.phase, st))
    BY <1>5, <2>1 DEF Act
  <2>4. \E r \in LogRows : progress' = Append(progress, r)
    BY <2>2, <2>3, EntryIsRow
  <2> QED BY <1>3, <1>5, <2>4 DEF ViewTyped, Act
<1>6. CASE Act(key, view.entry) /\ key = "kill"
  BY <1>3, <1>6 DEF ViewTyped, Act
<1>7. CASE key = "escape"
  <2>1. [dialog EXCEPT !.level = "phases"] \in DialogType /\ FreshDialog \in DialogType
    BY DEF ViewTyped, DialogType, FreshDialog, Filters
  <2>2. Show([dialog EXCEPT !.level = "phases"]) \/ Show(FreshDialog)
    BY <1>2, <1>7 DEF handleWorkflowDialogKey, agentActions
  <2> QED BY <1>4, <2>1, <2>2
<1>8. CASE key \in {"up", "down"}
  <2> DEFINE step == IF key = "down" THEN 1 ELSE -1
             next == clampIndex(view.phase + step, view.groups)
             row == clampIndex(view.agent + step, Len(view.visible))
  <2>1. next \in Int /\ row \in Int
    <3>1. view.phase + step \in Int /\ view.agent + step \in Int
      BY <1>1
    <3> QED BY <1>1, <3>1, ClampSound
  <2>2. \/ Show([dialog EXCEPT !.agent = row]) \/ Show(dialog)
        \/ Show([dialog EXCEPT !.phase = next, !.agent = 0])
    BY <1>2, <1>8 DEF handleWorkflowDialogKey, agentActions
  <2> HIDE DEF next, row
  <2>3. /\ [dialog EXCEPT !.agent = row] \in DialogType /\ dialog \in DialogType
        /\ [dialog EXCEPT !.phase = next, !.agent = 0] \in DialogType
    <3>1. dialog \in DialogType /\ dialog.filter \in {Filters[k] : k \in 1..Len(Filters)}
      BY DEF ViewTyped, DialogType
    <3> QED BY <2>1, <3>1, MovedTyped
  <2> QED BY <1>4, <2>2, <2>3
<1>9. CASE key = "enter"
  <2>1. Show([dialog EXCEPT !.level = "agent"])
    BY <1>2, <1>9 DEF handleWorkflowDialogKey, agentActions
  <2>2. [dialog EXCEPT !.level = "agent"] \in DialogType
    BY DEF ViewTyped, DialogType
  <2> QED BY <1>4, <2>1, <2>2
<1>10. CASE key = "filter"
  <2>1. Show([dialog EXCEPT !.filter = nextFilter(@), !.agent = 0])
    BY <1>2, <1>10 DEF handleWorkflowDialogKey, agentActions
  <2>2. nextFilter(dialog.filter) \in {Filters[k] : k \in 1..Len(Filters)}
    <3> DEFINE c == CHOOSE k \in 1..Len(Filters) : Filters[k] = dialog.filter
    <3>1. \E k \in 1..Len(Filters) : Filters[k] = dialog.filter
      BY DEF ViewTyped, DialogType
    <3>2. c \in 1..Len(Filters)
      BY <3>1
    <3>3. Len(Filters) \in Nat
      BY DEF Filters
    <3>4. nextFilter(dialog.filter) = Filters[IF c = Len(Filters) THEN 1 ELSE c + 1]
      BY DEF nextFilter
    <3> HIDE DEF c
    <3>5. (IF c = Len(Filters) THEN 1 ELSE c + 1) \in 1..Len(Filters)
      BY <3>2, <3>3
    <3> QED BY <3>4, <3>5
  <2>3. [dialog EXCEPT !.filter = nextFilter(@), !.agent = 0] \in DialogType
    <3>1. dialog \in DialogType
      BY DEF ViewTyped
    <3>2. PICK f \in {Filters[k] : k \in 1..Len(Filters)} : f = nextFilter(dialog.filter)
      BY <2>2
    <3>3. [dialog EXCEPT !.filter = f, !.agent = 0] \in DialogType
      BY <3>1, MovedTyped
    <3> QED BY <3>2, <3>3
  <2> QED BY <1>4, <2>1, <2>3
<1>11. CASE key = "kill"
  <2>1. Act(key, view.entry)
    BY <1>2, <1>11 DEF handleWorkflowDialogKey, agentActions
  <2> QED BY <1>6, <1>11, <2>1
<1>12. CASE key \in {"skip", "retry"}
  <2>1. key \in agentActions(view.entry) /\ Act(key, view.entry)
    BY <1>2, <1>12 DEF handleWorkflowDialogKey
  <2>2. view.entry # <<>>
    BY <2>1 DEF agentActions
  <2> QED BY <1>5, <1>12, <2>1, <2>2
<1> QED BY <1>7, <1>8, <1>9, <1>10, <1>11, <1>12 DEF Keys

\* In every reachable state of a run and its view, each agent of the log is a row of
\* exactly one group of the tree, for any titles, however phases were declared, named
\* and used, and whatever keys the user pressed (mergePhases, buildPhaseGroups).
THEOREM TreeShowsEveryAgent == ViewSpec => []EveryAgentShown
<1>1. ViewInit => ViewTyped
  <2> SUFFICES ASSUME ViewInit PROVE ViewTyped
    OBVIOUS
  <2>1. progress \in Seq(LogRows) /\ declared \in Seq(Titles)
    <3>1. progress \in Seq(LogRows)
      BY DEF ViewInit
    <3>2. declared = <<>> \/ (\E t \in Titles : declared = <<t>>) \/ \E t, u \in Titles : declared = <<t, u>>
      BY DEF ViewInit
    <3>3. <<>> \in Seq(Titles)
      OBVIOUS
    <3>4. \A t \in Titles : <<t>> \in Seq(Titles)
      OBVIOUS
    <3>5. \A t, u \in Titles : <<t, u>> \in Seq(Titles)
      OBVIOUS
    <3>6. declared \in Seq(Titles)
      BY <3>2, <3>3, <3>4, <3>5, Zenon
    <3> QED BY <3>1, <3>6
  <2>2. dialog \in DialogType
    BY DEF ViewInit, FreshDialog, DialogType, Filters
  <2> QED BY <2>1, <2>2 DEF ViewTyped
<1>2. ViewTyped /\ [ViewNext]_viewvars => ViewTyped'
  <2> SUFFICES ASSUME ViewTyped, [ViewNext]_viewvars PROVE ViewTyped'
    OBVIOUS
  <2>1. CASE Emit
    BY <2>1, EmitTyped
  <2>2. CASE RunEnds
    BY <2>2 DEF RunEnds, ViewTyped
  <2>3. CASE Press
    BY <2>3, PressTyped
  <2>4. CASE UNCHANGED viewvars
    BY <2>4 DEF viewvars, ViewTyped
  <2> QED BY <2>1, <2>2, <2>3, <2>4 DEF ViewNext
<1>3. ViewTyped => EveryAgentShown
  <2> DEFINE groups == buildPhaseGroups(progress, declared)
             all == DOMAIN collapse(progress)
             of(i) == {k \in 1..Len(groups) : i \in groups[k].agents}
  <2> SUFFICES ASSUME ViewTyped, NEW i \in all PROVE Cardinality(of(i)) = 1
    BY DEF EveryAgentShown
  <2>1. ShownOnce(groups, all)
    BY TreeShowsOnce DEF ViewTyped
  <2> HIDE DEF groups, all
  <2>2. PICK k \in 1..Len(groups) : \A j \in 1..Len(groups) : i \in groups[j].agents <=> j = k
    BY <2>1 DEF ShownOnce
  <2>3. of(i) = {k}
    BY <2>2
  <2> QED BY <2>3, FS_Singleton
<1> QED BY <1>1, <1>2, <1>3, PTL DEF ViewSpec
=============================================================================
