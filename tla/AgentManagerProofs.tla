------------------------- MODULE AgentManagerProofs -------------------------
(***************************************************************************)
(* Proofs about AgentManager, for every number of agents, resumes and      *)
(* every value of the limits: the pool counters never drift from the runs  *)
(* that hold slots, a blocked spawnAndWait is always owed a wake-up, a     *)
(* child does not outlive the run of its parent, no step overfills a pool  *)
(* or leaves a slot idle that a waiting entry could take, spawnAndWait     *)
(* hands its caller only the record of an agent that is done, and whatever *)
(* is active has a run.  From the last: waitForAll (WaitForAll) does not   *)
(* return while an agent runs.                                             *)
(*                                                                         *)
(* IInv is the inductive invariant.  It is a predicate on the state        *)
(* records the manager's methods work on, so that each method gets one     *)
(* lemma (it preserves IInv) and each action composes those lemmas the     *)
(* way it composes the methods.                                            *)
(***************************************************************************)
EXTENDS WaitForAll, FiniteSetTheorems, WellFoundedInduction, TLAPS

Accounted(s) ==
    /\ s.bg = Cardinality(Charged(s, "background"))
    /\ s.fg = Cardinality(Charged(s, "foreground"))

\* startResume's settle asks occupiesPoolSlot again instead of remembering the
\* pool: the answer cannot have changed.
ResumesCharged(s) ==
    \A x \in RunIds :
        /\ s.runs[x].kind = "resume" /\ s.runs[x].phase \in Holding \cup {"queued"} =>
               OccupiesPoolSlot(s.rec[x[1]])
        /\ s.runs[x].kind = "resume" /\ s.runs[x].phase \in Holding => s.runs[x].pool = "background"

\* An id that was not handed out has no runs.
FreshIdle(s) ==
    \A x \in RunIds : s.rec[x[1]].status = "none" => s.runs[x].phase = "idle"

Owed(s) ==
    \A a \in Agents :
        /\ s.caller[a] = "start" => s.runs[<<a, 0>>].phase \in {"queued", "copying", "discarding"}
        /\ s.caller[a] = "run" => s.runs[<<a, 0>>].phase \in {"running", "cleanup"}

IInv(s) == s \in State /\ Accounted(s) /\ ResumesCharged(s) /\ FreshIdle(s) /\ Owed(s)

-----------------------------------------------------------------------------
(***************************************************************************)
(* Finite sets of runs.                                                    *)
(***************************************************************************)
LEMMA RunIdsFinite == IsFiniteSet(RunIds)
  <1>1. IsFiniteSet(0..MaxResumes)
    BY FS_Interval, ConstantsAssumption
  <1>2. QED
    BY <1>1, FS_Product, ConstantsAssumption DEF RunIds

\* Sets of runs are finite, so the counters have something to count.
LEMMA RunsFinite == ASSUME NEW S \in SUBSET RunIds PROVE IsFiniteSet(S) /\ Cardinality(S) \in Nat
  BY RunIdsFinite, FS_Subset, FS_CardinalityType

\* A run that joins a set of runs adds one to its size.
LEMMA CardMore ==
    ASSUME NEW A \in SUBSET RunIds, NEW Y \in SUBSET RunIds, A \cap Y = {}
    PROVE  Cardinality(A \cup Y) = Cardinality(A) + Cardinality(Y)
  <1>1. IsFiniteSet(A) /\ IsFiniteSet(Y) /\ Cardinality(A) \in Nat /\ Cardinality(Y) \in Nat
    BY RunsFinite
  <1>2. Cardinality(A \cup Y) = Cardinality(A) + Cardinality(Y) - Cardinality(A \cap Y)
    BY <1>1, FS_Union
  <1>3. Cardinality(A \cap Y) = 0
    BY FS_EmptySet
  <1>4. QED
    BY <1>1, <1>2, <1>3

\* A run that leaves a set of runs takes one from its size.
LEMMA CardLess ==
    ASSUME NEW A \in SUBSET RunIds, NEW x \in A
    PROVE  Cardinality(A \ {x}) = Cardinality(A) - 1
  <1>1. IsFiniteSet(A)
    BY RunsFinite
  <1>2. QED
    BY <1>1, FS_RemoveElement

-----------------------------------------------------------------------------
(***************************************************************************)
(* The manager's methods preserve IInv.                                    *)
(***************************************************************************)
LEMMA ChargeType ==
    ASSUME NEW s \in State, NEW x \in RunIds
    PROVE  Charge(s, x) \in Pools \cup {"none"}
  BY DEF Charge, PoolFor, Pools

\* The types of the manager's fields.
LEMMA StateParts ==
    ASSUME NEW s \in State
    PROVE  /\ s.agents \in SUBSET Agents /\ s.rec \in [Agents -> AgentRecord]
           /\ s.runs \in [RunIds -> Run] /\ s.caller \in [Agents -> CallerStates]
           /\ s.bg \in Int /\ s.fg \in Int
           /\ s.bgLimit \in Nat \ {0} /\ s.fgLimit \in Nat /\ s.open \in BOOLEAN
  BY DEF State

\* A run is an agent and a number.
LEMMA RunIdParts ==
    /\ \A x \in RunIds : x[1] \in Agents
    /\ \A a \in Agents : <<a, 0>> \in RunIds
  BY ConstantsAssumption DEF RunIds

\* What the single updates change.
LEMMA DroppedFacts ==
    ASSUME NEW s \in State, NEW X \in SUBSET RunIds, NEW result \in CallerStates
    PROVE  LET t == Dropped(s, X, result) IN
           /\ t \in State
           /\ t.agents = s.agents /\ t.rec = s.rec /\ t.bg = s.bg /\ t.fg = s.fg
           /\ t.bgLimit = s.bgLimit /\ t.fgLimit = s.fgLimit /\ t.open = s.open
           /\ \A x \in RunIds \ X : t.runs[x] = s.runs[x]
           /\ \A x \in X : t.runs[x].phase = "dropped" /\ t.runs[x].kind = s.runs[x].kind
           /\ \A a \in Agents : t.caller[a] = IF <<a, 0>> \in X /\ s.caller[a] = "start"
                                              THEN result ELSE s.caller[a]
  <1> DEFINE U == [x \in RunIds |-> IF x \in X THEN [s.runs[x] EXCEPT !.phase = "dropped", !.ahead = {}]
                                    ELSE s.runs[x]]
             C == [a \in Agents |-> IF <<a, 0>> \in X /\ s.caller[a] = "start"
                                    THEN result ELSE s.caller[a]]
             t == [s EXCEPT !.runs = U, !.caller = C]
  <1>1. s.runs \in [RunIds -> Run] /\ s.caller \in [Agents -> CallerStates]
    BY StateParts
  <1>2. ASSUME NEW x \in RunIds
        PROVE  U[x] \in Run /\ (x \notin X => U[x] = s.runs[x])
               /\ (x \in X => U[x].phase = "dropped" /\ U[x].kind = s.runs[x].kind)
    <2>1. CASE x \notin X
      BY <1>1, <2>1
    <2>2. CASE x \in X
      <3> DEFINE r == s.runs[x]
      <3>1. r \in Run /\ U[x] = [r EXCEPT !.phase = "dropped", !.ahead = {}]
        BY <1>1, <2>2
      <3>2. "dropped" \in Phases
        BY DEF Phases
      <3> HIDE DEF U, r
      <3>3. U[x] \in Run /\ U[x].phase = "dropped" /\ U[x].kind = r.kind
        BY <3>1, <3>2 DEF Run
      <3>4. QED
        BY <2>2, <3>3 DEF r
    <2>3. QED
      BY <2>1, <2>2
  <1>3. U \in [RunIds -> Run] /\ C \in [Agents -> CallerStates]
    <2>1. U \in [RunIds -> Run]
      BY <1>2
    <2>2. C \in [Agents -> CallerStates]
      BY <1>1
    <2>3. QED
      BY <2>1, <2>2
  <1>4. \A a \in Agents : C[a] = IF <<a, 0>> \in X /\ s.caller[a] = "start" THEN result ELSE s.caller[a]
    OBVIOUS
  <1>5. Dropped(s, X, result) = t
    BY DEF Dropped
  <1> HIDE DEF U, C
  <1>6. /\ t \in State
        /\ t.agents = s.agents /\ t.rec = s.rec /\ t.bg = s.bg /\ t.fg = s.fg
        /\ t.bgLimit = s.bgLimit /\ t.fgLimit = s.fgLimit /\ t.open = s.open
        /\ t.runs = U /\ t.caller = C
    BY <1>3 DEF State
  <1> HIDE DEF t
  <1>7. QED
    BY <1>2, <1>4, <1>5, <1>6

\* What setting a record's status changes, and what it leaves.
LEMMA WithStatusFacts ==
    ASSUME NEW s \in State, NEW S, NEW status \in Statuses
    PROVE  LET t == WithStatus(s, S, status) IN
           /\ t \in State
           /\ t.agents = s.agents /\ t.runs = s.runs /\ t.caller = s.caller /\ t.bg = s.bg /\ t.fg = s.fg
           /\ t.bgLimit = s.bgLimit /\ t.fgLimit = s.fgLimit /\ t.open = s.open
           /\ \A a \in Agents : /\ t.rec[a].status = IF a \in S THEN status ELSE s.rec[a].status
                                /\ t.rec[a].isBackground = s.rec[a].isBackground
                                /\ t.rec[a].owner = s.rec[a].owner
                                /\ t.rec[a].opt = s.rec[a].opt
                                /\ t.rec[a].session = s.rec[a].session
  <1> DEFINE R == [a \in Agents |-> IF a \in S THEN [s.rec[a] EXCEPT !.status = status] ELSE s.rec[a]]
             t == [s EXCEPT !.rec = R]
  <1>1. s.rec \in [Agents -> AgentRecord]
    BY StateParts
  <1>2. ASSUME NEW a \in Agents
        PROVE  /\ R[a] \in AgentRecord
               /\ R[a].status = IF a \in S THEN status ELSE s.rec[a].status
               /\ R[a].isBackground = s.rec[a].isBackground
               /\ R[a].owner = s.rec[a].owner
               /\ R[a].opt = s.rec[a].opt
               /\ R[a].session = s.rec[a].session
    BY <1>1 DEF AgentRecord
  <1>3. R \in [Agents -> AgentRecord]
    BY <1>2
  <1>4. WithStatus(s, S, status) = t
    BY DEF WithStatus
  <1> HIDE DEF R
  <1>5. /\ t \in State /\ t.rec = R
        /\ t.agents = s.agents /\ t.runs = s.runs /\ t.caller = s.caller /\ t.bg = s.bg /\ t.fg = s.fg
        /\ t.bgLimit = s.bgLimit /\ t.fgLimit = s.fgLimit /\ t.open = s.open
    BY <1>3 DEF State
  <1> HIDE DEF t
  <1>6. QED
    BY <1>2, <1>4, <1>5

\* What moving a run to another phase changes, and what it leaves.
LEMMA InPhaseFacts ==
    ASSUME NEW s \in State, NEW x \in RunIds, NEW phase \in Phases
    PROVE  LET t == InPhase(s, x, phase) IN
           /\ t \in State
           /\ t.agents = s.agents /\ t.rec = s.rec /\ t.caller = s.caller /\ t.bg = s.bg /\ t.fg = s.fg
           /\ t.bgLimit = s.bgLimit /\ t.fgLimit = s.fgLimit /\ t.open = s.open
           /\ \A y \in RunIds \ {x} : t.runs[y] = s.runs[y]
           /\ t.runs[x].phase = phase /\ t.runs[x].kind = s.runs[x].kind /\ t.runs[x].pool = s.runs[x].pool
  <1> DEFINE U == [s.runs EXCEPT ![x].phase = phase]
             t == [s EXCEPT !.runs = U]
  <1>1. s.runs \in [RunIds -> Run]
    BY StateParts
  <1>2. /\ U \in [RunIds -> Run]
        /\ \A y \in RunIds \ {x} : U[y] = s.runs[y]
        /\ U[x].phase = phase /\ U[x].kind = s.runs[x].kind /\ U[x].pool = s.runs[x].pool
    BY <1>1 DEF Run
  <1>3. InPhase(s, x, phase) = t
    BY DEF InPhase
  <1> HIDE DEF U
  <1>4. /\ t \in State /\ t.runs = U
        /\ t.agents = s.agents /\ t.rec = s.rec /\ t.caller = s.caller /\ t.bg = s.bg /\ t.fg = s.fg
        /\ t.bgLimit = s.bgLimit /\ t.fgLimit = s.fgLimit /\ t.open = s.open
    BY <1>2 DEF State
  <1> HIDE DEF t
  <1>5. QED
    BY <1>2, <1>3, <1>4

\* What giving back a slot changes, and what it leaves.
LEMMA ReleasedFacts ==
    ASSUME NEW s \in State, NEW pool
    PROVE  LET t == Released(s, pool) IN
           /\ t \in State
           /\ t.agents = s.agents /\ t.rec = s.rec /\ t.runs = s.runs /\ t.caller = s.caller
           /\ t.bgLimit = s.bgLimit /\ t.fgLimit = s.fgLimit /\ t.open = s.open
           /\ t.bg = IF pool = "background" THEN s.bg - 1 ELSE s.bg
           /\ t.fg = IF pool = "foreground" THEN s.fg - 1 ELSE s.fg
  <1> DEFINE B == IF pool = "background" THEN s.bg - 1 ELSE s.bg
             F == IF pool = "foreground" THEN s.fg - 1 ELSE s.fg
             t == [s EXCEPT !.bg = B, !.fg = F]
  <1>1. B \in Int /\ F \in Int
    BY StateParts
  <1>2. Released(s, pool) = t
    BY DEF Released
  <1> HIDE DEF B, F
  <1>3. /\ t \in State /\ t.bg = B /\ t.fg = F
        /\ t.agents = s.agents /\ t.rec = s.rec /\ t.runs = s.runs /\ t.caller = s.caller
        /\ t.bgLimit = s.bgLimit /\ t.fgLimit = s.fgLimit /\ t.open = s.open
    BY <1>1 DEF State
  <1> HIDE DEF t
  <1>4. QED
    BY <1>2, <1>3 DEF B, F

\* What startAgent and startResume change, and what they leave.
LEMMA StartedFacts ==
    ASSUME NEW s \in State, NEW X \in SUBSET RunIds
    PROVE  LET copies(x) == s.runs[x].kind = "spawn" /\ s.rec[x[1]].opt.worktree
               t == Started(s, X)
           IN /\ t \in State /\ t.agents = s.agents
              /\ \A a \in Agents :
                    /\ t.rec[a].status = IF \E x \in X : x[1] = a THEN "running" ELSE s.rec[a].status
                    /\ t.rec[a].isBackground = s.rec[a].isBackground
                    /\ t.rec[a].owner = s.rec[a].owner
                    /\ t.caller[a] = IF <<a, 0>> \in X /\ ~copies(<<a, 0>>) /\ s.caller[a] = "start"
                                     THEN "run" ELSE s.caller[a]
              /\ \A x \in RunIds \ X : t.runs[x] = s.runs[x]
              /\ \A x \in X : /\ t.runs[x].phase = IF copies(x) THEN "copying" ELSE "running"
                              /\ t.runs[x].pool = Charge(s, x)
                              /\ t.runs[x].kind = s.runs[x].kind
              /\ t.bg = s.bg + Cardinality({x \in X : Charge(s, x) = "background"})
              /\ t.fg = s.fg + Cardinality({x \in X : Charge(s, x) = "foreground"})
  <1> DEFINE copies(x) == s.runs[x].kind = "spawn" /\ s.rec[x[1]].opt.worktree
             charged(pool) == {x \in X : Charge(s, x) = pool}
             R == [a \in Agents |-> IF \E x \in X : x[1] = a
                                    THEN [s.rec[a] EXCEPT !.status = "running"]
                                    ELSE s.rec[a]]
             U == [x \in RunIds |->
                      IF x \in X
                      THEN [s.runs[x] EXCEPT !.phase = IF copies(x) THEN "copying" ELSE "running",
                                             !.pool = Charge(s, x),
                                             !.clash = Streaming(s, x[1]),
                                             !.ahead = {}]
                      ELSE s.runs[x]]
             C == [a \in Agents |-> IF <<a, 0>> \in X /\ ~copies(<<a, 0>>)
                                          /\ s.caller[a] = "start"
                                       THEN "run" ELSE s.caller[a]]
             B == s.bg + Cardinality(charged("background"))
             F == s.fg + Cardinality(charged("foreground"))
             t == [s EXCEPT !.rec = R, !.runs = U, !.caller = C, !.bg = B, !.fg = F]
  <1>1. Started(s, X) = t
    BY DEF Started
  <1>2. s \in State /\ s.rec \in [Agents -> AgentRecord] /\ s.runs \in [RunIds -> Run]
        /\ s.caller \in [Agents -> CallerStates] /\ s.bg \in Int /\ s.fg \in Int
    BY StateParts
  <1>3. ASSUME NEW a \in Agents
        PROVE  /\ R[a] \in AgentRecord
               /\ R[a].status = IF \E x \in X : x[1] = a THEN "running" ELSE s.rec[a].status
               /\ R[a].isBackground = s.rec[a].isBackground
               /\ R[a].owner = s.rec[a].owner
    BY <1>2 DEF AgentRecord, Statuses
  <1>4. ASSUME NEW x \in RunIds \ X PROVE U[x] = s.runs[x] /\ U[x] \in Run
    BY <1>2
  <1>5. ASSUME NEW x \in X
        PROVE  /\ U[x] \in Run
               /\ U[x].phase = IF copies(x) THEN "copying" ELSE "running"
               /\ U[x].pool = Charge(s, x)
               /\ U[x].kind = s.runs[x].kind
    <2>1. Streaming(s, x[1]) \in BOOLEAN
      BY DEF Streaming
    <2>2. Charge(s, x) \in Pools \cup {"none"}
      BY <1>2, ChargeType
    <2> DEFINE p == IF copies(x) THEN "copying" ELSE "running"
               q == Charge(s, x)
               c == Streaming(s, x[1])
               r == s.runs[x]
    <2>3. p \in Phases /\ r \in Run /\ U[x] = [r EXCEPT !.phase = p, !.pool = q, !.clash = c, !.ahead = {}]
      BY <1>2 DEF Phases
    <2> HIDE DEF U, p, q, c, r
    <2>4. U[x] \in Run /\ U[x].phase = p /\ U[x].pool = q /\ U[x].kind = r.kind
      <3>1. c \in BOOLEAN /\ q \in Pools \cup {"none"}
        BY <2>1, <2>2 DEF c, q
      <3>2. QED
        BY <2>3, <3>1 DEF Run
    <2>5. QED
      BY <2>4 DEF p, q, r
  <1>6. ASSUME NEW a \in Agents
        PROVE  /\ C[a] \in CallerStates
               /\ C[a] = IF <<a, 0>> \in X /\ ~copies(<<a, 0>>) /\ s.caller[a] = "start"
                         THEN "run" ELSE s.caller[a]
    BY <1>2 DEF CallerStates
  <1>7. /\ R \in [Agents -> AgentRecord] /\ U \in [RunIds -> Run] /\ C \in [Agents -> CallerStates]
        /\ B \in Int /\ F \in Int
    <2>1. R \in [Agents -> AgentRecord]
      BY <1>3
    <2>2. U \in [RunIds -> Run]
      BY <1>4, <1>5
    <2>3. C \in [Agents -> CallerStates]
      BY <1>6
    <2>4. B \in Int /\ F \in Int
      BY <1>2, RunsFinite
    <2>5. QED
      BY <2>1, <2>2, <2>3, <2>4
  <1> HIDE DEF R, U, C, B, F
  <1>8. t \in State /\ t.rec = R /\ t.runs = U /\ t.caller = C /\ t.bg = B /\ t.fg = F
        /\ t.agents = s.agents
    BY <1>2, <1>7 DEF State
  <1> HIDE DEF t
  <1>9. t.bg = s.bg + Cardinality(charged("background")) /\ t.fg = s.fg + Cardinality(charged("foreground"))
    BY <1>8 DEF B, F
  <1>10. QED
    BY <1>1, <1>3, <1>4, <1>5, <1>6, <1>8, <1>9

\* startAgent and startResume keep the invariant: the slot they take is the one
\* their run holds.
LEMMA StartedInv ==
    ASSUME NEW s, IInv(s), NEW X \in SUBSET RunIds,
           \A x \in X : s.runs[x].phase \notin Holding,
           \A x \in X : s.runs[x].kind = "resume" => OccupiesPoolSlot(s.rec[x[1]])
    PROVE  IInv(Started(s, X))
  <1> DEFINE copies(x) == s.runs[x].kind = "spawn" /\ s.rec[x[1]].opt.worktree
             charged(pool) == {x \in X : Charge(s, x) = pool}
             t == Started(s, X)
  <1>1. s \in State
    BY DEF IInv
  <1>2. /\ t \in State
        /\ \A a \in Agents :
              /\ t.rec[a].status = IF \E x \in X : x[1] = a THEN "running" ELSE s.rec[a].status
              /\ t.rec[a].isBackground = s.rec[a].isBackground
              /\ t.rec[a].owner = s.rec[a].owner
              /\ t.caller[a] = IF <<a, 0>> \in X /\ ~copies(<<a, 0>>) /\ s.caller[a] = "start"
                               THEN "run" ELSE s.caller[a]
        /\ \A x \in RunIds \ X : t.runs[x] = s.runs[x]
        /\ \A x \in X : /\ t.runs[x].phase = IF copies(x) THEN "copying" ELSE "running"
                        /\ t.runs[x].pool = Charge(s, x)
                        /\ t.runs[x].kind = s.runs[x].kind
        /\ t.bg = s.bg + Cardinality(charged("background"))
        /\ t.fg = s.fg + Cardinality(charged("foreground"))
    BY <1>1, StartedFacts, ZenonT(40)
  <1> HIDE DEF t
  <1>3. Accounted(t)
    <2>1. \A x \in RunIds \ X : t.runs[x] = s.runs[x]
      BY <1>2
    <2>2. \A x \in X : t.runs[x].phase \in Holding /\ t.runs[x].pool = Charge(s, x)
      BY <1>2 DEF Holding
    <2>3. ASSUME NEW pool
          PROVE  Cardinality(Charged(t, pool)) = Cardinality(Charged(s, pool)) + Cardinality(charged(pool))
      <3>1. Charged(t, pool) = Charged(s, pool) \cup charged(pool) /\ Charged(s, pool) \cap charged(pool) = {}
        BY <2>1, <2>2 DEF Charged
      <3>2. Charged(s, pool) \in SUBSET RunIds /\ charged(pool) \in SUBSET RunIds
        BY DEF Charged
      <3> HIDE DEF charged
      <3>3. QED
        BY <3>1, <3>2, CardMore
    <2>4. QED
      BY <1>2, <2>3 DEF Accounted, IInv
  <1>4. ResumesCharged(t)
    <2>1. ASSUME NEW x \in RunIds PROVE OccupiesPoolSlot(t.rec[x[1]]) <=> OccupiesPoolSlot(s.rec[x[1]])
      BY <1>2, RunIdParts DEF OccupiesPoolSlot, IsTopLevelAgent
    <2>2. \A x \in X : t.runs[x].kind = "resume" =>
              t.runs[x].pool = "background" /\ OccupiesPoolSlot(s.rec[x[1]])
      BY <1>2 DEF Charge
    <2>3. \A x \in RunIds \ X : t.runs[x] = s.runs[x]
      BY <1>2
    <2>4. QED
      BY <2>1, <2>2, <2>3 DEF ResumesCharged, IInv
  <1>5. FreshIdle(t)
    <2>1. ASSUME NEW x \in RunIds, t.rec[x[1]].status = "none"
          PROVE  s.rec[x[1]].status = "none" /\ x \notin X
      BY <1>2, <2>1, RunIdParts
    <2>2. QED
      BY <1>2, <2>1 DEF FreshIdle, IInv
  <1>6. Owed(t)
    <2>1. ASSUME NEW a \in Agents, <<a, 0>> \notin X
          PROVE  t.caller[a] = s.caller[a] /\ t.runs[<<a, 0>>] = s.runs[<<a, 0>>]
      BY <1>2, <2>1, RunIdParts
    <2>2. ASSUME NEW a \in Agents, <<a, 0>> \in X
          PROVE  /\ t.runs[<<a, 0>>].phase = IF copies(<<a, 0>>) THEN "copying" ELSE "running"
                 /\ t.caller[a] = IF ~copies(<<a, 0>>) /\ s.caller[a] = "start" THEN "run" ELSE s.caller[a]
                 /\ s.caller[a] # "run"
      BY <1>2, <2>2 DEF Owed, IInv, Holding
    <2>3. QED
      BY <2>1, <2>2 DEF Owed, IInv
  <1>7. QED
    BY <1>2, <1>3, <1>4, <1>5, <1>6 DEF IInv, t

\* A state whose slot holders are the same.
LEMMA SameAccount ==
    ASSUME NEW s, NEW u, Accounted(s), u.bg = s.bg, u.fg = s.fg,
           \A x \in RunIds : u.runs[x].phase \in Holding <=> s.runs[x].phase \in Holding,
           \A x \in RunIds : s.runs[x].phase \in Holding => u.runs[x].pool = s.runs[x].pool
    PROVE  Accounted(u)
  <1>1. ASSUME NEW pool PROVE Charged(u, pool) = Charged(s, pool)
    BY DEF Charged
  <1>2. QED
    BY <1>1 DEF Accounted

\* dequeue keeps the invariant: who leaves the queue wakes its caller.
LEMMA DroppedInv ==
    ASSUME NEW s, IInv(s), NEW X \in SUBSET RunIds, NEW result \in {"returned", "threw"},
           \A x \in X : s.runs[x].phase \notin Holding /\ s.rec[x[1]].status # "none"
    PROVE  IInv(Dropped(s, X, result))
  <1> DEFINE t == Dropped(s, X, result)
  <1>1. s \in State /\ result \in CallerStates
    BY DEF IInv, CallerStates
  <1>2. /\ t \in State /\ t.rec = s.rec /\ t.bg = s.bg /\ t.fg = s.fg
        /\ \A x \in RunIds \ X : t.runs[x] = s.runs[x]
        /\ \A x \in X : t.runs[x].phase = "dropped" /\ t.runs[x].kind = s.runs[x].kind
        /\ \A a \in Agents : t.caller[a] = IF <<a, 0>> \in X /\ s.caller[a] = "start"
                                           THEN result ELSE s.caller[a]
    BY <1>1, DroppedFacts
  <1> HIDE DEF t
  <1>3. Accounted(t)
    <2>1. \A x \in RunIds : t.runs[x].phase \in Holding <=> s.runs[x].phase \in Holding
      BY <1>2 DEF Holding
    <2>2. \A x \in RunIds : s.runs[x].phase \in Holding => t.runs[x].pool = s.runs[x].pool
      BY <1>2
    <2>3. QED
      BY <1>2, <2>1, <2>2, SameAccount DEF IInv
  <1>4. ResumesCharged(t)
    BY <1>2 DEF ResumesCharged, IInv, Holding
  <1>5. FreshIdle(t)
    BY <1>2 DEF FreshIdle, IInv
  <1>6. Owed(t)
    <2>1. ASSUME NEW a \in Agents, <<a, 0>> \in X PROVE t.caller[a] \notin {"start", "run"}
      BY <1>2, <2>1, RunIdParts DEF Owed, IInv, Holding
    <2>2. ASSUME NEW a \in Agents, <<a, 0>> \notin X
          PROVE  t.caller[a] = s.caller[a] /\ t.runs[<<a, 0>>] = s.runs[<<a, 0>>]
      BY <1>2, <2>2, RunIdParts
    <2>3. QED
      BY <2>1, <2>2 DEF Owed, IInv
  <1>7. QED
    BY <1>2, <1>3, <1>4, <1>5, <1>6 DEF IInv, t

\* A state in which only records changed, and not the fields pools depend on.
LEMMA RecordsOnly ==
    ASSUME NEW s, IInv(s), NEW u \in State,
           u.runs = s.runs, u.caller = s.caller, u.bg = s.bg, u.fg = s.fg,
           \A a \in Agents : /\ u.rec[a].isBackground = s.rec[a].isBackground
                             /\ u.rec[a].owner = s.rec[a].owner
                             /\ u.rec[a].status = "none" => s.rec[a].status = "none"
    PROVE  IInv(u)
  <1>1. Accounted(u)
    BY SameAccount DEF IInv
  <1>2. ResumesCharged(u)
    BY RunIdParts DEF ResumesCharged, IInv, OccupiesPoolSlot, IsTopLevelAgent
  <1>3. FreshIdle(u)
    BY RunIdParts DEF FreshIdle, IInv
  <1>4. Owed(u)
    BY DEF Owed, IInv
  <1>5. QED
    BY <1>1, <1>2, <1>3, <1>4 DEF IInv

\* Writing a status to records keeps the invariant.
LEMMA WithStatusInv ==
    ASSUME NEW s, IInv(s), NEW S, NEW status \in Statuses \ {"none"}
    PROVE  IInv(WithStatus(s, S, status))
  <1> DEFINE t == WithStatus(s, S, status)
  <1>1. /\ t \in State /\ t.runs = s.runs /\ t.caller = s.caller /\ t.bg = s.bg /\ t.fg = s.fg
        /\ \A a \in Agents : /\ t.rec[a].status = IF a \in S THEN status ELSE s.rec[a].status
                             /\ t.rec[a].isBackground = s.rec[a].isBackground
                             /\ t.rec[a].owner = s.rec[a].owner
    BY WithStatusFacts DEF IInv
  <1> HIDE DEF t
  <1>2. IInv(t)
    BY <1>1, RecordsOnly
  <1>3. QED
    BY <1>2 DEF t

\* abort keeps the invariant, for a queued and for a running record.
LEMMA AbortedInv ==
    ASSUME NEW s, IInv(s), NEW S
    PROVE  IInv(Aborted(s, S))
  <1> DEFINE hit == {a \in S \cap s.agents : s.rec[a].status \in Active}
             out == {x \in Queue(s) : x[1] \in hit /\ s.rec[x[1]].status = "queued"}
             d == Dropped(s, out, "returned")
  <1>1. out \in SUBSET RunIds /\ \A x \in out : s.runs[x].phase \notin Holding /\ s.rec[x[1]].status # "none"
    BY DEF Queue, Holding
  <1>2. IInv(d)
    <2> HIDE DEF out
    <2>1. QED
      BY <1>1, DroppedInv
  <1>3. IInv(WithStatus(d, hit, "stopped"))
    <2> HIDE DEF d, hit
    <2>1. "stopped" \in Statuses \ {"none"}
      BY DEF Statuses
    <2>2. QED
      BY <1>2, <2>1, WithStatusInv
  <1>4. QED
    BY <1>3 DEF Aborted

\* drainQueue keeps the invariant, whatever entries it starts and drops.
LEMMA DrainedInv ==
    ASSUME NEW s, IInv(s), NEW gone \in SUBSET MayBeGone(s)
    PROVE  IInv(Drained(s, gone))
  <1> DEFINE taken == Reached(s, gone)
             S1 == taken \ Startable(s)
             S2 == taken \cap gone
             S3 == (taken \cap Startable(s)) \ gone
             ids == {x[1] : x \in S2}
             stale == Dropped(s, S1, "returned")
             unmade == Dropped(stale, S2, "threw")
             failed == WithStatus(unmade, ids, "error")
  <1>0. s \in State
    BY DEF IInv
  <1>1. /\ S1 \in SUBSET RunIds /\ S2 \in SUBSET RunIds /\ S3 \in SUBSET RunIds
        /\ S1 \cap S2 = {} /\ S1 \cap S3 = {} /\ S2 \cap S3 = {}
        /\ \A x \in S1 \cup S2 \cup S3 : s.runs[x].phase = "queued" /\ s.rec[x[1]].status # "none"
    <2>1. S2 \subseteq Startable(s)
      BY DEF MayBeGone
    <2>2. taken \subseteq Queue(s) /\ Startable(s) \subseteq Queue(s) /\ Queue(s) \subseteq RunIds
      BY DEF Reached, Startable, Queue
    <2>3. \A x \in Queue(s) : s.runs[x].phase = "queued" /\ s.rec[x[1]].status # "none"
      BY RunIdParts DEF Queue, IInv, FreshIdle
    <2>4. QED
      BY <2>1, <2>2, <2>3
  <1>2. \A x \in S1 \cup S2 \cup S3 : s.runs[x].phase \notin Holding
    BY <1>1 DEF Holding
  <1> HIDE DEF S1, S2, S3, ids
  <1>3. IInv(stale)
    BY <1>1, <1>2, DroppedInv
  <1>4. stale \in State /\ stale.rec = s.rec /\ \A x \in S2 \cup S3 : stale.runs[x] = s.runs[x]
    BY <1>0, <1>1, DroppedFacts DEF CallerStates
  <1> HIDE DEF stale
  <1>5. IInv(unmade)
    BY <1>1, <1>2, <1>3, <1>4, DroppedInv
  <1>6. unmade \in State /\ unmade.rec = s.rec /\ \A x \in S3 : unmade.runs[x] = s.runs[x]
    BY <1>1, <1>4, DroppedFacts DEF CallerStates
  <1> HIDE DEF unmade
  <1>7. IInv(failed) /\ failed.runs = unmade.runs
        /\ \A a \in Agents : /\ failed.rec[a].isBackground = s.rec[a].isBackground
                             /\ failed.rec[a].owner = s.rec[a].owner
    <2>1. "error" \in Statuses \ {"none"}
      BY DEF Statuses
    <2>2. QED
      BY <1>5, <1>6, <2>1, WithStatusInv, WithStatusFacts
  <1> HIDE DEF failed
  <1>8. \A x \in S3 : failed.runs[x] = s.runs[x]
    BY <1>6, <1>7
  <1>9. \A x \in S3 : failed.runs[x].kind = "resume" => OccupiesPoolSlot(failed.rec[x[1]])
    <2>1. \A x \in S3 : s.runs[x].kind = "resume" => OccupiesPoolSlot(s.rec[x[1]])
      BY <1>1 DEF IInv, ResumesCharged
    <2>2. \A x \in S3 : OccupiesPoolSlot(s.rec[x[1]]) => OccupiesPoolSlot(failed.rec[x[1]])
      BY <1>1, <1>7, RunIdParts DEF OccupiesPoolSlot, IsTopLevelAgent
    <2>3. QED
      BY <1>8, <2>1, <2>2
  <1>10. IInv(Started(failed, S3))
    <2>1. \A x \in S3 : failed.runs[x].phase \notin Holding
      BY <1>2, <1>8
    <2>2. QED
      BY <1>1, <1>7, <1>9, <2>1, StartedInv
  <1>11. QED
    BY <1>10 DEF Drained, failed, unmade, stale, ids, S1, S2, S3

\* A run that gives its slot back.
LEMMA FreeSlot ==
    ASSUME NEW s, IInv(s), NEW u \in State, NEW x \in RunIds,
           s.runs[x].phase \in Holding,
           u.runs[x].phase \in {"discarding", "settled", "dropped"},
           \A y \in RunIds \ {x} : u.runs[y] = s.runs[y],
           \A a \in Agents : /\ u.rec[a].isBackground = s.rec[a].isBackground
                             /\ u.rec[a].owner = s.rec[a].owner
                             /\ u.rec[a].status = "none" => s.rec[a].status = "none",
           u.bg = IF s.runs[x].pool = "background" THEN s.bg - 1 ELSE s.bg,
           u.fg = IF s.runs[x].pool = "foreground" THEN s.fg - 1 ELSE s.fg,
           Owed(u)
    PROVE  IInv(u)
  <1>1. ASSUME NEW pool
        PROVE  Cardinality(Charged(u, pool)) =
                 IF s.runs[x].pool = pool THEN Cardinality(Charged(s, pool)) - 1
                 ELSE Cardinality(Charged(s, pool))
    <2>1. CASE s.runs[x].pool = pool
      <3>1. Charged(u, pool) = Charged(s, pool) \ {x} /\ x \in Charged(s, pool)
        BY <2>1 DEF Charged, Holding
      <3>2. Charged(s, pool) \in SUBSET RunIds
        BY DEF Charged
      <3>3. QED
        BY <2>1, <3>1, <3>2, CardLess
    <2>2. CASE s.runs[x].pool # pool
      <3>1. Charged(u, pool) = Charged(s, pool)
        BY <2>2 DEF Charged, Holding
      <3>2. QED
        BY <2>2, <3>1
    <2>3. QED
      BY <2>1, <2>2
  <1>2. Accounted(u)
    BY <1>1 DEF Accounted, IInv
  <1>3. ResumesCharged(u)
    <2>1. \A y \in RunIds : OccupiesPoolSlot(s.rec[y[1]]) => OccupiesPoolSlot(u.rec[y[1]])
      BY RunIdParts DEF OccupiesPoolSlot, IsTopLevelAgent
    <2>2. u.runs[x].phase \notin Holding \cup {"queued"}
      BY DEF Holding
    <2>3. QED
      BY <2>1, <2>2 DEF ResumesCharged, IInv
  <1>4. FreshIdle(u)
    <2>1. s.runs[x].phase # "idle"
      BY DEF Holding
    <2>2. QED
      BY <2>1, RunIdParts DEF FreshIdle, IInv
  <1>5. QED
    BY <1>2, <1>3, <1>4 DEF IInv

\* What abort of a set of agents changes, and what it leaves.
LEMMA AbortedFacts ==
    ASSUME NEW s, IInv(s), NEW S
    PROVE  LET t == Aborted(s, S) IN
           /\ t \in State /\ t.bg = s.bg /\ t.fg = s.fg
           /\ \A x \in RunIds : s.runs[x].phase # "queued" => t.runs[x] = s.runs[x]
  <1> DEFINE hit == {a \in S \cap s.agents : s.rec[a].status \in Active}
             out == {x \in Queue(s) : x[1] \in hit /\ s.rec[x[1]].status = "queued"}
             d == Dropped(s, out, "returned")
             t == WithStatus(d, hit, "stopped")
  <1>1. s \in State /\ "returned" \in CallerStates /\ "stopped" \in Statuses
    BY DEF IInv, CallerStates, Statuses
  <1>2a. out \in SUBSET RunIds
    BY DEF Queue
  <1>2. \A x \in out : s.runs[x].phase = "queued"
    BY DEF Queue
  <1> HIDE DEF hit, out
  <1>3. d \in State /\ d.bg = s.bg /\ d.fg = s.fg /\ \A x \in RunIds \ out : d.runs[x] = s.runs[x]
    BY <1>1, <1>2a, DroppedFacts
  <1> HIDE DEF d
  <1>4. t \in State /\ t.bg = d.bg /\ t.fg = d.fg /\ t.runs = d.runs
    BY <1>1, <1>3, WithStatusFacts
  <1> HIDE DEF t
  <1>5. Aborted(s, S) = t
    BY DEF Aborted, t, d, out, hit
  <1>6. QED
    BY <1>2, <1>3, <1>4, <1>5

\* settleRun keeps the invariant: it gives back the slot its run holds.
LEMMA SettledInv ==
    ASSUME NEW s, IInv(s), NEW x \in RunIds, s.runs[x].phase \in {"running", "cleanup"}
    PROVE  IInv(Settled(s, x))
  <1> DEFINE o == Aborted(s, OwnedChildren(s, x[1]))
             pool == Refund(o, x)
             r == Released(o, pool)
             f == InPhase(r, x, "settled")
             C == [a \in Agents |-> IF x = <<a, 0>> /\ f.caller[a] = "run" THEN "returned" ELSE f.caller[a]]
             u == [f EXCEPT !.caller = C]
  <1>1. IInv(o) /\ o \in State /\ o.runs[x] = s.runs[x]
    BY AbortedInv, AbortedFacts
  <1> HIDE DEF o
  <1>2. o.runs[x].phase \in Holding /\ o.runs[x].phase \in {"running", "cleanup"}
    BY <1>1 DEF Holding
  <1>3. pool = o.runs[x].pool
    <2>1. o.runs[x].kind = "resume" => OccupiesPoolSlot(o.rec[x[1]]) /\ o.runs[x].pool = "background"
      BY <1>1, <1>2 DEF IInv, ResumesCharged
    <2>2. QED
      BY <2>1 DEF Refund
  <1> HIDE DEF pool
  <1>4. /\ r \in State /\ r.rec = o.rec /\ r.runs = o.runs /\ r.caller = o.caller
        /\ r.bg = IF pool = "background" THEN o.bg - 1 ELSE o.bg
        /\ r.fg = IF pool = "foreground" THEN o.fg - 1 ELSE o.fg
    BY <1>1, ReleasedFacts
  <1> HIDE DEF r
  <1>5. /\ f \in State /\ f.rec = r.rec /\ f.caller = r.caller /\ f.bg = r.bg /\ f.fg = r.fg
        /\ \A y \in RunIds \ {x} : f.runs[y] = r.runs[y]
        /\ f.runs[x].phase = "settled"
    <2>1. "settled" \in Phases
      BY DEF Phases
    <2>2. QED
      BY <1>4, <2>1, InPhaseFacts
  <1> HIDE DEF f
  <1>6. C \in [Agents -> CallerStates]
        /\ \A a \in Agents : C[a] = IF x = <<a, 0>> /\ f.caller[a] = "run" THEN "returned" ELSE f.caller[a]
    <2>1. f.caller \in [Agents -> CallerStates]
      BY <1>5, StateParts
    <2>2. QED
      BY <2>1 DEF CallerStates
  <1> HIDE DEF C
  <1>7. u \in State /\ u.rec = f.rec /\ u.runs = f.runs /\ u.bg = f.bg /\ u.fg = f.fg /\ u.caller = C
    BY <1>5, <1>6 DEF State
  <1> HIDE DEF u
  <1>8. Owed(u)
    <2>1. ASSUME NEW a \in Agents, x = <<a, 0>> PROVE u.caller[a] \notin {"start", "run"}
      <3>1. o.caller[a] # "start"
        BY <1>1, <1>2, <2>1 DEF IInv, Owed
      <3>2. u.caller[a] = IF o.caller[a] = "run" THEN "returned" ELSE o.caller[a]
        BY <1>4, <1>5, <1>6, <1>7, <2>1
      <3>3. QED
        BY <3>1, <3>2
    <2>2. ASSUME NEW a \in Agents, x # <<a, 0>>
          PROVE  u.caller[a] = o.caller[a] /\ u.runs[<<a, 0>>] = o.runs[<<a, 0>>]
      BY <1>4, <1>5, <1>6, <1>7, <2>2, RunIdParts
    <2>3. QED
      BY <1>1, <2>1, <2>2 DEF IInv, Owed
  <1>9. IInv(u)
    <2>1. /\ \A y \in RunIds \ {x} : u.runs[y] = o.runs[y]
          /\ u.runs[x].phase \in {"discarding", "settled", "dropped"}
          /\ u.rec = o.rec
          /\ u.bg = IF o.runs[x].pool = "background" THEN o.bg - 1 ELSE o.bg
          /\ u.fg = IF o.runs[x].pool = "foreground" THEN o.fg - 1 ELSE o.fg
      BY <1>3, <1>4, <1>5, <1>7
    <2>2. QED
      BY <1>1, <1>2, <1>7, <1>8, <2>1, FreeSlot
  <1>10. QED
    BY <1>9 DEF Settled, u, C, f, r, pool, o

\* The record spawn inserts has no slot, no run and no caller yet.
LEMMA InsertedInv ==
    ASSUME NEW s, IInv(s), NEW a \in Agents, s.rec[a].status = "none",
           NEW o \in SpawnOptions, NEW owner \in Agents \cup {NoOwner, Workflow}
    PROVE  LET t == Inserted(s, a, o, owner) IN
           /\ IInv(t) /\ t.rec[a].status # "none" /\ t.runs = s.runs
           /\ \A x \in RunIds : x[1] = a => t.runs[x].phase = "idle"
  <1> DEFINE q == [status |-> IF o.mode = "background" THEN "queued" ELSE "running",
                   isBackground |-> o.mode = "background", owner |-> owner,
                   session |-> FALSE, opt |-> o]
             R == [s.rec EXCEPT ![a] = q]
             A == s.agents \cup {a}
             t == [s EXCEPT !.agents = A, !.rec = R]
  <1>1. s \in State /\ s.rec \in [Agents -> AgentRecord] /\ s.agents \in SUBSET Agents
    BY StateParts DEF IInv
  <1>2. q \in AgentRecord /\ q.status # "none"
    BY DEF AgentRecord, Statuses
  <1> HIDE DEF q
  <1>3. R \in [Agents -> AgentRecord] /\ R[a] = q /\ \A b \in Agents \ {a} : R[b] = s.rec[b]
    BY <1>1, <1>2
  <1>4. A \in SUBSET Agents
    BY <1>1
  <1> HIDE DEF R, A
  <1>5. t \in State /\ t.rec = R /\ t.runs = s.runs /\ t.caller = s.caller /\ t.bg = s.bg /\ t.fg = s.fg
    BY <1>1, <1>3, <1>4 DEF State
  <1>6. Inserted(s, a, o, owner) = t
    BY DEF Inserted, t, R, A, q
  <1> HIDE DEF t
  <1>7. \A x \in RunIds : x[1] = a => s.runs[x].phase = "idle"
    BY DEF IInv, FreshIdle
  <1>8. Accounted(t)
    BY <1>5, SameAccount DEF IInv
  <1>9. ResumesCharged(t)
    <2>1. ASSUME NEW x \in RunIds PROVE x[1] # a => t.rec[x[1]] = s.rec[x[1]]
      BY <1>3, <1>5, RunIdParts
    <2>2. QED
      BY <1>5, <1>7, <2>1 DEF ResumesCharged, IInv, Holding
  <1>10. FreshIdle(t)
    <2>1. ASSUME NEW x \in RunIds PROVE x[1] # a => t.rec[x[1]] = s.rec[x[1]]
      BY <1>3, <1>5, RunIdParts
    <2>2. QED
      BY <1>2, <1>3, <1>5, <2>1 DEF FreshIdle, IInv
  <1>11. Owed(t)
    BY <1>5 DEF Owed, IInv
  <1>12. QED
    BY <1>2, <1>3, <1>5, <1>6, <1>7, <1>8, <1>9, <1>10, <1>11 DEF IInv

\* One run changes that holds no slot, before or after.
LEMMA OneRunInv ==
    ASSUME NEW s, IInv(s), NEW x \in RunIds, s.runs[x].phase = "idle",
           NEW r \in Run, r.phase \in {"idle", "queued"},
           r.phase = "queued" => s.rec[x[1]].status # "none",
           r.kind = "resume" /\ r.phase = "queued" => OccupiesPoolSlot(s.rec[x[1]])
    PROVE  LET t == [s EXCEPT !.runs = [s.runs EXCEPT ![x] = r]] IN
           IInv(t) /\ t.rec = s.rec /\ t.runs[x] = r
  <1> DEFINE U == [s.runs EXCEPT ![x] = r]
             t == [s EXCEPT !.runs = U]
  <1>1. s \in State /\ s.runs \in [RunIds -> Run]
    BY StateParts DEF IInv
  <1>2. U \in [RunIds -> Run] /\ U[x] = r /\ \A y \in RunIds \ {x} : U[y] = s.runs[y]
    BY <1>1
  <1> HIDE DEF U
  <1>3. t \in State /\ t.runs = U /\ t.rec = s.rec /\ t.caller = s.caller /\ t.bg = s.bg /\ t.fg = s.fg
    BY <1>1, <1>2 DEF State
  <1> HIDE DEF t
  <1>4. Accounted(t)
    <2>1. \A y \in RunIds : t.runs[y].phase \in Holding <=> s.runs[y].phase \in Holding
      BY <1>2, <1>3 DEF Holding
    <2>2. \A y \in RunIds : s.runs[y].phase \in Holding => t.runs[y].pool = s.runs[y].pool
      BY <1>2, <1>3 DEF Holding
    <2>3. QED
      BY <1>3, <2>1, <2>2, SameAccount DEF IInv
  <1>5. ResumesCharged(t)
    BY <1>2, <1>3 DEF ResumesCharged, IInv, Holding
  <1>6. FreshIdle(t)
    BY <1>2, <1>3 DEF FreshIdle, IInv
  <1>7. Owed(t)
    BY <1>2, <1>3, RunIdParts DEF Owed, IInv
  <1>8. QED
    BY <1>2, <1>3, <1>4, <1>5, <1>6, <1>7 DEF IInv, t, U

\* A run that is requested holds no slot.
LEMMA RequestedInv ==
    ASSUME NEW s, IInv(s), NEW x \in RunIds, s.runs[x].phase = "idle",
           NEW kind \in {"spawn", "resume", "inline"}
    PROVE  LET t == Requested(s, x, kind) IN
           IInv(t) /\ t.rec = s.rec /\ t.runs[x].phase = "idle" /\ t.runs[x].kind = kind
  <1> DEFINE r == [s.runs[x] EXCEPT !.kind = kind]
  <1>1. s \in State /\ s.runs \in [RunIds -> Run]
    BY StateParts DEF IInv
  <1>2. r \in Run /\ r.phase = "idle" /\ r.kind = kind
    BY <1>1 DEF Run
  <1>3. [s.runs EXCEPT ![x].kind = kind] = [s.runs EXCEPT ![x] = r]
    BY <1>1
  <1> HIDE DEF r
  <1>4. Requested(s, x, kind) = [s EXCEPT !.runs = [s.runs EXCEPT ![x] = r]]
    BY <1>3 DEF Requested
  <1>5. QED
    BY <1>2, <1>4, OneRunInv

\* queue.push keeps the invariant.
LEMMA EnqueuedInv ==
    ASSUME NEW s, IInv(s), NEW x \in RunIds, s.runs[x].phase = "idle", s.rec[x[1]].status # "none",
           NEW kind \in {"spawn", "resume", "inline"}, NEW pool \in Pools,
           kind = "resume" => OccupiesPoolSlot(s.rec[x[1]])
    PROVE  IInv(Enqueued(s, x, kind, pool))
  <1> DEFINE r == [phase |-> "queued", pool |-> pool, kind |-> kind, wasQueued |-> TRUE,
                   clash |-> FALSE, ahead |-> Queue(s)]
             t == [s EXCEPT !.runs = [s.runs EXCEPT ![x] = r]]
  <1>1. r \in Run /\ r.phase = "queued" /\ r.kind = kind
    BY DEF Run, Phases, Pools, Queue
  <1> HIDE DEF r
  <1>2. IInv(t)
    BY <1>1, OneRunInv
  <1> HIDE DEF t
  <1>3. "queued" \in Statuses \ {"none"}
    BY DEF Statuses
  <1>4. IInv(WithStatus(t, {x[1]}, "queued"))
    BY <1>2, <1>3, WithStatusInv
  <1>5. QED
    BY <1>4 DEF Enqueued, t, r

\* spawnAndWait blocks on a startup or a run that is live.
LEMMA AwaitedInv ==
    ASSUME NEW s, IInv(s), NEW a \in Agents
    PROVE  IInv(Awaited(s, a))
  <1> DEFINE phase == s.runs[<<a, 0>>].phase
             c == CASE phase \in {"queued", "copying"} -> "start"
                    [] phase = "running" -> "run"
                    [] OTHER -> "returned"
             C == [s.caller EXCEPT ![a] = c]
             t == [s EXCEPT !.caller = C]
  <1>1. s \in State /\ s.caller \in [Agents -> CallerStates]
    BY StateParts DEF IInv
  <1>2. /\ c \in CallerStates
        /\ c = "start" => phase \in {"queued", "copying"}
        /\ c = "run" => phase = "running"
    BY DEF CallerStates
  <1> HIDE DEF c, phase
  <1>3. C \in [Agents -> CallerStates] /\ C[a] = c /\ \A b \in Agents \ {a} : C[b] = s.caller[b]
    BY <1>1, <1>2
  <1> HIDE DEF C
  <1>4. t \in State /\ t.runs = s.runs /\ t.rec = s.rec /\ t.caller = C /\ t.bg = s.bg /\ t.fg = s.fg
    BY <1>1, <1>3 DEF State
  <1> HIDE DEF t
  <1>5. Owed(t)
    BY <1>2, <1>3, <1>4 DEF Owed, IInv, phase
  <1>6. Accounted(t) /\ ResumesCharged(t) /\ FreshIdle(t)
    BY <1>4, SameAccount DEF ResumesCharged, FreshIdle, IInv
  <1>7. QED
    BY <1>4, <1>5, <1>6 DEF IInv, Awaited, t, C, c, phase

\* spawn keeps the invariant: queued, started, copying or refused.
LEMMA SpawnedInv ==
    ASSUME NEW s, IInv(s), NEW a \in Agents, NEW o, s.rec[a].status # "none",
           s.runs[<<a, 0>>].phase = "idle"
    PROVE  IInv(Spawned(s, a, o))
  <1> DEFINE x == <<a, 0>>
             pool == PoolFor(s, s.rec[a])
             queues == pool # "none" /\ ~o.bypassQueue /\ ~PoolHasRoom(s, pool)
             asked == Requested(s, x, "spawn")
             started == Started(asked, {x})
  <1>1. x \in RunIds /\ x[1] = a
    BY RunIdParts
  <1>2. IInv(WithStatus(Dropped(s, {x}, "returned"), {a}, "stopped"))
    <2>1. {x} \in SUBSET RunIds /\ \A y \in {x} : s.runs[y].phase \notin Holding /\ s.rec[y[1]].status # "none"
      BY <1>1 DEF Holding
    <2>2. IInv(Dropped(s, {x}, "returned"))
      BY <2>1, DroppedInv
    <2>3. "stopped" \in Statuses \ {"none"}
      BY DEF Statuses
    <2>4. QED
      BY <2>2, <2>3, WithStatusInv
  <1>3. queues => IInv(Enqueued(s, x, "spawn", pool))
    <2>1. pool # "none" => pool \in Pools
      BY DEF PoolFor, Pools
    <2>2. QED
      BY <1>1, <2>1, EnqueuedInv
  <1>4. IInv(started)
    <2>1. IInv(asked) /\ asked.runs[x].phase = "idle" /\ asked.runs[x].kind = "spawn"
      BY <1>1, RequestedInv
    <2>2. {x} \in SUBSET RunIds
      BY <1>1
    <2> HIDE DEF asked, x
    <2>3. /\ \A y \in {x} : asked.runs[y].phase \notin Holding
          /\ \A y \in {x} : asked.runs[y].kind = "resume" => OccupiesPoolSlot(asked.rec[y[1]])
      BY <2>1 DEF Holding
    <2>4. QED
      BY <2>1, <2>2, <2>3, StartedInv
  <1>5. IInv(Aborted(started, {a}))
    BY <1>4, AbortedInv
  <1> HIDE DEF started
  <1>6. CASE queues /\ o.aborted
    BY <1>2, <1>6 DEF Spawned
  <1>7. CASE queues /\ ~o.aborted
    BY <1>3, <1>7 DEF Spawned
  <1>8. CASE ~queues
    <2>1. Spawned(s, a, o) = IF o.aborted /\ ~o.worktree THEN Aborted(started, {a}) ELSE started
      BY <1>8 DEF Spawned, started, asked
    <2>2. QED
      BY <1>4, <1>5, <2>1
  <1>9. QED
    BY <1>6, <1>7, <1>8

-----------------------------------------------------------------------------
(***************************************************************************)
(* Actions preserve IInv.                                                  *)
(***************************************************************************)
LEMMA BecomesHere ==
    ASSUME NEW STATE t, t \in State, Becomes(t)
    PROVE  Here' = t
  BY DEF Becomes, Here, State

\* An action that takes the manager to a state of the invariant keeps it.
LEMMA BecomesInv ==
    ASSUME NEW STATE t, IInv(t), Becomes(t)
    PROVE  IInv(Here')
  BY BecomesHere DEF IInv

\* An action that ends with drainQueue keeps the invariant.
LEMMA DrainQueueInv ==
    ASSUME NEW STATE t, IInv(t), DrainQueue(t)
    PROVE  IInv(Here')
  <1>1. PICK gone \in SUBSET MayBeGone(t) : Becomes(Drained(t, gone))
    BY DEF DrainQueue
  <1>2. IInv(Drained(t, gone))
    BY DrainedInv
  <1>3. QED
    BY <1>1, <1>2, BecomesInv

\* An action that ends with settleRun keeps the invariant.
LEMMA SettleRunInv ==
    ASSUME NEW STATE t, IInv(t), NEW x \in RunIds, t.runs[x].phase \in {"running", "cleanup"},
           SettleRun(t, x)
    PROVE  IInv(Here')
  <1>1. IInv(Settled(t, x))
    BY SettledInv
  <1>2. QED
    BY <1>1, BecomesInv, DrainQueueInv DEF SettleRun

\* The fields of the manager's state are the variables.
LEMMA HereParts ==
    /\ Here.agents = agents /\ Here.rec = rec /\ Here.runs = runs /\ Here.caller = caller
    /\ Here.bg = runningBackground /\ Here.fg = runningForeground
    /\ Here.bgLimit = maxConcurrent /\ Here.fgLimit = maxConcurrentForeground /\ Here.open = open
  BY DEF Here

\* spawn and spawnAndWait keep the invariant.
LEMMA SpawnStep ==
    ASSUME IInv(Here), NEW a \in Agents, NEW o \in SpawnOptions,
           NEW owner \in Agents \cup {NoOwner, Workflow}, Spawn(a, o, owner)
    PROVE  IInv(Here')
  <1> DEFINE i == Inserted(Here, a, o, owner)
             t == Spawned(i, a, o)
  <1>1. Here.rec[a].status = "none"
    BY HereParts DEF Spawn
  <1>2. IInv(i) /\ i.rec[a].status # "none" /\ \A x \in RunIds : x[1] = a => i.runs[x].phase = "idle"
    BY <1>1, InsertedInv
  <1> HIDE DEF i
  <1>3. i.runs[<<a, 0>>].phase = "idle"
    BY <1>2, RunIdParts
  <1>4. IInv(t)
    BY <1>2, <1>3, SpawnedInv
  <1> HIDE DEF t
  <1>5. IInv(Awaited(t, a))
    BY <1>4, AwaitedInv
  <1>6. Becomes(t) \/ Becomes(Awaited(t, a))
    BY DEF Spawn, t, i
  <1>7. QED
    BY <1>4, <1>5, <1>6, BecomesInv

\* A step of a run that keeps the slot it holds.
LEMMA KeepSlot ==
    ASSUME NEW s, IInv(s), NEW u \in State, NEW x \in RunIds,
           s.runs[x].phase \in Holding, u.runs[x].phase \in Holding,
           u.runs[x].kind = s.runs[x].kind, u.runs[x].pool = s.runs[x].pool,
           \A y \in RunIds \ {x} : u.runs[y] = s.runs[y],
           u.rec = s.rec, u.bg = s.bg, u.fg = s.fg, Owed(u)
    PROVE  IInv(u)
  <1>1. Accounted(u)
    <2>1. \A y \in RunIds : u.runs[y].phase \in Holding <=> s.runs[y].phase \in Holding
      OBVIOUS
    <2>2. \A y \in RunIds : s.runs[y].phase \in Holding => u.runs[y].pool = s.runs[y].pool
      OBVIOUS
    <2>3. QED
      BY <2>1, <2>2, SameAccount DEF IInv
  <1>2. ResumesCharged(u)
    BY DEF ResumesCharged, IInv
  <1>3. FreshIdle(u)
    <2>1. s.runs[x].phase # "idle"
      BY DEF Holding
    <2>2. QED
      BY <2>1 DEF FreshIdle, IInv
  <1>4. QED
    BY <1>1, <1>2, <1>3 DEF IInv

\* startAgent after createWorktree keeps the invariant, also when it was
\* stopped.
LEMMA CopyDoneStep ==
    ASSUME IInv(Here), NEW a \in Agents, NEW esc, CopyDone(a, esc)
    PROVE  IInv(Here')
  <1> DEFINE x == <<a, 0>>
             p == InPhase(Here, x, "running")
             C == [caller EXCEPT ![a] = IF @ = "start" THEN "run" ELSE @]
             launched == [p EXCEPT !.caller = C]
             g == InPhase(Here, x, "discarding")
             freed == Released(g, runs[x].pool)
  <1>1. /\ Here \in State /\ x \in RunIds /\ Here.runs[x].phase = "copying"
        /\ caller \in [Agents -> CallerStates]
    BY RunIdParts, HereParts, StateParts DEF IInv, CopyDone
  <1>2. Here.caller[a] # "run"
    BY <1>1 DEF IInv, Owed
  <1>3. IInv(launched)
    <2>1. /\ p \in State /\ p.rec = Here.rec /\ p.bg = Here.bg /\ p.fg = Here.fg /\ p.caller = Here.caller
          /\ \A y \in RunIds \ {x} : p.runs[y] = Here.runs[y]
          /\ p.runs[x].phase = "running" /\ p.runs[x].kind = Here.runs[x].kind
          /\ p.runs[x].pool = Here.runs[x].pool
      <3>1. "running" \in Phases
        BY DEF Phases
      <3>2. QED
        BY <1>1, <3>1, InPhaseFacts
    <2> HIDE DEF p
    <2>2. /\ C \in [Agents -> CallerStates]
          /\ C[a] # "start"
          /\ \A b \in Agents \ {a} : C[b] = Here.caller[b]
      BY <1>1, HereParts DEF CallerStates
    <2> HIDE DEF C
    <2>3. /\ launched \in State /\ launched.rec = p.rec /\ launched.runs = p.runs
          /\ launched.bg = p.bg /\ launched.fg = p.fg /\ launched.caller = C
      BY <2>1, <2>2 DEF State
    <2> HIDE DEF launched
    <2>4. Owed(launched)
      <3>1. ASSUME NEW b \in Agents \ {a} PROVE launched.runs[<<b, 0>>] = Here.runs[<<b, 0>>]
        BY <2>1, <2>3, RunIdParts
      <3>2. QED
        BY <2>1, <2>2, <2>3, <3>1 DEF Owed, IInv
    <2>5. Here.runs[x].phase \in Holding /\ launched.runs[x].phase \in Holding
      BY <1>1, <2>1, <2>3 DEF Holding
    <2>6. QED
      BY <1>1, <2>1, <2>3, <2>4, <2>5, KeepSlot
  <1>4. IInv(freed)
    <2>1. /\ g \in State /\ g.rec = Here.rec /\ g.bg = Here.bg /\ g.fg = Here.fg /\ g.caller = Here.caller
          /\ \A y \in RunIds \ {x} : g.runs[y] = Here.runs[y]
          /\ g.runs[x].phase = "discarding"
      <3>1. "discarding" \in Phases
        BY DEF Phases
      <3>2. QED
        BY <1>1, <3>1, InPhaseFacts
    <2> HIDE DEF g
    <2>2. /\ freed \in State /\ freed.rec = g.rec /\ freed.runs = g.runs /\ freed.caller = g.caller
          /\ freed.bg = IF runs[x].pool = "background" THEN g.bg - 1 ELSE g.bg
          /\ freed.fg = IF runs[x].pool = "foreground" THEN g.fg - 1 ELSE g.fg
      BY <2>1, ReleasedFacts
    <2> HIDE DEF freed
    <2>3. Owed(freed)
      <3>1. ASSUME NEW b \in Agents \ {a} PROVE freed.runs[<<b, 0>>] = Here.runs[<<b, 0>>]
        BY <2>1, <2>2, RunIdParts
      <3>2. QED
        BY <1>2, <2>1, <2>2, <3>1 DEF Owed, IInv
    <2>4. Here.runs[x].phase \in Holding
      BY <1>1 DEF Holding
    <2>5. QED
      BY <1>1, <2>1, <2>2, <2>3, <2>4, HereParts, FreeSlot
  <1>5. IInv(Aborted(launched, {a}))
    BY <1>3, AbortedInv
  <1> HIDE DEF launched, freed
  <1>6. Becomes(launched) \/ Becomes(Aborted(launched, {a})) \/ Becomes(freed)
    BY DEF CopyDone, launched, p, C, freed, g
  <1>7. QED
    BY <1>3, <1>4, <1>5, <1>6, BecomesInv

\* The map, the limits and the open flag are not read by IInv.
LEMMA SettingsOnly ==
    ASSUME NEW s, IInv(s), NEW u \in State,
           u.rec = s.rec, u.runs = s.runs, u.caller = s.caller, u.bg = s.bg, u.fg = s.fg
    PROVE  IInv(u)
  BY RecordsOnly

\* Records may leave the map.
LEMMA RemovedInv ==
    ASSUME NEW s, IInv(s), NEW S
    PROVE  IInv([s EXCEPT !.agents = s.agents \ S])
  <1> DEFINE A == s.agents \ S
             u == [s EXCEPT !.agents = A]
  <1>1. s \in State /\ A \in SUBSET Agents
    BY StateParts DEF IInv
  <1> HIDE DEF A
  <1>2. u \in State /\ u.rec = s.rec /\ u.runs = s.runs /\ u.caller = s.caller /\ u.bg = s.bg /\ u.fg = s.fg
    BY <1>1 DEF State
  <1> HIDE DEF u
  <1>3. IInv(u)
    BY <1>2, SettingsOnly
  <1>4. QED
    BY <1>3 DEF u, A

\* A failed copy keeps the invariant: the slot is given back and the caller
\* told.
LEMMA CopyFailedStep ==
    ASSUME IInv(Here), NEW a \in Agents, CopyFailed(a)
    PROVE  IInv(Here')
  <1> DEFINE x == <<a, 0>>
             d == Dropped(Here, {x}, "threw")
             freed == Released(d, runs[x].pool)
             failed == WithStatus(freed, {a}, "error")
             gone == [freed EXCEPT !.agents = agents \ {a}]
  <1>1. /\ Here \in State /\ x \in RunIds /\ {x} \in SUBSET RunIds /\ Here.runs[x].phase = "copying"
        /\ "threw" \in CallerStates
    BY RunIdParts, HereParts DEF IInv, CopyFailed, CallerStates
  <1>2. Here.caller[a] # "run"
    BY <1>1 DEF IInv, Owed
  <1>3. /\ d \in State /\ d.agents = Here.agents /\ d.rec = Here.rec /\ d.bg = Here.bg /\ d.fg = Here.fg
        /\ \A y \in RunIds \ {x} : d.runs[y] = Here.runs[y]
        /\ d.runs[x].phase = "dropped"
        /\ \A b \in Agents : d.caller[b] = IF <<b, 0>> \in {x} /\ Here.caller[b] = "start"
                                           THEN "threw" ELSE Here.caller[b]
    BY <1>1, DroppedFacts, ZenonT(40)
  <1> HIDE DEF d
  <1>4. /\ freed \in State /\ freed.agents = d.agents
        /\ freed.rec = d.rec /\ freed.runs = d.runs /\ freed.caller = d.caller
        /\ freed.bg = IF runs[x].pool = "background" THEN d.bg - 1 ELSE d.bg
        /\ freed.fg = IF runs[x].pool = "foreground" THEN d.fg - 1 ELSE d.fg
    BY <1>3, ReleasedFacts
  <1> HIDE DEF freed
  <1>5. Owed(freed)
    <2>1. ASSUME NEW b \in Agents \ {a}
          PROVE  freed.runs[<<b, 0>>] = Here.runs[<<b, 0>>] /\ freed.caller[b] = Here.caller[b]
      BY <1>3, <1>4, RunIdParts
    <2>2. freed.caller[a] \notin {"start", "run"}
      BY <1>2, <1>3, <1>4
    <2>3. QED
      BY <2>1, <2>2 DEF Owed, IInv
  <1>6. IInv(freed)
    <2>1. Here.runs[x].phase \in Holding
      BY <1>1 DEF Holding
    <2>2. QED
      BY <1>1, <1>3, <1>4, <1>5, <2>1, HereParts, FreeSlot
  <1>7. IInv(failed)
    <2>1. "error" \in Statuses \ {"none"}
      BY DEF Statuses
    <2>2. QED
      BY <1>6, <2>1, WithStatusInv
  <1>8. IInv(gone)
    <2>1. freed.agents = agents
      BY <1>3, <1>4, HereParts
    <2>2. QED
      BY <1>6, <2>1, RemovedInv
  <1> HIDE DEF failed, gone
  <1>9. DrainQueue(failed) \/ DrainQueue(gone)
    BY DEF CopyFailed, failed, gone, freed, d
  <1>10. QED
    BY <1>7, <1>8, <1>9, DrainQueueInv

\* The end of a discard keeps the invariant.
LEMMA DiscardDoneStep ==
    ASSUME IInv(Here), NEW a \in Agents, DiscardDone(a)
    PROVE  IInv(Here')
  <1> DEFINE x == <<a, 0>>
  <1>1. x \in RunIds /\ x[1] = a /\ Here.runs[x].phase = "discarding"
    BY RunIdParts, HereParts DEF DiscardDone
  <1>2. /\ {x} \in SUBSET RunIds
        /\ \A y \in {x} : Here.runs[y].phase \notin Holding /\ Here.rec[y[1]].status # "none"
    BY <1>1 DEF IInv, FreshIdle, Holding
  <1>3. IInv(Dropped(Here, {x}, "returned"))
    BY <1>2, DroppedInv
  <1>4. QED
    BY <1>3, DrainQueueInv DEF DiscardDone

\* The session flag of one record.
LEMMA SessionInv ==
    ASSUME NEW s, IInv(s), NEW a \in Agents, NEW got \in BOOLEAN
    PROVE  IInv([s EXCEPT !.rec = [s.rec EXCEPT ![a].session = got]])
  <1> DEFINE R == [s.rec EXCEPT ![a].session = got]
             u == [s EXCEPT !.rec = R]
  <1>1. s \in State /\ s.rec \in [Agents -> AgentRecord]
    BY StateParts DEF IInv
  <1>2. R \in [Agents -> AgentRecord]
        /\ \A b \in Agents : /\ R[b].isBackground = s.rec[b].isBackground
                             /\ R[b].owner = s.rec[b].owner /\ R[b].status = s.rec[b].status
    BY <1>1 DEF AgentRecord
  <1> HIDE DEF R
  <1>3. u \in State /\ u.rec = R /\ u.runs = s.runs /\ u.caller = s.caller /\ u.bg = s.bg /\ u.fg = s.fg
    BY <1>1, <1>2 DEF State
  <1> HIDE DEF u
  <1>4. IInv(u)
    BY <1>2, <1>3, RecordsOnly
  <1>5. QED
    BY <1>4 DEF u, R

\* onSessionCreated keeps the invariant.
LEMMA SessionCreatedStep ==
    ASSUME IInv(Here), NEW a \in Agents, SessionCreated(a)
    PROVE  IInv(Here')
  <1> DEFINE t == [Here EXCEPT !.rec = [Here.rec EXCEPT ![a].session = TRUE]]
  <1>1. IInv(t)
    BY SessionInv
  <1>2. Becomes(t)
    BY HereParts DEF SessionCreated
  <1> HIDE DEF t
  <1>3. QED
    BY <1>1, <1>2, BecomesInv

\* The status a run's end writes keeps the invariant.
LEMMA EndedInv ==
    ASSUME NEW s, IInv(s), NEW x \in RunIds, NEW outcome \in {"completed", "error"}
    PROVE  IInv(Ended(s, x, outcome)) /\ Ended(s, x, outcome).runs = s.runs
  <1> DEFINE a == x[1]
             keeps == s.rec[a].status = "stopped" /\ s.runs[x].kind # "inline"
             got == s.rec[a].session \/ (s.runs[x].kind = "spawn" /\ outcome = "completed")
             w == WithStatus(s, IF keeps THEN {} ELSE {a}, outcome)
             t == [w EXCEPT !.rec = [w.rec EXCEPT ![a].session = got]]
  <1>1. a \in Agents /\ got \in BOOLEAN /\ outcome \in Statuses \ {"none"} /\ outcome \in Statuses
    BY RunIdParts DEF Statuses
  <1>2. IInv(w) /\ w.runs = s.runs /\ w \in State
    BY <1>1, WithStatusInv, WithStatusFacts DEF IInv
  <1> HIDE DEF got
  <1>3. Ended(s, x, outcome) = [w EXCEPT !.rec[a].session = got]
    BY DEF Ended, got
  <1> HIDE DEF w, a
  <1>4. [w EXCEPT !.rec[a].session = got] = t
    BY <1>2 DEF State
  <1>5. t.runs = w.runs
    BY <1>2 DEF State
  <1>6. IInv(t)
    BY <1>1, <1>2, SessionInv
  <1> HIDE DEF t
  <1>7. QED
    BY <1>2, <1>3, <1>4, <1>5, <1>6

\* The end of a run keeps the invariant, with and without a worktree.
LEMMA RunEndsStep ==
    ASSUME IInv(Here), NEW x \in RunIds, NEW outcome \in {"completed", "error"}, RunEnds(x, outcome)
    PROVE  IInv(Here')
  <1> DEFINE e == Ended(Here, x, outcome)
             t == InPhase(e, x, "cleanup")
  <1>1. IInv(e) /\ e.runs = Here.runs /\ e.runs[x].phase = "running"
    BY EndedInv, HereParts DEF RunEnds
  <1> HIDE DEF e
  <1>2. IInv(t)
    <2>1. e \in State /\ "cleanup" \in Phases
      BY <1>1 DEF IInv, Phases
    <2>2. /\ t \in State /\ t.rec = e.rec /\ t.bg = e.bg /\ t.fg = e.fg /\ t.caller = e.caller
          /\ \A y \in RunIds \ {x} : t.runs[y] = e.runs[y]
          /\ t.runs[x].phase = "cleanup" /\ t.runs[x].kind = e.runs[x].kind
          /\ t.runs[x].pool = e.runs[x].pool
      BY <2>1, InPhaseFacts
    <2> HIDE DEF t
    <2>3. Owed(t)
      <3>1. ASSUME NEW a \in Agents, x # <<a, 0>> PROVE t.runs[<<a, 0>>] = e.runs[<<a, 0>>]
        BY <2>2, <3>1, RunIdParts
      <3>2. ASSUME NEW a \in Agents, x = <<a, 0>> PROVE t.caller[a] # "start"
        BY <1>1, <2>2, <3>2 DEF IInv, Owed
      <3>3. QED
        BY <1>1, <2>2, <3>1, <3>2 DEF IInv, Owed
    <2>4. e.runs[x].phase \in Holding /\ t.runs[x].phase \in Holding
      BY <1>1, <2>2 DEF Holding
    <2>5. QED
      BY <1>1, <2>2, <2>3, <2>4, KeepSlot
  <1> HIDE DEF t
  <1>3. Becomes(t) \/ SettleRun(e, x)
    BY DEF RunEnds, t, e
  <1>4. QED
    BY <1>1, <1>2, <1>3, BecomesInv, SettleRunInv

\* The end of a run's cleanup keeps the invariant.
LEMMA CleanupDoneStep ==
    ASSUME IInv(Here), NEW a \in Agents, CleanupDone(a)
    PROVE  IInv(Here')
  <1>1. <<a, 0>> \in RunIds /\ Here.runs[<<a, 0>>].phase = "cleanup"
    BY RunIdParts, HereParts DEF CleanupDone
  <1>2. QED
    BY <1>1, SettleRunInv DEF CleanupDone

\* The start of a run that was just asked for.
LEMMA RequestedStartedInv ==
    ASSUME NEW s, IInv(s), NEW x \in RunIds, s.runs[x].phase = "idle",
           NEW kind \in {"spawn", "resume", "inline"},
           kind = "resume" => OccupiesPoolSlot(s.rec[x[1]])
    PROVE  IInv(Started(Requested(s, x, kind), {x}))
  <1> DEFINE t == Requested(s, x, kind)
  <1>1. IInv(t) /\ t.rec = s.rec /\ t.runs[x].phase = "idle" /\ t.runs[x].kind = kind
    BY RequestedInv
  <1> HIDE DEF t
  <1>2. /\ {x} \in SUBSET RunIds
        /\ \A y \in {x} : t.runs[y].phase \notin Holding
        /\ \A y \in {x} : t.runs[y].kind = "resume" => OccupiesPoolSlot(t.rec[y[1]])
    BY <1>1 DEF Holding
  <1>3. IInv(Started(t, {x}))
    BY <1>1, <1>2, StartedInv
  <1>4. QED
    BY <1>3 DEF t

\* A background resume keeps the invariant, started or queued.
LEMMA ResumeBackgroundStep ==
    ASSUME IInv(Here), NEW a \in Agents, NEW k \in 1..MaxResumes, ResumeBackground(a, k)
    PROVE  IInv(Here')
  <1> DEFINE x == <<a, k>>
             R == [rec EXCEPT ![a].isBackground = TRUE, ![a].status = "queued"]
             u == [Here EXCEPT !.rec = R]
  <1>1. x \in RunIds /\ x[1] = a /\ Here.runs[x].phase = "idle"
    BY HereParts, ConstantsAssumption DEF ResumeBackground, NextRun, RunIds
  <1>2. Here \in State /\ rec \in [Agents -> AgentRecord] /\ IsTopLevelAgent(rec[a])
    BY HereParts, StateParts DEF IInv, ResumeBackground
  <1>3. /\ R \in [Agents -> AgentRecord]
        /\ \A b \in Agents \ {a} : R[b] = rec[b]
        /\ R[a].isBackground = TRUE /\ R[a].owner = rec[a].owner /\ R[a].status = "queued"
    BY <1>2 DEF AgentRecord, Statuses
  <1> HIDE DEF R
  <1>4. u \in State /\ u.rec = R /\ u.runs = Here.runs /\ u.caller = Here.caller
        /\ u.bg = Here.bg /\ u.fg = Here.fg
    BY <1>2, <1>3 DEF State
  <1> HIDE DEF u
  <1>5. OccupiesPoolSlot(u.rec[a])
    BY <1>2, <1>3, <1>4 DEF OccupiesPoolSlot, IsTopLevelAgent
  <1>6. IInv(u)
    <2>1. \A y \in RunIds : y[1] # a => u.rec[y[1]] = Here.rec[y[1]]
      BY <1>3, <1>4, HereParts, RunIdParts
    <2>2. Accounted(u)
      BY <1>4, SameAccount DEF IInv
    <2>3. ResumesCharged(u)
      BY <1>4, <1>5, <2>1 DEF ResumesCharged, IInv
    <2>4. FreshIdle(u)
      BY <1>3, <1>4, <2>1 DEF FreshIdle, IInv
    <2>5. Owed(u)
      BY <1>4 DEF Owed, IInv
    <2>6. QED
      BY <1>4, <2>2, <2>3, <2>4, <2>5 DEF IInv
  <1>7. IInv(Enqueued(u, x, "resume", "background"))
    <2>1. u.runs[x].phase = "idle" /\ u.rec[x[1]].status # "none" /\ "background" \in Pools
      BY <1>1, <1>3, <1>4 DEF Pools
    <2>2. QED
      BY <1>1, <1>5, <1>6, <2>1, EnqueuedInv
  <1>8. IInv(Started(Requested(u, x, "resume"), {x}))
    BY <1>1, <1>4, <1>5, <1>6, RequestedStartedInv
  <1>9. Becomes(Enqueued(u, x, "resume", "background"))
          \/ Becomes(Started(Requested(u, x, "resume"), {x}))
    BY DEF ResumeBackground, u, R
  <1>10. QED
    BY <1>7, <1>8, <1>9, BecomesInv

\* A foreground resume takes no slot.
LEMMA ResumeInlineStep ==
    ASSUME IInv(Here), NEW a \in Agents, NEW k \in 1..MaxResumes, ResumeInline(a, k)
    PROVE  IInv(Here')
  <1>1. <<a, k>> \in RunIds /\ Here.runs[<<a, k>>].phase = "idle"
    BY HereParts, ConstantsAssumption DEF ResumeInline, NextRun, RunIds
  <1>2. IInv(Started(Requested(Here, <<a, k>>, "inline"), {<<a, k>>}))
    BY <1>1, RequestedStartedInv
  <1>3. QED
    BY <1>2, BecomesInv DEF ResumeInline

\* abort keeps the invariant.
LEMMA AbortStep ==
    ASSUME IInv(Here), NEW a \in Agents, Abort(a)
    PROVE  IInv(Here')
  BY AbortedInv, BecomesInv DEF Abort

\* Eviction keeps the invariant: it leaves slots, runs and callers alone.
LEMMA EvictStep ==
    ASSUME IInv(Here), NEW S \in SUBSET Agents, Evict(S)
    PROVE  IInv(Here')
  <1> DEFINE A == agents \ S
             R == [a \in Agents |-> IF a \in S THEN [rec[a] EXCEPT !.session = FALSE] ELSE rec[a]]
             u == [Here EXCEPT !.agents = A, !.rec = R]
  <1>1. Here \in State /\ rec \in [Agents -> AgentRecord] /\ A \in SUBSET Agents
    BY HereParts, StateParts DEF IInv
  <1>2. /\ R \in [Agents -> AgentRecord]
        /\ \A b \in Agents : /\ R[b].isBackground = rec[b].isBackground
                             /\ R[b].owner = rec[b].owner /\ R[b].status = rec[b].status
    BY <1>1 DEF AgentRecord
  <1> HIDE DEF A, R
  <1>3. u \in State /\ u.rec = R /\ u.runs = Here.runs /\ u.caller = Here.caller
        /\ u.bg = Here.bg /\ u.fg = Here.fg
    BY <1>1, <1>2 DEF State
  <1> HIDE DEF u
  <1>4. IInv(u)
    BY <1>2, <1>3, HereParts, RecordsOnly
  <1>5. Becomes(u)
    BY DEF Evict, u, A, R
  <1>6. QED
    BY <1>4, <1>5, BecomesInv

\* Changing a limit, with the drain that follows, keeps the invariant.
LEMMA LimitSteps ==
    ASSUME IInv(Here),
           \/ \E n \in BgLimits : SetMaxConcurrent(n)
           \/ \E n \in FgLimits : SetMaxConcurrentForeground(n)
    PROVE  IInv(Here')
  <1>1. Here \in State
    BY DEF IInv
  <1>2. ASSUME NEW n \in BgLimits, SetMaxConcurrent(n) PROVE IInv(Here')
    <2> DEFINE u == [Here EXCEPT !.bgLimit = n]
    <2>1. u \in State /\ u.rec = Here.rec /\ u.runs = Here.runs /\ u.caller = Here.caller
          /\ u.bg = Here.bg /\ u.fg = Here.fg
      BY <1>1, ConstantsAssumption DEF State
    <2> HIDE DEF u
    <2>2. IInv(u)
      BY <2>1, SettingsOnly
    <2>3. DrainQueue(u)
      BY <1>2 DEF SetMaxConcurrent, u
    <2>4. QED
      BY <2>2, <2>3, DrainQueueInv
  <1>3. ASSUME NEW n \in FgLimits, SetMaxConcurrentForeground(n) PROVE IInv(Here')
    <2> DEFINE u == [Here EXCEPT !.fgLimit = n]
    <2>1. u \in State /\ u.rec = Here.rec /\ u.runs = Here.runs /\ u.caller = Here.caller
          /\ u.bg = Here.bg /\ u.fg = Here.fg
      BY <1>1, ConstantsAssumption DEF State
    <2> HIDE DEF u
    <2>2. IInv(u)
      BY <2>1, SettingsOnly
    <2>3. DrainQueue(u)
      BY <1>3 DEF SetMaxConcurrentForeground, u
    <2>4. QED
      BY <2>2, <2>3, DrainQueueInv
  <1>4. QED
    BY <1>2, <1>3

\* abortAll and dispose keep the invariant.
LEMMA ShutdownStep ==
    ASSUME IInv(Here), Shutdown
    PROVE  IInv(Here')
  <1> DEFINE hit == {a \in agents : rec[a].status = "running" \/ \E x \in Queue(Here) : x[1] = a}
             d == Dropped(Here, Queue(Here), "returned")
             w == WithStatus(d, hit, "stopped")
             u == [w EXCEPT !.agents = {}, !.open = FALSE]
  <1>1. /\ Queue(Here) \in SUBSET RunIds
        /\ \A x \in Queue(Here) : Here.runs[x].phase \notin Holding /\ Here.rec[x[1]].status # "none"
    BY DEF Queue, Holding, IInv, FreshIdle
  <1>2. IInv(d)
    BY <1>1, DroppedInv
  <1> HIDE DEF d, hit
  <1>3. IInv(w)
    <2>1. "stopped" \in Statuses \ {"none"}
      BY DEF Statuses
    <2>2. QED
      BY <1>2, <2>1, WithStatusInv
  <1> HIDE DEF w
  <1>4. u \in State /\ u.rec = w.rec /\ u.runs = w.runs /\ u.caller = w.caller
        /\ u.bg = w.bg /\ u.fg = w.fg
    BY <1>3 DEF IInv, State
  <1> HIDE DEF u
  <1>5. IInv(u)
    BY <1>3, <1>4, SettingsOnly
  <1>6. Becomes(u)
    BY DEF Shutdown, u, w, d, hit
  <1>7. QED
    BY <1>5, <1>6, BecomesInv

-----------------------------------------------------------------------------
(***************************************************************************)
(* The theorems.                                                           *)
(***************************************************************************)
LEMMA InitInv == Init => IInv(Here)
  <1> SUFFICES ASSUME Init PROVE IInv(Here)
    OBVIOUS
  <1>1. Here \in State
    <2>1. rec \in [Agents -> AgentRecord]
      BY DEF Init, NoOptions, AgentRecord, SpawnOptions, Statuses
    <2>2. runs \in [RunIds -> Run]
      BY DEF Init, Run, Phases, Pools
    <2>3. caller \in [Agents -> CallerStates]
      BY DEF Init, CallerStates
    <2>4. agents \in SUBSET Agents /\ runningBackground \in Int /\ runningForeground \in Int
          /\ maxConcurrent \in Nat \ {0} /\ maxConcurrentForeground \in Nat /\ open \in BOOLEAN
      BY ConstantsAssumption DEF Init
    <2>5. QED
      BY <2>1, <2>2, <2>3, <2>4 DEF Here, State
  <1>2. \A x \in RunIds : Here.runs[x].phase = "idle"
    BY HereParts DEF Init
  <1>3. Accounted(Here)
    <2>1. ASSUME NEW pool PROVE Charged(Here, pool) = {}
      BY <1>2 DEF Charged, Holding
    <2>2. Cardinality({}) = 0
      BY FS_EmptySet
    <2>3. Here.bg = 0 /\ Here.fg = 0
      BY HereParts DEF Init
    <2>4. QED
      BY <2>1, <2>2, <2>3 DEF Accounted
  <1>4. ResumesCharged(Here) /\ FreshIdle(Here)
    BY <1>2 DEF ResumesCharged, FreshIdle, Holding
  <1>5. Owed(Here)
    BY HereParts DEF Owed, Init
  <1>6. QED
    BY <1>1, <1>3, <1>4, <1>5 DEF IInv

\* Every step keeps the invariant.
LEMMA NextInv == IInv(Here) /\ [Next]_vars => IInv(Here')
  <1> SUFFICES ASSUME IInv(Here), [Next]_vars PROVE IInv(Here')
    OBVIOUS
  <1>1. ASSUME NEW a \in Agents, NEW o \in Options, NEW owner \in Owners(o), Spawn(a, o, owner)
        PROVE  IInv(Here')
    <2>1. o \in SpawnOptions
      BY ConstantsAssumption
    <2>2. agents \in SUBSET Agents
      BY HereParts, StateParts DEF IInv
    <2>3. owner \in Agents \cup {NoOwner, Workflow}
      <3>1. CASE o.owner = "none"
        BY <1>1, <3>1 DEF Owners
      <3>2. CASE o.owner # "none" /\ o.owner = "workflow"
        BY <1>1, <3>2 DEF Owners
      <3>3. CASE o.owner # "none" /\ o.owner # "workflow"
        BY <1>1, <2>2, <3>3 DEF Owners
      <3>4. QED
        BY <3>1, <3>2, <3>3
    <2>4. QED
      BY <1>1, <2>1, <2>3, SpawnStep
  <1>2. CASE Request
    BY <1>1, <1>2, ResumeBackgroundStep, ResumeInlineStep, AbortStep, EvictStep, LimitSteps,
       ShutdownStep DEF Request
  <1>3. ASSUME NEW a \in Agents, SessionCreated(a) PROVE IInv(Here')
    BY <1>3, SessionCreatedStep
  <1>4. ASSUME NEW a \in Agents, Answer(a) PROVE IInv(Here')
    <2>1. \A x \in RunsOf(a) : x \in RunIds
      BY DEF RunsOf
    <2>2. QED
      BY <1>4, <2>1, CopyDoneStep, CopyFailedStep, DiscardDoneStep, CleanupDoneStep, RunEndsStep
         DEF Answer
  <1>5. CASE UNCHANGED vars
    <2>1. Here' = Here
      BY <1>5 DEF Here, vars
    <2>2. QED
      BY <2>1
  <1>6. QED
    BY <1>2, <1>3, <1>4, <1>5 DEF Next

\* The inductive invariant of the specification.
Inv == IInv(Here)

\* The invariant holds in every state of every behaviour.
LEMMA Invariance == Spec => []Inv
  <1>1. Init => Inv
    BY InitInv DEF Inv
  <1>2. Inv /\ [Next]_vars => Inv'
    BY NextInv DEF Inv
  <1>3. QED
    BY <1>1, <1>2, PTL DEF Spec

\* Every state of the manager is well-typed, and the pool counters never go
\* below zero, for any number of agents, resumes and any limits (the counters
\* are decremented in settleRun, startResume and two paths of startAgent).
THEOREM TypeCorrect == Spec => []TypeOK
  <1>1. Inv => TypeOK
    <2> SUFFICES ASSUME Inv PROVE TypeOK
      OBVIOUS
    <2>1. Cardinality(Charged(Here, "background")) \in Nat /\ Cardinality(Charged(Here, "foreground")) \in Nat
      BY RunsFinite DEF Charged
    <2>2. QED
      BY <2>1, HereParts DEF Inv, IInv, Accounted, TypeOK
  <1>2. QED
    BY <1>1, Invariance, PTL

\* The pool counters equal the number of live runs charged to their pool in
\* every reachable state: no interleaving of stops, resumes, evictions, failed
\* starts and changes of the limits leaks a slot or frees one twice.
THEOREM SlotsNeverDrift == Spec => []SlotsAccounted
  <1>1. Inv => SlotsAccounted
    BY HereParts DEF Inv, IInv, Accounted, SlotsAccounted
  <1>2. QED
    BY <1>1, Invariance, PTL

\* A caller blocked in spawnAndWait always waits for something that is still
\* pending: every path out of the queue or out of a startup releases it.
THEOREM NoLostWakeUp == Spec => []CallerOwedWakeUp
  <1>1. Inv => CallerOwedWakeUp
    BY HereParts DEF Inv, IInv, Owed, CallerOwedWakeUp
  <1>2. QED
    BY <1>1, Invariance, PTL

-----------------------------------------------------------------------------
(***************************************************************************)
(* A child needs its parent.  The methods either keep a run that lives and *)
(* make nobody active (Keeps), or start agents that the start has to       *)
(* account for; only a settle ends a live run, and it stops the children.  *)
(***************************************************************************)
Live == {"running", "cleanup"}

\* The parent of agent c, if it has one, has a live run.
Parented(s, c) ==
    s.rec[c].owner \in Agents => \E x \in RunsOf(s.rec[c].owner) : s.runs[x].phase \in Live

Guarded(s) == \A c \in s.agents : s.rec[c].status \in Active => Parented(s, c)

\* From s to t no agent became active or changed hands, and no live run ended.
Keeps(s, t) ==
    /\ t.agents \subseteq s.agents
    /\ \A a \in Agents : /\ t.rec[a].owner = s.rec[a].owner
                         /\ t.rec[a].status \in Active => s.rec[a].status \in Active
    /\ \A x \in RunIds : s.runs[x].phase \in Live => t.runs[x].phase \in Live

\* Keeps carries Guarded over.
LEMMA KeepsGuarded ==
    ASSUME NEW s, s \in State, Guarded(s), NEW t, Keeps(s, t)
    PROVE  Guarded(t)
  <1>1. s.agents \in SUBSET Agents /\ \A a : RunsOf(a) \subseteq RunIds
    BY StateParts DEF RunsOf
  <1>2. SUFFICES ASSUME NEW c \in t.agents, t.rec[c].status \in Active, t.rec[c].owner \in Agents
                 PROVE  \E x \in RunsOf(t.rec[c].owner) : t.runs[x].phase \in Live
    BY DEF Guarded, Parented
  <1>3. /\ c \in s.agents /\ c \in Agents
        /\ s.rec[c].status \in Active /\ s.rec[c].owner = t.rec[c].owner
    BY <1>1, <1>2 DEF Keeps
  <1>4. PICK x \in RunsOf(t.rec[c].owner) : s.runs[x].phase \in Live
    BY <1>2, <1>3 DEF Guarded, Parented
  <1>5. QED
    BY <1>1, <1>4 DEF Keeps

\* Keeps is transitive.
LEMMA KeepsAgain ==
    ASSUME NEW s, NEW t, NEW u, Keeps(s, t), Keeps(t, u)
    PROVE  Keeps(s, u)
  BY DEF Keeps

\* dequeue keeps runs and agents that live: an entry of the queue does not.
LEMMA DroppedKeeps ==
    ASSUME NEW s \in State, NEW X \in SUBSET RunIds, NEW result \in CallerStates,
           \A x \in X : s.runs[x].phase \notin Live
    PROVE  Keeps(s, Dropped(s, X, result)) /\ Dropped(s, X, result) \in State
  <1> DEFINE t == Dropped(s, X, result)
  <1>1. /\ t \in State /\ t.agents = s.agents /\ t.rec = s.rec
        /\ \A x \in RunIds \ X : t.runs[x] = s.runs[x]
    BY DroppedFacts
  <1> HIDE DEF t
  <1>2. Keeps(s, t)
    BY <1>1 DEF Keeps
  <1>3. QED
    BY <1>1, <1>2 DEF t

\* Writing a status that is not an active one makes nobody active.
LEMMA WithStatusKeeps ==
    ASSUME NEW s \in State, NEW S, NEW status \in Statuses \ Active
    PROVE  Keeps(s, WithStatus(s, S, status)) /\ WithStatus(s, S, status) \in State
  BY WithStatusFacts DEF Keeps

\* Giving back a slot touches no run and no record.
LEMMA ReleasedKeeps ==
    ASSUME NEW s \in State, NEW pool
    PROVE  Keeps(s, Released(s, pool)) /\ Released(s, pool) \in State
  BY ReleasedFacts DEF Keeps

\* abort makes nobody active and ends no run: a running one settles later.
LEMMA AbortedKeeps ==
    ASSUME NEW s \in State, NEW S
    PROVE  /\ Keeps(s, Aborted(s, S)) /\ Aborted(s, S) \in State
           /\ Aborted(s, S).agents = s.agents
           /\ \A a \in S \cap s.agents : Aborted(s, S).rec[a].status \notin Active
  <1> DEFINE hit == {a \in S \cap s.agents : s.rec[a].status \in Active}
             out == {x \in Queue(s) : x[1] \in hit /\ s.rec[x[1]].status = "queued"}
             d == Dropped(s, out, "returned")
             t == WithStatus(d, hit, "stopped")
  <1>1. /\ out \in SUBSET RunIds /\ "returned" \in CallerStates /\ "stopped" \in Statuses \ Active
        /\ \A x \in out : s.runs[x].phase \notin Live
    BY DEF Queue, CallerStates, Statuses, Active, Live
  <1>2. s.agents \subseteq Agents /\ \A a \in S \cap s.agents : a \notin hit => s.rec[a].status \notin Active
    BY StateParts
  <1> HIDE DEF hit, out
  <1>3. Keeps(s, d) /\ d \in State /\ d.agents = s.agents /\ d.rec = s.rec
    BY <1>1, DroppedKeeps, DroppedFacts
  <1> HIDE DEF d
  <1>4. /\ Keeps(d, t) /\ t \in State /\ t.agents = d.agents
        /\ \A a \in Agents : t.rec[a].status = IF a \in hit THEN "stopped" ELSE d.rec[a].status
    BY <1>1, <1>3, WithStatusKeeps, WithStatusFacts
  <1> HIDE DEF t
  <1>5. \A a \in S \cap s.agents : t.rec[a].status \notin Active
    BY <1>1, <1>2, <1>3, <1>4
  <1>6. Aborted(s, S) = t
    BY DEF Aborted, t, d, out, hit
  <1>7. QED
    BY <1>3, <1>4, <1>5, <1>6, KeepsAgain

\* What a start leaves to the other agents.
LEMMA StartedLeaves ==
    ASSUME NEW s \in State, NEW X \in SUBSET RunIds
    PROVE  LET t == Started(s, X) IN
           /\ t \in State /\ t.agents = s.agents
           /\ \A a \in Agents :
                 /\ t.rec[a].status = IF \E x \in X : x[1] = a THEN "running" ELSE s.rec[a].status
                 /\ t.rec[a].owner = s.rec[a].owner
           /\ \A x \in RunIds \ X : t.runs[x] = s.runs[x]
  <1> DEFINE copies(x) == s.runs[x].kind = "spawn" /\ s.rec[x[1]].opt.worktree
             charged(pool) == {x \in X : Charge(s, x) = pool}
             t == Started(s, X)
  <1>1. s \in State
    OBVIOUS
  <1>2. /\ t \in State /\ t.agents = s.agents
        /\ \A a \in Agents :
              /\ t.rec[a].status = IF \E x \in X : x[1] = a THEN "running" ELSE s.rec[a].status
              /\ t.rec[a].isBackground = s.rec[a].isBackground
              /\ t.rec[a].owner = s.rec[a].owner
              /\ t.caller[a] = IF <<a, 0>> \in X /\ ~copies(<<a, 0>>) /\ s.caller[a] = "start"
                               THEN "run" ELSE s.caller[a]
        /\ \A x \in RunIds \ X : t.runs[x] = s.runs[x]
        /\ \A x \in X : /\ t.runs[x].phase = IF copies(x) THEN "copying" ELSE "running"
                        /\ t.runs[x].pool = Charge(s, x)
                        /\ t.runs[x].kind = s.runs[x].kind
        /\ t.bg = s.bg + Cardinality(charged("background"))
        /\ t.fg = s.fg + Cardinality(charged("foreground"))
    BY <1>1, StartedFacts
  <1> HIDE DEF t
  <1>3. QED
    BY <1>2 DEF t

\* A start keeps Guarded when the agents it starts have a parent that lives, or
\* none.
LEMMA StartedGuarded ==
    ASSUME NEW s \in State, Guarded(s), NEW X \in SUBSET RunIds,
           \A x \in X : s.runs[x].phase \notin Live,
           \A x \in X : Parented(s, x[1])
    PROVE  Guarded(Started(s, X)) /\ Started(s, X) \in State
  <1> DEFINE t == Started(s, X)
  <1>1. /\ t \in State /\ t.agents = s.agents
        /\ \A a \in Agents :
              /\ t.rec[a].status = IF \E x \in X : x[1] = a THEN "running" ELSE s.rec[a].status
              /\ t.rec[a].owner = s.rec[a].owner
        /\ \A x \in RunIds \ X : t.runs[x] = s.runs[x]
    BY StartedLeaves
  <1> HIDE DEF t
  <1>2. s.agents \subseteq Agents /\ \A a : RunsOf(a) \subseteq RunIds
    BY StateParts DEF RunsOf
  <1>3. ASSUME NEW c \in t.agents, t.rec[c].status \in Active PROVE Parented(t, c)
    <2>1. c \in s.agents /\ c \in Agents /\ t.rec[c].owner = s.rec[c].owner
      BY <1>1, <1>2
    <2>2. Parented(s, c)
      BY <1>1, <1>3, <2>1 DEF Guarded
    <2>3. \A x \in RunIds : s.runs[x].phase \in Live => t.runs[x].phase \in Live
      BY <1>1
    <2>4. QED
      BY <1>2, <2>1, <2>2, <2>3 DEF Parented
  <1>4. QED
    BY <1>1, <1>3 DEF Guarded, t

\* drainQueue only starts agents that were queued, so they have a parent that
\* lives or none.
LEMMA DrainedGuarded ==
    ASSUME NEW s \in State, Guarded(s), NEW gone \in SUBSET MayBeGone(s)
    PROVE  Guarded(Drained(s, gone)) /\ Drained(s, gone) \in State
  <1> DEFINE taken == Reached(s, gone)
             S1 == taken \ Startable(s)
             S2 == taken \cap gone
             S3 == (taken \cap Startable(s)) \ gone
             ids == {x[1] : x \in S2}
             stale == Dropped(s, S1, "returned")
             unmade == Dropped(stale, S2, "threw")
             failed == WithStatus(unmade, ids, "error")
  <1>0. /\ S1 \in SUBSET RunIds /\ S2 \in SUBSET RunIds
        /\ "returned" \in CallerStates /\ "threw" \in CallerStates
    BY DEF Reached, MayBeGone, Startable, Queue, CallerStates
  <1>1. /\ S1 \in SUBSET RunIds /\ S2 \in SUBSET RunIds /\ S3 \in SUBSET RunIds
        /\ S1 \cap S2 = {} /\ S1 \cap S3 = {} /\ S2 \cap S3 = {}
        /\ \A x \in S1 \cup S2 \cup S3 : s.runs[x].phase = "queued"
        /\ \A x \in S3 : x[1] \in s.agents /\ s.rec[x[1]].status = "queued"
    BY DEF Reached, Startable, MayBeGone, Queue
  <1>2. /\ "queued" \notin Live /\ "queued" \in Active /\ "error" \in Statuses \ Active
        /\ "returned" \in CallerStates /\ "threw" \in CallerStates
    BY DEF Live, Active, Statuses, CallerStates
  <1> HIDE DEF S1, S2, S3, ids
  <1>3. /\ Keeps(s, stale) /\ stale \in State /\ stale.agents = s.agents /\ stale.rec = s.rec
        /\ \A x \in S2 \cup S3 : stale.runs[x] = s.runs[x]
    <2>1. \A x \in S1 : s.runs[x].phase \notin Live
      BY <1>1, <1>2
    <2>2. Keeps(s, stale) /\ stale \in State
      BY <1>1, <1>2, <2>1, DroppedKeeps
    <2>3. /\ stale \in State /\ stale.agents = s.agents /\ stale.rec = s.rec
          /\ \A x \in RunIds \ S1 : stale.runs[x] = s.runs[x]
          /\ \A x \in S1 : stale.runs[x].phase = "dropped"
      BY <1>0, DroppedFacts
    <2> HIDE DEF stale
    <2>4. QED
      BY <1>1, <2>2, <2>3
  <1> HIDE DEF stale
  <1>4. /\ Keeps(stale, unmade) /\ unmade \in State /\ unmade.rec = s.rec
        /\ \A x \in S3 : unmade.runs[x] = s.runs[x]
    <2>1. \A x \in S2 : stale.runs[x].phase \notin Live
      BY <1>1, <1>2, <1>3
    <2>2a. stale \in State
      BY <1>3
    <2>2. Keeps(stale, unmade) /\ unmade \in State
      BY <1>1, <1>2, <1>3, <2>1, DroppedKeeps
    <2>3. /\ unmade \in State /\ unmade.agents = stale.agents /\ unmade.rec = stale.rec
          /\ \A x \in RunIds \ S2 : unmade.runs[x] = stale.runs[x]
          /\ \A x \in S2 : unmade.runs[x].phase = "dropped"
      BY <1>0, <2>2a, DroppedFacts, ZenonT(40)
    <2> HIDE DEF unmade
    <2>4. QED
      BY <1>1, <1>3, <2>2, <2>3
  <1> HIDE DEF unmade
  <1>5. /\ Keeps(unmade, failed) /\ failed \in State /\ failed.runs = unmade.runs
        /\ \A a \in Agents : failed.rec[a].owner = s.rec[a].owner
    BY <1>2, <1>4, WithStatusKeeps, WithStatusFacts
  <1> HIDE DEF failed
  <1>6. Keeps(s, failed)
    BY <1>3, <1>4, <1>5, KeepsAgain
  <1>7. Guarded(failed)
    BY <1>6, KeepsGuarded
  <1>8. ASSUME NEW x \in S3 PROVE Parented(failed, x[1]) /\ failed.runs[x].phase \notin Live
    <2>1. x[1] \in Agents /\ Parented(s, x[1])
      BY <1>1, <1>2, RunIdParts DEF Guarded
    <2>2. \A a : RunsOf(a) \subseteq RunIds
      BY DEF RunsOf
    <2>3. Parented(failed, x[1])
      BY <1>5, <1>6, <2>1, <2>2 DEF Parented, Keeps
    <2>4. QED
      BY <1>1, <1>2, <1>4, <1>5, <2>3
  <1>9. Guarded(Started(failed, S3)) /\ Started(failed, S3) \in State
    BY <1>1, <1>5, <1>7, <1>8, StartedGuarded
  <1>10. QED
    BY <1>9 DEF Drained, failed, unmade, stale, ids, S1, S2, S3

\* settleRun ends a live run: the children of its agent are stopped first, so
\* nobody active loses a parent.
LEMMA SettledGuarded ==
    ASSUME NEW s \in State, Guarded(s), NEW x \in RunIds
    PROVE  Guarded(Settled(s, x)) /\ Settled(s, x) \in State
  <1> DEFINE o == Aborted(s, OwnedChildren(s, x[1]))
             r == Released(o, Refund(o, x))
             f == InPhase(r, x, "settled")
             C == [a \in Agents |-> IF x = <<a, 0>> /\ f.caller[a] = "run" THEN "returned" ELSE f.caller[a]]
             u == [f EXCEPT !.caller = C]
  <1>0. s.agents \subseteq Agents /\ \A a : RunsOf(a) = {y \in RunIds : y[1] = a}
    BY StateParts DEF RunsOf
  <1>1. /\ o \in State /\ Guarded(o) /\ o.agents = s.agents
        /\ \A c \in Agents : o.rec[c].owner = s.rec[c].owner
        /\ \A c \in OwnedChildren(s, x[1]) : o.rec[c].status \notin Active
    <2>1. OwnedChildren(s, x[1]) \subseteq s.agents
      BY DEF OwnedChildren
    <2>2. QED
      BY <2>1, AbortedKeeps, KeepsGuarded DEF Keeps
  <1> HIDE DEF o
  <1>2. r \in State /\ r.agents = o.agents /\ r.rec = o.rec /\ r.runs = o.runs
    BY <1>1, ReleasedFacts
  <1> HIDE DEF r
  <1>3. /\ f \in State /\ f.agents = r.agents /\ f.rec = r.rec /\ f.caller = r.caller
        /\ \A y \in RunIds \ {x} : f.runs[y] = r.runs[y]
    <2>1. "settled" \in Phases
      BY DEF Phases
    <2>2. QED
      BY <1>2, <2>1, InPhaseFacts
  <1> HIDE DEF f
  <1>4. C \in [Agents -> CallerStates]
    <2>1. f.caller \in [Agents -> CallerStates]
      BY <1>3, StateParts
    <2>2. QED
      BY <2>1 DEF CallerStates
  <1> HIDE DEF C
  <1>5. u \in State /\ u.agents = f.agents /\ u.rec = f.rec /\ u.runs = f.runs
    BY <1>3, <1>4 DEF State
  <1> HIDE DEF u
  <1>6. ASSUME NEW c \in u.agents, u.rec[c].status \in Active, u.rec[c].owner \in Agents
        PROVE  \E y \in RunsOf(u.rec[c].owner) : u.runs[y].phase \in Live
    <2>1. /\ c \in s.agents /\ c \in Agents /\ c \in o.agents /\ u.rec[c] = o.rec[c]
          /\ u.rec[c].owner = s.rec[c].owner
      BY <1>0, <1>1, <1>2, <1>3, <1>5
    <2>2. u.rec[c].owner # x[1]
      BY <1>1, <1>6, <2>1 DEF OwnedChildren
    <2>3. PICK y \in RunsOf(o.rec[c].owner) : o.runs[y].phase \in Live
      BY <1>1, <1>6, <2>1 DEF Guarded, Parented
    <2>4. y \in RunIds \ {x} /\ y \in RunsOf(u.rec[c].owner)
      BY <1>0, <2>1, <2>2, <2>3
    <2>5. u.runs[y] = o.runs[y]
      BY <1>2, <1>3, <1>5, <2>4
    <2>6. QED
      BY <2>3, <2>4, <2>5
  <1>7. Guarded(u)
    BY <1>6 DEF Guarded, Parented
  <1>8. QED
    BY <1>5, <1>7 DEF Settled, u, C, f, r, o

\* A status written to agents whose parent lives, or that have none.
LEMMA WithStatusGuarded ==
    ASSUME NEW s \in State, Guarded(s), NEW S, NEW status \in Statuses,
           \A a \in S \cap Agents : Parented(s, a)
    PROVE  Guarded(WithStatus(s, S, status)) /\ WithStatus(s, S, status) \in State
  <1> DEFINE t == WithStatus(s, S, status)
  <1>1. /\ t \in State /\ t.agents = s.agents /\ t.runs = s.runs
        /\ \A a \in Agents : /\ t.rec[a].status = IF a \in S THEN status ELSE s.rec[a].status
                             /\ t.rec[a].owner = s.rec[a].owner
    BY WithStatusFacts
  <1>2. s.agents \subseteq Agents
    BY StateParts
  <1> HIDE DEF t
  <1>3. ASSUME NEW c \in t.agents, t.rec[c].status \in Active PROVE Parented(t, c)
    <2>1. c \in s.agents /\ c \in Agents
      BY <1>1, <1>2
    <2>2. Parented(s, c)
      BY <1>1, <1>3, <2>1 DEF Guarded
    <2>3. QED
      BY <1>1, <2>1, <2>2 DEF Parented
  <1>4. QED
    BY <1>1, <1>3 DEF Guarded, t

\* One run changes that does not live.
LEMMA OneRunKeeps ==
    ASSUME NEW s \in State, NEW x \in RunIds, s.runs[x].phase \notin Live, NEW r \in Run
    PROVE  LET t == [s EXCEPT !.runs = [s.runs EXCEPT ![x] = r]] IN
           Keeps(s, t) /\ t \in State /\ t.rec = s.rec /\ t.runs[x] = r
  <1> DEFINE U == [s.runs EXCEPT ![x] = r]
             t == [s EXCEPT !.runs = U]
  <1>1. U \in [RunIds -> Run] /\ U[x] = r /\ \A y \in RunIds \ {x} : U[y] = s.runs[y]
    BY StateParts
  <1> HIDE DEF U
  <1>2. t \in State /\ t.runs = U /\ t.rec = s.rec /\ t.agents = s.agents
    BY <1>1 DEF State
  <1> HIDE DEF t
  <1>3. Keeps(s, t)
    BY <1>1, <1>2 DEF Keeps
  <1>4. QED
    BY <1>1, <1>2, <1>3 DEF t, U

\* A run of an agent that has a living parent, or none, is asked for and starts.
LEMMA RequestedStartedGuarded ==
    ASSUME NEW s \in State, Guarded(s), NEW x \in RunIds, s.runs[x].phase = "idle",
           NEW kind \in {"spawn", "resume", "inline"}, Parented(s, x[1])
    PROVE  LET t == Started(Requested(s, x, kind), {x}) IN Guarded(t) /\ t \in State
  <1> DEFINE r == [s.runs[x] EXCEPT !.kind = kind]
             t == [s EXCEPT !.runs = [s.runs EXCEPT ![x] = r]]
  <1>1. s.runs \in [RunIds -> Run] /\ "idle" \notin Live
    BY StateParts DEF Live
  <1>2. r \in Run /\ r.phase = "idle"
    BY <1>1 DEF Run
  <1>3. [s.runs EXCEPT ![x].kind = kind] = [s.runs EXCEPT ![x] = r]
    BY <1>1
  <1>4. Requested(s, x, kind) = t
    BY <1>3 DEF Requested
  <1> HIDE DEF r
  <1>5. Keeps(s, t) /\ t \in State /\ t.rec = s.rec /\ t.runs[x] = r
    BY <1>1, <1>2, OneRunKeeps
  <1> HIDE DEF t
  <1>6. Guarded(t)
    BY <1>5, KeepsGuarded
  <1>7. Parented(t, x[1])
    <2>1. \A a : RunsOf(a) \subseteq RunIds
      BY DEF RunsOf
    <2>2. QED
      BY <1>5, <2>1 DEF Parented, Keeps
  <1>8. Guarded(Started(t, {x})) /\ Started(t, {x}) \in State
    BY <1>1, <1>2, <1>5, <1>6, <1>7, StartedGuarded
  <1>9. QED
    BY <1>4, <1>8

\* ... or is queued.
LEMMA EnqueuedGuarded ==
    ASSUME NEW s \in State, Guarded(s), NEW x \in RunIds, s.runs[x].phase = "idle",
           NEW kind \in {"spawn", "resume", "inline"}, NEW pool \in Pools, Parented(s, x[1])
    PROVE  Guarded(Enqueued(s, x, kind, pool)) /\ Enqueued(s, x, kind, pool) \in State
  <1> DEFINE r == [phase |-> "queued", pool |-> pool, kind |-> kind, wasQueued |-> TRUE,
                   clash |-> FALSE, ahead |-> Queue(s)]
             t == [s EXCEPT !.runs = [s.runs EXCEPT ![x] = r]]
  <1>1. r \in Run /\ "idle" \notin Live /\ "queued" \in Statuses
    BY DEF Run, Phases, Pools, Queue, Live, Statuses
  <1> HIDE DEF r
  <1>2. Keeps(s, t) /\ t \in State /\ t.rec = s.rec
    BY <1>1, OneRunKeeps
  <1> HIDE DEF t
  <1>3. Guarded(t)
    BY <1>2, KeepsGuarded
  <1>4. \A a \in {x[1]} \cap Agents : Parented(t, a)
    <2>1. \A a : RunsOf(a) \subseteq RunIds
      BY DEF RunsOf
    <2>2. QED
      BY <1>2, <2>1 DEF Parented, Keeps
  <1>5. Guarded(WithStatus(t, {x[1]}, "queued")) /\ WithStatus(t, {x[1]}, "queued") \in State
    BY <1>1, <1>2, <1>3, <1>4, WithStatusGuarded
  <1>6. QED
    BY <1>5 DEF Enqueued, t, r

\* The owner of a spawn is running: the record spawn inserts has a parent that
\* lives, or none.
LEMMA InsertedGuarded ==
    ASSUME NEW s, IInv(s), Guarded(s), NEW a \in Agents, s.rec[a].status = "none",
           NEW o \in SpawnOptions, NEW owner \in Agents \cup {NoOwner, Workflow},
           owner \in Agents => Streaming(s, owner)
    PROVE  LET t == Inserted(s, a, o, owner) IN
           t \in State /\ Guarded(t) /\ Parented(t, a)
  <1> DEFINE q == [status |-> IF o.mode = "background" THEN "queued" ELSE "running",
                   isBackground |-> o.mode = "background", owner |-> owner,
                   session |-> FALSE, opt |-> o]
             R == [s.rec EXCEPT ![a] = q]
             A == s.agents \cup {a}
             t == [s EXCEPT !.agents = A, !.rec = R]
  <1>1. s \in State /\ s.rec \in [Agents -> AgentRecord] /\ s.agents \in SUBSET Agents
    BY StateParts DEF IInv
  <1>2. q \in AgentRecord /\ q.owner = owner
    BY DEF AgentRecord, Statuses
  <1> HIDE DEF q
  <1>3. R \in [Agents -> AgentRecord] /\ R[a] = q /\ \A b \in Agents \ {a} : R[b] = s.rec[b]
    BY <1>1, <1>2
  <1>4. A \in SUBSET Agents /\ A = s.agents \cup {a}
    BY <1>1
  <1> HIDE DEF R, A
  <1>5. t \in State /\ t.rec = R /\ t.runs = s.runs /\ t.agents = A
    BY <1>1, <1>3, <1>4 DEF State
  <1>6. Inserted(s, a, o, owner) = t
    BY DEF Inserted, t, R, A, q
  <1> HIDE DEF t
  <1>7. Parented(t, a)
    <2>1. t.rec[a].owner = owner
      BY <1>2, <1>3, <1>5
    <2>2. QED
      BY <1>5, <2>1 DEF Parented, Streaming, Live
  <1>8. Guarded(t)
    <2>1. ASSUME NEW c \in t.agents, t.rec[c].status \in Active, c # a PROVE Parented(t, c)
      <3>1. c \in s.agents /\ t.rec[c] = s.rec[c]
        BY <1>1, <1>3, <1>4, <1>5, <2>1
      <3>2. QED
        BY <1>5, <2>1, <3>1 DEF Guarded, Parented
    <2>2. QED
      BY <1>7, <2>1 DEF Guarded
  <1>9. QED
    BY <1>5, <1>6, <1>7, <1>8

\* spawn keeps Guarded: queued, started, copying or refused.
LEMMA SpawnedGuarded ==
    ASSUME NEW s \in State, Guarded(s), NEW a \in Agents, NEW o,
           s.runs[<<a, 0>>].phase = "idle", Parented(s, a)
    PROVE  Guarded(Spawned(s, a, o)) /\ Spawned(s, a, o) \in State
  <1> DEFINE x == <<a, 0>>
             pool == PoolFor(s, s.rec[a])
             queues == pool # "none" /\ ~o.bypassQueue /\ ~PoolHasRoom(s, pool)
             started == Started(Requested(s, x, "spawn"), {x})
             d == Dropped(s, {x}, "returned")
             refused == WithStatus(d, {a}, "stopped")
  <1>1. x \in RunIds /\ x[1] = a
    BY RunIdParts
  <1>2. Guarded(refused) /\ refused \in State
    <2>1. /\ {x} \in SUBSET RunIds /\ "returned" \in CallerStates /\ "stopped" \in Statuses \ Active
          /\ \A y \in {x} : s.runs[y].phase \notin Live
      BY <1>1 DEF Live, CallerStates, Statuses, Active
    <2>2. Keeps(s, d) /\ d \in State
      BY <2>1, DroppedKeeps
    <2> HIDE DEF d
    <2>3. Keeps(d, refused) /\ refused \in State
      BY <2>1, <2>2, WithStatusKeeps
    <2> HIDE DEF refused
    <2>4. QED
      BY <2>2, <2>3, KeepsGuarded
  <1>3. queues => Guarded(Enqueued(s, x, "spawn", pool)) /\ Enqueued(s, x, "spawn", pool) \in State
    <2>1. pool # "none" => pool \in Pools
      BY DEF PoolFor, Pools
    <2>2. QED
      BY <1>1, <2>1, EnqueuedGuarded
  <1>4. Guarded(started) /\ started \in State
    BY <1>1, RequestedStartedGuarded
  <1> HIDE DEF started
  <1>5. Guarded(Aborted(started, {a})) /\ Aborted(started, {a}) \in State
    BY <1>4, AbortedKeeps, KeepsGuarded
  <1>6. CASE queues /\ o.aborted
    BY <1>2, <1>6 DEF Spawned
  <1>7. CASE queues /\ ~o.aborted
    BY <1>3, <1>7 DEF Spawned
  <1>8. CASE ~queues
    <2>1. Spawned(s, a, o) = IF o.aborted /\ ~o.worktree THEN Aborted(started, {a}) ELSE started
      BY <1>8 DEF Spawned, started
    <2>2. QED
      BY <1>4, <1>5, <2>1
  <1>9. QED
    BY <1>6, <1>7, <1>8

\* An action that takes the manager to a guarded state.
LEMMA BecomesGuarded ==
    ASSUME NEW STATE t, t \in State, Guarded(t), Becomes(t)
    PROVE  Guarded(Here')
  BY BecomesHere

\* An action that ends with drainQueue.
LEMMA DrainQueueGuarded ==
    ASSUME NEW STATE t, t \in State, Guarded(t), DrainQueue(t)
    PROVE  Guarded(Here')
  <1>1. PICK gone \in SUBSET MayBeGone(t) : Becomes(Drained(t, gone))
    BY DEF DrainQueue
  <1>2. Guarded(Drained(t, gone)) /\ Drained(t, gone) \in State
    BY DrainedGuarded
  <1>3. QED
    BY <1>1, <1>2, BecomesGuarded

\* An action that ends with settleRun.
LEMMA SettleRunGuarded ==
    ASSUME NEW STATE t, t \in State, Guarded(t), NEW x \in RunIds, SettleRun(t, x)
    PROVE  Guarded(Here')
  <1>1. Guarded(Settled(t, x)) /\ Settled(t, x) \in State
    BY SettledGuarded
  <1>2. QED
    BY <1>1, BecomesGuarded, DrainQueueGuarded DEF SettleRun

\* spawn and spawnAndWait: a child's parent is in the middle of its run.
LEMMA SpawnGuards ==
    ASSUME IInv(Here), Guarded(Here), NEW a \in Agents, NEW o \in SpawnOptions,
           NEW owner \in Agents \cup {NoOwner, Workflow},
           owner \in Agents => Streaming(Here, owner), Spawn(a, o, owner)
    PROVE  Guarded(Here')
  <1> DEFINE i == Inserted(Here, a, o, owner)
             t == Spawned(i, a, o)
             phase == t.runs[<<a, 0>>].phase
             c == CASE phase \in {"queued", "copying"} -> "start"
                    [] phase = "running" -> "run"
                    [] OTHER -> "returned"
             C == [t.caller EXCEPT ![a] = c]
             w == [t EXCEPT !.caller = C]
  <1>1. Here.rec[a].status = "none"
    BY HereParts DEF Spawn
  <1>2. i \in State /\ Guarded(i) /\ Parented(i, a) /\ \A x \in RunIds : x[1] = a => i.runs[x].phase = "idle"
    BY <1>1, InsertedInv, InsertedGuarded
  <1> HIDE DEF i
  <1>3. i.runs[<<a, 0>>].phase = "idle"
    BY <1>2, RunIdParts
  <1>4. Guarded(t) /\ t \in State
    BY <1>2, <1>3, SpawnedGuarded
  <1> HIDE DEF t
  <1>5. c \in CallerStates
    BY DEF CallerStates
  <1> HIDE DEF c
  <1>6. C \in [Agents -> CallerStates]
    BY <1>4, <1>5, StateParts
  <1> HIDE DEF C
  <1>7. w \in State /\ w.agents = t.agents /\ w.rec = t.rec /\ w.runs = t.runs
    BY <1>4, <1>6 DEF State
  <1>8. Becomes(t) \/ Becomes(w)
    BY DEF Spawn, Awaited, w, C, c, t, i
  <1> HIDE DEF w
  <1>9. Guarded(w)
    BY <1>4, <1>7, KeepsGuarded DEF Keeps
  <1>10. QED
    BY <1>4, <1>7, <1>8, <1>9, BecomesGuarded

\* startAgent after createWorktree: the run lives from now on, or its copy is
\* discarded.
LEMMA CopyDoneGuards ==
    ASSUME IInv(Here), Guarded(Here), NEW a \in Agents, NEW esc, CopyDone(a, esc)
    PROVE  Guarded(Here')
  <1> DEFINE x == <<a, 0>>
             p == InPhase(Here, x, "running")
             C == [caller EXCEPT ![a] = IF @ = "start" THEN "run" ELSE @]
             launched == [p EXCEPT !.caller = C]
             g == InPhase(Here, x, "discarding")
             freed == Released(g, runs[x].pool)
  <1>1. /\ Here \in State /\ x \in RunIds /\ Here.runs[x].phase = "copying"
        /\ caller \in [Agents -> CallerStates] /\ "running" \in Phases /\ "discarding" \in Phases
    BY RunIdParts, HereParts, StateParts DEF IInv, CopyDone, Phases
  <1>2. Guarded(launched) /\ launched \in State
    <2>1. /\ p \in State /\ p.agents = Here.agents /\ p.rec = Here.rec /\ p.caller = Here.caller
          /\ \A y \in RunIds \ {x} : p.runs[y] = Here.runs[y]
          /\ p.runs[x].phase = "running"
      <3> HIDE DEF x
      <3> QED BY <1>1, InPhaseFacts
    <2> HIDE DEF p
    <2>2. C \in [Agents -> CallerStates]
      BY <1>1 DEF CallerStates
    <2> HIDE DEF C
    <2>3. launched \in State /\ launched.agents = p.agents /\ launched.rec = p.rec /\ launched.runs = p.runs
      BY <2>1, <2>2 DEF State
    <2> HIDE DEF launched
    <2>4. Keeps(Here, launched)
      BY <2>1, <2>3 DEF Keeps, Live
    <2>5. QED
      BY <1>1, <2>3, <2>4, KeepsGuarded
  <1>3. Guarded(freed) /\ freed \in State
    <2>1. /\ g \in State /\ g.agents = Here.agents /\ g.rec = Here.rec
          /\ \A y \in RunIds \ {x} : g.runs[y] = Here.runs[y]
          /\ g.runs[x].phase = "discarding"
      <3> HIDE DEF x
      <3> QED BY <1>1, InPhaseFacts
    <2> HIDE DEF g
    <2>2. Keeps(Here, g)
      BY <1>1, <2>1 DEF Keeps, Live
    <2>3. Keeps(g, freed) /\ freed \in State
      BY <2>1, ReleasedKeeps
    <2> HIDE DEF freed
    <2>4. QED
      BY <1>1, <2>2, <2>3, KeepsAgain, KeepsGuarded
  <1> HIDE DEF launched, freed
  <1>4. Guarded(Aborted(launched, {a})) /\ Aborted(launched, {a}) \in State
    BY <1>2, AbortedKeeps, KeepsGuarded
  <1>5. Becomes(launched) \/ Becomes(Aborted(launched, {a})) \/ Becomes(freed)
    BY DEF CopyDone, launched, p, C, freed, g
  <1>6. QED
    BY <1>2, <1>3, <1>4, <1>5, BecomesGuarded

\* A failed copy ends a run that does not live yet, and its agent.
LEMMA CopyFailedGuards ==
    ASSUME IInv(Here), Guarded(Here), NEW a \in Agents, CopyFailed(a)
    PROVE  Guarded(Here')
  <1> DEFINE x == <<a, 0>>
             d == Dropped(Here, {x}, "threw")
             freed == Released(d, runs[x].pool)
             failed == WithStatus(freed, {a}, "error")
             A == agents \ {a}
             gone == [freed EXCEPT !.agents = A]
  <1>1. /\ Here \in State /\ {x} \in SUBSET RunIds /\ "threw" \in CallerStates
        /\ "error" \in Statuses \ Active
        /\ \A y \in {x} : Here.runs[y].phase \notin Live
    BY RunIdParts, HereParts DEF IInv, CopyFailed, CallerStates, Statuses, Active, Live
  <1>2. Keeps(Here, d) /\ d \in State
    BY <1>1, DroppedKeeps
  <1>3. d.agents = Here.agents
    BY DEF Dropped, Here
  <1> HIDE DEF d
  <1>4. Keeps(d, freed) /\ freed \in State /\ freed.agents = d.agents
    BY <1>2, ReleasedKeeps, ReleasedFacts
  <1> HIDE DEF freed
  <1>5. Guarded(freed)
    BY <1>1, <1>2, <1>4, KeepsAgain, KeepsGuarded
  <1>6. Guarded(failed) /\ failed \in State
    BY <1>1, <1>4, <1>5, WithStatusKeeps, KeepsGuarded
  <1>7. Guarded(gone) /\ gone \in State
    <2>1. A \subseteq freed.agents /\ A \in SUBSET Agents
      BY <1>1, <1>3, <1>4, HereParts, StateParts
    <2> HIDE DEF A
    <2>2. gone \in State /\ gone.agents = A /\ gone.rec = freed.rec /\ gone.runs = freed.runs
      BY <1>4, <2>1 DEF State
    <2> HIDE DEF gone
    <2>3. Keeps(freed, gone)
      BY <2>1, <2>2 DEF Keeps
    <2>4. QED
      BY <1>4, <1>5, <2>2, <2>3, KeepsGuarded
  <1> HIDE DEF failed, gone
  <1>8. DrainQueue(failed) \/ DrainQueue(gone)
    BY DEF CopyFailed, failed, gone, freed, d
  <1>9. QED
    BY <1>6, <1>7, <1>8, DrainQueueGuarded

\* The end of a discard.
LEMMA DiscardDoneGuards ==
    ASSUME IInv(Here), Guarded(Here), NEW a \in Agents, DiscardDone(a)
    PROVE  Guarded(Here')
  <1> DEFINE x == <<a, 0>>
             d == Dropped(Here, {x}, "returned")
  <1>1. /\ Here \in State /\ {x} \in SUBSET RunIds /\ "returned" \in CallerStates
        /\ \A y \in {x} : Here.runs[y].phase \notin Live
    BY RunIdParts, HereParts DEF IInv, DiscardDone, CallerStates, Live
  <1>2. Keeps(Here, d) /\ d \in State
    BY <1>1, DroppedKeeps
  <1>3. DrainQueue(d)
    BY DEF DiscardDone
  <1> HIDE DEF d
  <1>4. QED
    BY <1>1, <1>2, <1>3, KeepsGuarded, DrainQueueGuarded

\* The session flag of a record.
LEMMA SessionKeeps ==
    ASSUME NEW s \in State, NEW a \in Agents, NEW got \in BOOLEAN
    PROVE  LET t == [s EXCEPT !.rec = [s.rec EXCEPT ![a].session = got]] IN
           t \in State /\ Keeps(s, t)
  <1> DEFINE R == [s.rec EXCEPT ![a].session = got]
             u == [s EXCEPT !.rec = R]
  <1>1. R \in [Agents -> AgentRecord]
        /\ \A b \in Agents : R[b].owner = s.rec[b].owner /\ R[b].status = s.rec[b].status
    BY StateParts DEF AgentRecord
  <1> HIDE DEF R
  <1>2. u \in State /\ u.rec = R /\ u.runs = s.runs /\ u.agents = s.agents
    BY <1>1 DEF State
  <1> HIDE DEF u
  <1>3. Keeps(s, u)
    BY <1>1, <1>2 DEF Keeps
  <1>4. QED
    BY <1>2, <1>3 DEF u, R

\* onSessionCreated.
LEMMA SessionCreatedGuards ==
    ASSUME IInv(Here), Guarded(Here), NEW a \in Agents, SessionCreated(a)
    PROVE  Guarded(Here')
  <1> DEFINE t == [Here EXCEPT !.rec = [Here.rec EXCEPT ![a].session = TRUE]]
  <1>1. Here \in State
    BY DEF IInv
  <1>2. t \in State /\ Keeps(Here, t)
    BY <1>1, SessionKeeps
  <1>3. Becomes(t)
    BY HereParts DEF SessionCreated
  <1> HIDE DEF t
  <1>4. QED
    BY <1>1, <1>2, <1>3, KeepsGuarded, BecomesGuarded

\* The status a run's end writes makes nobody active.
LEMMA EndedKeeps ==
    ASSUME NEW s \in State, NEW x \in RunIds, NEW outcome \in {"completed", "error"}
    PROVE  Keeps(s, Ended(s, x, outcome)) /\ Ended(s, x, outcome) \in State
  <1> DEFINE a == x[1]
             keeps == s.rec[a].status = "stopped" /\ s.runs[x].kind # "inline"
             got == s.rec[a].session \/ (s.runs[x].kind = "spawn" /\ outcome = "completed")
             w == WithStatus(s, IF keeps THEN {} ELSE {a}, outcome)
             t == [w EXCEPT !.rec = [w.rec EXCEPT ![a].session = got]]
  <1>1. a \in Agents /\ got \in BOOLEAN /\ outcome \in Statuses \ Active
    BY RunIdParts DEF Statuses, Active
  <1>2. Keeps(s, w) /\ w \in State
    BY <1>1, WithStatusKeeps
  <1> HIDE DEF got
  <1>3. Ended(s, x, outcome) = [w EXCEPT !.rec[a].session = got]
    BY DEF Ended, got
  <1> HIDE DEF w, a
  <1>4. [w EXCEPT !.rec[a].session = got] = t
    BY <1>2 DEF State
  <1>5. t \in State /\ Keeps(w, t)
    BY <1>1, <1>2, SessionKeeps
  <1> HIDE DEF t
  <1>6. QED
    BY <1>2, <1>3, <1>4, <1>5, KeepsAgain

\* The end of a run: it lives on in its cleanup, or its children are stopped.
LEMMA RunEndsGuards ==
    ASSUME IInv(Here), Guarded(Here), NEW x \in RunIds, NEW outcome \in {"completed", "error"},
           RunEnds(x, outcome)
    PROVE  Guarded(Here')
  <1> DEFINE e == Ended(Here, x, outcome)
             t == InPhase(e, x, "cleanup")
  <1>1. Here \in State /\ "cleanup" \in Phases
    BY DEF IInv, Phases
  <1>2. e \in State /\ Keeps(Here, e)
    BY <1>1, EndedKeeps
  <1> HIDE DEF e
  <1>3. Guarded(e)
    BY <1>1, <1>2, KeepsGuarded
  <1>4. /\ t \in State /\ t.agents = e.agents /\ t.rec = e.rec
        /\ \A y \in RunIds \ {x} : t.runs[y] = e.runs[y]
        /\ t.runs[x].phase = "cleanup"
    BY <1>1, <1>2, InPhaseFacts
  <1> HIDE DEF t
  <1>5. Guarded(t)
    <2>1. Keeps(e, t)
      BY <1>4 DEF Keeps, Live
    <2>2. QED
      BY <1>2, <1>3, <2>1, KeepsGuarded
  <1>6. Becomes(t) \/ SettleRun(e, x)
    BY DEF RunEnds, t, e
  <1>7. QED
    BY <1>2, <1>3, <1>4, <1>5, <1>6, BecomesGuarded, SettleRunGuarded

\* The end of a run's cleanup.
LEMMA CleanupDoneGuards ==
    ASSUME IInv(Here), Guarded(Here), NEW a \in Agents, CleanupDone(a)
    PROVE  Guarded(Here')
  BY RunIdParts, SettleRunGuarded DEF CleanupDone, IInv

\* A background resume: its agent is a top-level one.
LEMMA ResumeBackgroundGuards ==
    ASSUME IInv(Here), Guarded(Here), NEW a \in Agents, NEW k \in 1..MaxResumes, ResumeBackground(a, k)
    PROVE  Guarded(Here')
  <1> DEFINE x == <<a, k>>
             R == [rec EXCEPT ![a].isBackground = TRUE, ![a].status = "queued"]
             u == [Here EXCEPT !.rec = R]
  <1>1. x \in RunIds /\ x[1] = a /\ Here.runs[x].phase = "idle"
    BY HereParts, ConstantsAssumption DEF ResumeBackground, NextRun, RunIds
  <1>2. Here \in State /\ rec \in [Agents -> AgentRecord] /\ rec[a].owner = NoOwner
    BY HereParts, StateParts DEF IInv, ResumeBackground, IsTopLevelAgent
  <1>3. /\ R \in [Agents -> AgentRecord]
        /\ \A b \in Agents \ {a} : R[b] = rec[b]
        /\ R[a].owner = rec[a].owner
    BY <1>2, SMTT(30), ZenonT(40) DEF AgentRecord, Statuses
  <1> HIDE DEF R
  <1>4. u \in State /\ u.agents = agents /\ u.rec = R /\ u.runs = Here.runs
    BY <1>2, <1>3, HereParts DEF State
  <1>5. Becomes(Enqueued(u, x, "resume", "background"))
          \/ Becomes(Started(Requested(u, x, "resume"), {x}))
    BY DEF ResumeBackground, u, R
  <1> HIDE DEF u
  <1>6. Parented(u, a)
    BY <1>2, <1>3, <1>4, ConstantsAssumption DEF Parented
  <1>7. Guarded(u)
    <2>1. ASSUME NEW c \in u.agents, u.rec[c].status \in Active, c # a PROVE Parented(u, c)
      <3>1. c \in agents /\ u.rec[c] = rec[c]
        BY <1>2, <1>3, <1>4, <2>1, HereParts, StateParts
      <3>2. QED
        BY <1>4, <2>1, <3>1, HereParts DEF Guarded, Parented
    <2>2. QED
      BY <1>6, <2>1 DEF Guarded
  <1>8. Guarded(Enqueued(u, x, "resume", "background")) /\ Enqueued(u, x, "resume", "background") \in State
    BY <1>1, <1>4, <1>6, <1>7, EnqueuedGuarded DEF Pools
  <1>9. /\ Guarded(Started(Requested(u, x, "resume"), {x}))
        /\ Started(Requested(u, x, "resume"), {x}) \in State
    BY <1>1, <1>4, <1>6, <1>7, RequestedStartedGuarded
  <1>10. QED
    BY <1>5, <1>8, <1>9, BecomesGuarded

\* A foreground resume: the main session's, or that of a parent in the middle of
\* its run.
LEMMA ResumeInlineGuards ==
    ASSUME IInv(Here), Guarded(Here), NEW a \in Agents, NEW k \in 1..MaxResumes, ResumeInline(a, k)
    PROVE  Guarded(Here')
  <1> DEFINE x == <<a, k>>
  <1>1. x \in RunIds /\ x[1] = a /\ Here.runs[x].phase = "idle" /\ Here \in State
    BY HereParts, ConstantsAssumption DEF ResumeInline, NextRun, RunIds, IInv
  <1>2. Parented(Here, a)
    BY HereParts, ConstantsAssumption DEF Parented, ResumeInline, IsTopLevelAgent, Streaming, Live
  <1>3. /\ Guarded(Started(Requested(Here, x, "inline"), {x}))
        /\ Started(Requested(Here, x, "inline"), {x}) \in State
    BY <1>1, <1>2, RequestedStartedGuarded
  <1>4. QED
    BY <1>3, BecomesGuarded DEF ResumeInline

\* abort.
LEMMA AbortGuards ==
    ASSUME IInv(Here), Guarded(Here), NEW a \in Agents, Abort(a)
    PROVE  Guarded(Here')
  BY AbortedKeeps, KeepsGuarded, BecomesGuarded DEF Abort, IInv

\* Eviction and a change of a limit, with the drain that follows.
LEMMA SettingsGuards ==
    ASSUME IInv(Here), Guarded(Here),
           \/ \E S \in SUBSET Agents : Evict(S)
           \/ \E n \in BgLimits : SetMaxConcurrent(n)
           \/ \E n \in FgLimits : SetMaxConcurrentForeground(n)
    PROVE  Guarded(Here')
  <1>1. Here \in State /\ rec \in [Agents -> AgentRecord]
    BY HereParts, StateParts DEF IInv
  <1>2. ASSUME NEW S \in SUBSET Agents, Evict(S) PROVE Guarded(Here')
    <2> DEFINE A == agents \ S
               R == [a \in Agents |-> IF a \in S THEN [rec[a] EXCEPT !.session = FALSE] ELSE rec[a]]
               u == [Here EXCEPT !.agents = A, !.rec = R]
    <2>1. /\ A \in SUBSET Agents /\ A \subseteq Here.agents /\ R \in [Agents -> AgentRecord]
          /\ \A b \in Agents : R[b].owner = rec[b].owner /\ R[b].status = rec[b].status
      <3>1. /\ A \in SUBSET Agents /\ A \subseteq Here.agents
        BY HereParts, <1>1, StateParts
      <3>2. \A b \in Agents : /\ rec[b] \in AgentRecord /\ [rec[b] EXCEPT !.session = FALSE] \in AgentRecord
                              /\ [rec[b] EXCEPT !.session = FALSE].owner = rec[b].owner
                              /\ [rec[b] EXCEPT !.session = FALSE].status = rec[b].status
        BY <1>1 DEF AgentRecord
      <3>3. R \in [Agents -> AgentRecord]
        BY <3>2
      <3>4. \A b \in Agents : R[b].owner = rec[b].owner /\ R[b].status = rec[b].status
        BY <3>2
      <3> QED BY <3>1, <3>3, <3>4
    <2> HIDE DEF A, R
    <2>2. u \in State /\ u.agents = A /\ u.rec = R /\ u.runs = Here.runs
      BY <1>1, <2>1 DEF State
    <2>3. Becomes(u)
      BY <1>2 DEF Evict, u, A, R
    <2> HIDE DEF u
    <2>4. Keeps(Here, u)
      BY <2>1, <2>2, HereParts DEF Keeps
    <2>5. QED
      BY <1>1, <2>2, <2>3, <2>4, KeepsGuarded, BecomesGuarded
  <1>3. ASSUME NEW n \in BgLimits, SetMaxConcurrent(n) PROVE Guarded(Here')
    <2> DEFINE u == [Here EXCEPT !.bgLimit = n]
    <2>1. u \in State /\ u.agents = Here.agents /\ u.rec = Here.rec /\ u.runs = Here.runs
      BY <1>1, ConstantsAssumption DEF State
    <2>2. DrainQueue(u)
      BY <1>3 DEF SetMaxConcurrent
    <2> HIDE DEF u
    <2>3. QED
      BY <1>1, <2>1, <2>2, KeepsGuarded, DrainQueueGuarded DEF Keeps
  <1>4. ASSUME NEW n \in FgLimits, SetMaxConcurrentForeground(n) PROVE Guarded(Here')
    <2> DEFINE u == [Here EXCEPT !.fgLimit = n]
    <2>1. u \in State /\ u.agents = Here.agents /\ u.rec = Here.rec /\ u.runs = Here.runs
      BY <1>1, ConstantsAssumption DEF State
    <2>2. DrainQueue(u)
      BY <1>4 DEF SetMaxConcurrentForeground
    <2> HIDE DEF u
    <2>3. QED
      BY <1>1, <2>1, <2>2, KeepsGuarded, DrainQueueGuarded DEF Keeps
  <1>5. QED
    BY <1>2, <1>3, <1>4

\* After a shutdown there is nobody left.
LEMMA ShutdownGuards ==
    ASSUME Shutdown
    PROVE  Guarded(Here')
  <1>1. agents' = {}
    BY DEF Shutdown, Becomes, Here, WithStatus, Dropped
  <1>2. Here'.agents = {}
    BY <1>1 DEF Here
  <1>3. QED
    BY <1>2 DEF Guarded

\* Every step keeps the children guarded.
LEMMA NextGuarded == IInv(Here) /\ Guarded(Here) /\ [Next]_vars => Guarded(Here')
  <1> SUFFICES ASSUME IInv(Here), Guarded(Here), [Next]_vars PROVE Guarded(Here')
    OBVIOUS
  <1>1. ASSUME NEW a \in Agents, NEW o \in Options, NEW owner \in Owners(o), Spawn(a, o, owner)
        PROVE  Guarded(Here')
    <2>1. o \in SpawnOptions /\ agents \in SUBSET Agents
      BY ConstantsAssumption, HereParts, StateParts DEF IInv
    <2>2. owner \in Agents \cup {NoOwner, Workflow} /\ (owner \in Agents => Streaming(Here, owner))
      <3>1. CASE o.owner = "none"
        BY <1>1, <3>1, ConstantsAssumption DEF Owners
      <3>2. CASE o.owner # "none" /\ o.owner = "workflow"
        BY <1>1, <3>2, ConstantsAssumption DEF Owners
      <3>3. CASE o.owner # "none" /\ o.owner # "workflow"
        BY <1>1, <2>1, <3>3 DEF Owners
      <3>4. QED
        BY <3>1, <3>2, <3>3
    <2>3. QED
      BY <1>1, <2>1, <2>2, SpawnGuards
  <1>2. CASE Request
    BY <1>1, <1>2, ResumeBackgroundGuards, ResumeInlineGuards, AbortGuards, SettingsGuards,
       ShutdownGuards DEF Request
  <1>3. ASSUME NEW a \in Agents, SessionCreated(a) PROVE Guarded(Here')
    BY <1>3, SessionCreatedGuards
  <1>4. ASSUME NEW a \in Agents, Answer(a) PROVE Guarded(Here')
    <2>1. \A x \in RunsOf(a) : x \in RunIds
      BY DEF RunsOf
    <2>2. QED
      BY <1>4, <2>1, CopyDoneGuards, CopyFailedGuards, DiscardDoneGuards, CleanupDoneGuards,
         RunEndsGuards DEF Answer
  <1>5. CASE UNCHANGED vars
    <2>1. Here' = Here
      BY <1>5 DEF Here, vars
    <2>2. QED
      BY <2>1
  <1>6. QED
    BY <1>2, <1>3, <1>4, <1>5 DEF Next

\* The children are guarded.
Cared == Guarded(Here)

\* A queued or running child always has a parent with a live run: whatever is
\* spawned, resumed, stopped or drained in between, settleRun's
\* abortOwnedChildren leaves no child behind that nobody can see or stop.
THEOREM NoOrphans == Spec => []ChildNeedsParent
  <1>1. Init => Cared
    BY HereParts DEF Init, Cared, Guarded
  <1>2. Inv /\ Cared /\ [Next]_vars => Cared'
    BY NextGuarded DEF Inv, Cared
  <1>3. Cared => ChildNeedsParent
    BY HereParts DEF Cared, Guarded, Parented, Live, ChildNeedsParent
  <1>4. QED
    BY <1>1, <1>2, <1>3, Invariance, PTL DEF Spec

-----------------------------------------------------------------------------
(***************************************************************************)
(* The pools are used and not overfilled.  drainQueue takes the entries    *)
(* the rooms allow, in the order of the queue: what it takes is counted    *)
(* over that order (TakenFew, TakenEnough).                                *)
(***************************************************************************)
\* The entries of the queue are in the order of the array, and what is ahead of one
\* was pushed before it.
Ordered(s) ==
    /\ \A x \in Queue(s) : x \notin s.runs[x].ahead /\ \A y \in s.runs[x].ahead : s.runs[y].phase # "idle"
    /\ \A x, y \in Queue(s) : x # y => (x \in s.runs[y].ahead <=> y \notin s.runs[x].ahead)
    /\ \A x, y, z \in Queue(s) : x \in s.runs[y].ahead /\ y \in s.runs[z].ahead => x \in s.runs[z].ahead

\* An entry waits for the pool it will be charged to.
Pooled(s) ==
    \A x \in Queue(s) :
        LET r == s.rec[x[1]] IN
        \/ /\ s.runs[x].kind \in {"spawn", "resume"} /\ s.runs[x].pool = "background"
           /\ OccupiesPoolSlot(r)
        \/ /\ s.runs[x].kind = "spawn" /\ s.runs[x].pool = "foreground" /\ x = <<x[1], 0>>
           /\ ~OccupiesPoolSlot(r) /\ OccupiesForegroundSlot(r)

\* An inline resume takes no slot.
InlineFree(s) ==
    \A x \in RunIds : s.runs[x].kind = "inline" /\ s.runs[x].phase \in Holding => s.runs[x].pool = "none"

\* The phases of a spawn before its model runs.
Early == {"idle", "queued", "copying", "discarding"}

\* Until then the agent has no session, so nothing resumed it, and nothing can turn
\* a waiting foreground entry into a background one.
Young(s) ==
    \A a \in Agents : s.runs[<<a, 0>>].phase \in Early =>
        /\ ~s.rec[a].session
        /\ \A x \in RunsOf(a) \ {<<a, 0>>} : s.runs[x].phase = "idle"

Lined(s) == Ordered(s) /\ Pooled(s) /\ InlineFree(s) /\ Young(s)

\* Every nonempty set of naturals has a least element.
LEMMA LeastNat ==
    ASSUME NEW T, T \subseteq Nat, T # {} PROVE \E m \in T : \A k \in T : m <= k
  <1> DEFINE R == {p \in Nat \X Nat : p[1] < p[2]}
  <1>1. IsWellFoundedOn(R, Nat)
    BY NatLessThanWellFounded DEF OpToRel
  <1>2. PICK m \in T : \A k \in T : ~(<<k, m>> \in R)
    <2> HIDE DEF R
    <2>1. QED
      BY <1>1, WFMin
  <1>3. ASSUME NEW k \in T PROVE m <= k
    <2>1. k \in Nat /\ m \in Nat /\ <<k, m>> \in Nat \X Nat
      OBVIOUS
    <2>2. ~(k < m)
      BY <1>2, <2>1
    <2>3. QED
      BY <2>1, <2>2
  <1>4. QED
    BY <1>3

\* A part of a set of runs is not larger, and one that lacks a run is smaller.
LEMMA CardPart ==
    ASSUME NEW A \in SUBSET RunIds, NEW B \in SUBSET A
    PROVE  /\ Cardinality(B) \in Nat /\ Cardinality(A) \in Nat /\ Cardinality(B) <= Cardinality(A)
           /\ \A x \in A \ B : Cardinality(B) + 1 <= Cardinality(A)
  <1>1. IsFiniteSet(A) /\ Cardinality(B) \in Nat /\ Cardinality(A) \in Nat
    BY RunsFinite
  <1>2. Cardinality(B) <= Cardinality(A)
    BY <1>1, FS_Subset
  <1>3. ASSUME NEW x \in A \ B PROVE Cardinality(B) + 1 <= Cardinality(A)
    <2>1. B \in SUBSET (A \ {x}) /\ IsFiniteSet(A \ {x})
      BY <1>1, <1>3, RunsFinite
    <2>2. Cardinality(B) <= Cardinality(A \ {x})
      BY <2>1, FS_Subset
    <2>3. Cardinality(A \ {x}) = Cardinality(A) - 1
      BY <1>3, CardLess
    <2>4. QED
      BY <1>1, <2>2, <2>3
  <1>4. QED
    BY <1>1, <1>2, <1>3

\* A nonempty set of entries has a first, and what is ahead of it is not in the set.
LEMMA FirstInLine ==
    ASSUME NEW s, Ordered(s), NEW T \in SUBSET Queue(s), T # {}
    PROVE  \E m \in T : \A y \in T : y \notin s.runs[m].ahead
  <1> DEFINE before(x) == {y \in T : y \in s.runs[x].ahead}
             N == {Cardinality(before(x)) : x \in T}
  <1>1. T \in SUBSET RunIds
    BY DEF Queue
  <1>2. \A x \in T : before(x) \in SUBSET T /\ Cardinality(before(x)) \in Nat
    BY <1>1, CardPart
  <1>3. PICK n \in N : \A k \in N : n <= k
    <2>1. N \subseteq Nat /\ N # {}
      BY <1>2
    <2> HIDE DEF N
    <2>2. QED
      BY <2>1, LeastNat
  <1>4. PICK m \in T : n = Cardinality(before(m))
    OBVIOUS
  <1>5. ASSUME NEW y \in T, y \in s.runs[m].ahead PROVE FALSE
    <2>1. before(y) \subseteq before(m) /\ y \in before(m) \ before(y)
      BY <1>4, <1>5 DEF Ordered
    <2>2. before(m) \in SUBSET RunIds /\ before(y) \in SUBSET before(m)
      BY <1>1, <2>1
    <2>3. y \in before(m) \ before(y)
      BY <2>1
    <2>4. Cardinality(before(y)) \in N /\ Cardinality(before(m)) = n /\ n \in Nat
      BY <1>2, <1>4
    <2> HIDE DEF before, N
    <2>5. Cardinality(before(y)) + 1 <= Cardinality(before(m)) /\ Cardinality(before(y)) \in Nat
      BY <2>2, <2>3, CardPart
    <2>6. QED
      BY <1>3, <2>4, <2>5
  <1>6. QED
    BY <1>5

\* ... and a last, which all the others are ahead of.
LEMMA LastInLine ==
    ASSUME NEW s, Ordered(s), NEW T \in SUBSET Queue(s), T # {}
    PROVE  \E m \in T : \A y \in T \ {m} : y \in s.runs[m].ahead
  <1> DEFINE after(x) == {y \in T : x \in s.runs[y].ahead}
             N == {Cardinality(after(x)) : x \in T}
  <1>1. T \in SUBSET RunIds
    BY DEF Queue
  <1>2. \A x \in T : after(x) \in SUBSET T /\ Cardinality(after(x)) \in Nat
    BY <1>1, CardPart
  <1>3. PICK n \in N : \A k \in N : n <= k
    <2>1. N \subseteq Nat /\ N # {}
      BY <1>2
    <2> HIDE DEF N
    <2>2. QED
      BY <2>1, LeastNat
  <1>4. PICK m \in T : n = Cardinality(after(m))
    OBVIOUS
  <1>5. ASSUME NEW y \in T \ {m}, y \notin s.runs[m].ahead PROVE FALSE
    <2>0. m \in s.runs[y].ahead
      BY <1>4, <1>5 DEF Ordered
    <2>1. after(y) \subseteq after(m) /\ y \in after(m) /\ y \notin after(y)
      BY <1>4, <1>5, <2>0 DEF Ordered
    <2>2. after(m) \in SUBSET RunIds /\ after(y) \in SUBSET after(m)
      BY <1>1, <2>1
    <2>3. y \in after(m) \ after(y)
      BY <2>1
    <2>4. Cardinality(after(y)) \in N /\ Cardinality(after(m)) = n /\ n \in Nat
      BY <1>2, <1>4
    <2> HIDE DEF after, N
    <2>5. Cardinality(after(y)) + 1 <= Cardinality(after(m)) /\ Cardinality(after(y)) \in Nat
      BY <2>2, <2>3, CardPart
    <2>6. QED
      BY <1>3, <2>4, <2>5
  <1>6. QED
    BY <1>5

\* Of the entries of a pool those with fewer than n ahead of them are at most n.
LEMMA TakenFew ==
    ASSUME NEW s, Ordered(s), NEW T \in SUBSET Queue(s), NEW n \in Int,
           NEW S, S = {x \in T : Cardinality(s.runs[x].ahead \cap T) < n}, S # {}
    PROVE  Cardinality(S) \in Nat /\ Cardinality(S) <= n
  <1>1. T \in SUBSET RunIds /\ S \in SUBSET Queue(s) /\ S \in SUBSET RunIds
    BY DEF Queue
  <1>2. PICK m \in S : \A y \in S \ {m} : y \in s.runs[m].ahead
    BY <1>1, LastInLine
  <1>3. PICK A : A = s.runs[m].ahead \cap T
    OBVIOUS
  <1>4. A \in SUBSET RunIds /\ S \ {m} \in SUBSET A
    BY <1>1, <1>2, <1>3
  <1>5. Cardinality(A) < n
    BY <1>2, <1>3
  <1>6. Cardinality(S \ {m}) <= Cardinality(A) /\ Cardinality(A) \in Nat
    BY <1>4, CardPart
  <1>7. Cardinality(S \ {m}) = Cardinality(S) - 1 /\ Cardinality(S) \in Nat
    BY <1>1, CardLess, RunsFinite
  <1>8. QED
    BY <1>5, <1>6, <1>7

\* ... and at least n, if any entry of the queue has n of the pool ahead of it.
LEMMA TakenEnough ==
    ASSUME NEW s, Ordered(s), NEW T \in SUBSET Queue(s), NEW n \in Int,
           NEW S, S = {x \in T : Cardinality(s.runs[x].ahead \cap T) < n},
           NEW z, Cardinality(s.runs[z].ahead \cap T) >= n
    PROVE  Cardinality(S) \in Nat /\ Cardinality(S) >= n
  <1>1. T \in SUBSET RunIds /\ S \in SUBSET T /\ S \in SUBSET RunIds /\ Cardinality(S) \in Nat
    <2>1. T \in SUBSET RunIds /\ S \in SUBSET T /\ S \in SUBSET RunIds
      BY DEF Queue
    <2>2. QED
      BY <2>1, RunsFinite
  <1>2. PICK A : A \in SUBSET S /\ Cardinality(A) >= n
    <2>1. CASE T \ S = {}
      <3>1. S = T /\ s.runs[z].ahead \cap T \in SUBSET S
        BY <1>1, <2>1
      <3>2. QED
        BY <3>1
    <2>2. CASE T \ S # {}
      <3>1. T \ S \in SUBSET Queue(s)
        OBVIOUS
      <3>2. PICK m \in T \ S : \A y \in T \ S : y \notin s.runs[m].ahead
        BY <2>2, <3>1, FirstInLine
      <3>3. s.runs[m].ahead \cap T \in SUBSET S
        BY <3>2
      <3>4. Cardinality(s.runs[m].ahead \cap T) \in Nat
        BY <1>1, RunsFinite
      <3>5. Cardinality(s.runs[m].ahead \cap T) >= n
        BY <3>2, <3>4
      <3>6. QED
        BY <3>3, <3>5
    <2>3. QED
      BY <2>1, <2>2
  <1>3. Cardinality(A) <= Cardinality(S) /\ Cardinality(A) \in Nat
    BY <1>1, <1>2, CardPart
  <1>4. QED
    BY <1>1, <1>2, <1>3

-----------------------------------------------------------------------------
(***************************************************************************)
(* What the manager's methods do to the queue: all but the push of an      *)
(* entry take entries out of it, or leave it (Calm).                       *)
(***************************************************************************)
\* The record of an agent keeps its pool, unless its agent is new or is resumed in the
\* background; it gains no session before its spawn runs.
CalmRecord(s, t, a) ==
    \/ /\ t.rec[a].opt = s.rec[a].opt /\ t.rec[a].owner = s.rec[a].owner
       /\ t.rec[a].isBackground = s.rec[a].isBackground \/ (t.rec[a].isBackground /\ s.rec[a].session)
       /\ t.rec[a].session => s.rec[a].session \/ s.runs[<<a, 0>>].phase \notin Early
    \/ ~t.rec[a].session /\ \A x \in RunsOf(a) : s.runs[x].phase = "idle"

\* A run stays as it is, is asked for, or moves on: a first run, or that of an agent
\* with a session, from idle; no run into the queue.
CalmRun(s, t, x) ==
    \/ t.runs[x] = s.runs[x]
    \/ s.runs[x].phase = "idle" /\ t.runs[x].phase = "idle"
    \/ /\ s.runs[x].phase = "idle" => x = <<x[1], 0>> \/ s.rec[x[1]].session
       /\ t.runs[x].phase \notin {"idle", "queued"}
       /\ s.runs[x].phase \notin Early => t.runs[x].phase \notin Early
       /\ t.runs[x].kind = "inline" /\ t.runs[x].phase \in Holding => t.runs[x].pool = "none"

Calm(s, t) ==
    /\ \A a \in Agents : CalmRecord(s, t, a)
    /\ \A x \in RunIds : CalmRun(s, t, x)

\* A calm step keeps the queue in line.
LEMMA CalmLined ==
    ASSUME NEW s \in State, Lined(s), NEW t, Calm(s, t)
    PROVE  Lined(t)
  <1>1. ASSUME NEW x \in Queue(t)
        PROVE  x \in Queue(s) /\ t.runs[x] = s.runs[x] /\ x \in RunIds /\ x[1] \in Agents /\ x \in RunsOf(x[1])
    BY <1>1, RunIdParts DEF Calm, CalmRun, Queue, RunsOf
  <1>2. Ordered(t)
    <2>1. ASSUME NEW x \in RunIds, s.runs[x].phase # "idle" PROVE t.runs[x].phase # "idle"
      BY <2>1 DEF Calm, CalmRun
    <2>2. ASSUME NEW x \in Queue(t), NEW y \in t.runs[x].ahead PROVE t.runs[y].phase # "idle"
      <3>1. s.runs[y].phase # "idle" /\ y \in s.runs[x].ahead
        BY <1>1, <2>2 DEF Lined, Ordered
      <3>2. x \in Queue(s) /\ s.runs[x] \in Run
        BY <1>1, <2>2, StateParts
      <3>3. y \in RunIds
        BY <3>1, <3>2 DEF Run
      <3>4. QED
        BY <2>1, <3>1, <3>3
    <2>3. QED
      BY <1>1, <2>2 DEF Lined, Ordered
  <1>3. Pooled(t)
    <2> SUFFICES ASSUME NEW x \in Queue(t)
                 PROVE  LET r == t.rec[x[1]] IN
                        \/ /\ t.runs[x].kind \in {"spawn", "resume"} /\ t.runs[x].pool = "background"
                           /\ OccupiesPoolSlot(r)
                        \/ /\ t.runs[x].kind = "spawn" /\ t.runs[x].pool = "foreground" /\ x = <<x[1], 0>>
                           /\ ~OccupiesPoolSlot(r) /\ OccupiesForegroundSlot(r)
      BY DEF Pooled
    <2>1. x \in Queue(s) /\ t.runs[x] = s.runs[x] /\ x \in RunIds /\ x[1] \in Agents /\ x \in RunsOf(x[1])
      BY <1>1
    <2>2. s.runs[x].phase = "queued"
      BY <2>1 DEF Queue
    <2>3. /\ t.rec[x[1]].opt = s.rec[x[1]].opt /\ t.rec[x[1]].owner = s.rec[x[1]].owner
          /\ t.rec[x[1]].isBackground = s.rec[x[1]].isBackground
                \/ (t.rec[x[1]].isBackground /\ s.rec[x[1]].session)
      BY <2>1, <2>2 DEF Calm, CalmRecord
    <2>4. x = <<x[1], 0>> => ~s.rec[x[1]].session
      BY <2>1, <2>2 DEF Lined, Young, Early
    <2>5. QED
      BY <2>1, <2>3, <2>4 DEF Lined, Pooled, OccupiesPoolSlot, OccupiesForegroundSlot, IsTopLevelAgent
  <1>4. InlineFree(t)
    BY DEF Lined, InlineFree, Calm, CalmRun, Holding
  <1>5. Young(t)
    <2> SUFFICES ASSUME NEW a \in Agents, t.runs[<<a, 0>>].phase \in Early
                 PROVE  /\ ~t.rec[a].session
                        /\ \A x \in RunsOf(a) \ {<<a, 0>>} : t.runs[x].phase = "idle"
      BY DEF Young
    <2>1. <<a, 0>> \in RunIds /\ <<a, 0>> \in RunsOf(a)
      BY RunIdParts DEF RunsOf
    <2>2. s.runs[<<a, 0>>].phase \in Early
      BY <2>1 DEF Calm, CalmRun, Early
    <2>3. /\ ~s.rec[a].session
          /\ \A x \in RunsOf(a) \ {<<a, 0>>} : s.runs[x].phase = "idle"
      BY <2>2 DEF Lined, Young
    <2>4. ~t.rec[a].session
      BY <2>2, <2>3 DEF Calm, CalmRecord
    <2>5. ASSUME NEW x \in RunsOf(a) \ {<<a, 0>>} PROVE t.runs[x].phase = "idle"
      <3>1. x \in RunIds /\ x[1] = a /\ x # <<x[1], 0>>
        BY <2>5 DEF RunsOf
      <3>2. CalmRun(s, t, x)
        BY <3>1 DEF Calm
      <3>3. QED
        BY <2>3, <2>5, <3>1, <3>2 DEF CalmRun
    <2>6. QED
      BY <2>4, <2>5
  <1>6. QED
    BY <1>2, <1>3, <1>4, <1>5 DEF Lined

\* From s to t no entry joined the queue, no slot was given back, no limit changed
\* and no discard ended.
Tight(s, t) ==
    /\ \A x \in Queue(t) : x \in Queue(s) /\ t.runs[x].pool = s.runs[x].pool
    /\ t.bg >= s.bg /\ t.fg >= s.fg
    /\ t.bgLimit = s.bgLimit /\ t.fgLimit = s.fgLimit
    /\ \A a \in Agents : s.runs[<<a, 0>>].phase = "discarding" => t.runs[<<a, 0>>].phase = "discarding"

\* NoIdleSlot, of a state of the manager.
NoIdle(s) ==
    \/ \E a \in Agents : s.runs[<<a, 0>>].phase = "discarding"
    \/ \A x \in Queue(s) : ~PoolHasRoom(s, s.runs[x].pool)

\* What queues after a tight step has no room, as before.
LEMMA TightNoIdle ==
    ASSUME NEW s \in State, NEW t \in State, NoIdle(s), Tight(s, t)
    PROVE  NoIdle(t)
  <1>1. s.bg \in Int /\ s.fg \in Int /\ t.bg \in Int /\ t.fg \in Int /\ s.bgLimit \in Int /\ s.fgLimit \in Int
    BY StateParts
  <1>2. ASSUME NEW pool, ~PoolHasRoom(s, pool) PROVE ~PoolHasRoom(t, pool)
    <2>1. Cardinality(RunIds) + 1 > 0
      BY RunsFinite
    <2>2. QED
      BY <1>1, <1>2, <2>1 DEF PoolHasRoom, Room, Tight
  <1>3. QED
    BY <1>2 DEF NoIdle, Tight

\* Tight is transitive.
LEMMA TightAgain ==
    ASSUME NEW s \in State, NEW t \in State, NEW u \in State, Tight(s, t), Tight(t, u)
    PROVE  Tight(s, u)
  <1>1. /\ s.bg \in Int /\ s.fg \in Int /\ t.bg \in Int /\ t.fg \in Int
        /\ u.bg \in Int /\ u.fg \in Int
    BY StateParts
  <1>2. QED
    BY <1>1 DEF Tight

\* dequeue.
LEMMA DroppedLined ==
    ASSUME NEW s \in State, Lined(s), NEW X \in SUBSET RunIds, NEW result \in CallerStates,
           \A x \in X : s.runs[x].phase = "idle" => x = <<x[1], 0>>
    PROVE  LET t == Dropped(s, X, result) IN
           /\ t \in State /\ Lined(t)
           /\ (\A x \in X : s.runs[x].phase # "discarding") => Tight(s, t)
  <1> DEFINE t == Dropped(s, X, result)
  <1>1. /\ t \in State
        /\ t.rec = s.rec /\ t.bg = s.bg /\ t.fg = s.fg
        /\ t.bgLimit = s.bgLimit /\ t.fgLimit = s.fgLimit
        /\ \A x \in RunIds \ X : t.runs[x] = s.runs[x]
        /\ \A x \in X : t.runs[x].phase = "dropped" /\ t.runs[x].kind = s.runs[x].kind
    BY DroppedFacts
  <1> HIDE DEF t
  <1>2. Calm(s, t)
    <2>1. ASSUME NEW x \in RunIds PROVE CalmRun(s, t, x)
      <3>1. CASE x \in X
        BY <1>1, <3>1 DEF CalmRun, Early, Holding
      <3>2. CASE x \notin X
        BY <1>1, <3>2 DEF CalmRun
      <3>3. QED
        BY <3>1, <3>2
    <2>2. QED
      BY <1>1, <2>1 DEF Calm, CalmRecord
  <1>3. ASSUME \A x \in X : s.runs[x].phase # "discarding" PROVE Tight(s, t)
    <2>1. \A x \in RunIds : x \in Queue(t) => x \notin X
      BY <1>1 DEF Queue
    <2>2. \A a \in Agents : s.runs[<<a, 0>>].phase = "discarding" => <<a, 0>> \notin X /\ <<a, 0>> \in RunIds
      BY <1>3, RunIdParts
    <2>3. s.bg \in Int /\ s.fg \in Int
      BY StateParts
    <2>4. \A x \in Queue(t) : x \in Queue(s) /\ t.runs[x] = s.runs[x]
      BY <1>1, <2>1 DEF Queue
    <2>5. QED
      BY <1>1, <2>2, <2>3, <2>4 DEF Tight
  <1>4. QED
    BY <1>1, <1>2, <1>3, CalmLined DEF t

\* A state with the same runs, the same pools and no new session.
LEMMA SameLined ==
    ASSUME NEW s \in State, Lined(s), NEW t \in State, t.runs = s.runs,
           \A a \in Agents : /\ t.rec[a].opt = s.rec[a].opt /\ t.rec[a].owner = s.rec[a].owner
                             /\ t.rec[a].isBackground = s.rec[a].isBackground
                             /\ t.rec[a].session => s.rec[a].session
    PROVE  /\ Lined(t)
           /\ t.bg = s.bg /\ t.fg = s.fg /\ t.bgLimit = s.bgLimit /\ t.fgLimit = s.fgLimit => Tight(s, t)
  <1>1. Calm(s, t)
    BY DEF Calm, CalmRecord, CalmRun
  <1>2. s.bg \in Int /\ s.fg \in Int
    BY StateParts
  <1>3. Queue(t) = Queue(s)
    BY DEF Queue
  <1>4. QED
    BY <1>1, <1>2, <1>3, CalmLined DEF Tight

\* A status.
LEMMA WithStatusLined ==
    ASSUME NEW s \in State, Lined(s), NEW S, NEW status \in Statuses
    PROVE  LET t == WithStatus(s, S, status) IN t \in State /\ Lined(t) /\ Tight(s, t)
  <1> DEFINE t == WithStatus(s, S, status)
  <1>1. /\ t \in State /\ t.runs = s.runs
        /\ t.bg = s.bg /\ t.fg = s.fg /\ t.bgLimit = s.bgLimit /\ t.fgLimit = s.fgLimit
        /\ \A a \in Agents : /\ t.rec[a].opt = s.rec[a].opt /\ t.rec[a].owner = s.rec[a].owner
                             /\ t.rec[a].isBackground = s.rec[a].isBackground
                             /\ t.rec[a].session = s.rec[a].session
    BY WithStatusFacts
  <1> HIDE DEF t
  <1>2. QED
    BY <1>1, SameLined DEF t

\* A slot given back.
LEMMA ReleasedLined ==
    ASSUME NEW s \in State, Lined(s), NEW pool
    PROVE  LET t == Released(s, pool) IN
           /\ t \in State /\ Lined(t) /\ t.runs = s.runs /\ t.rec = s.rec
           /\ t.bg <= s.bg /\ t.fg <= s.fg /\ t.bgLimit = s.bgLimit /\ t.fgLimit = s.fgLimit
           /\ pool = "none" => Tight(s, t)
  <1> DEFINE t == Released(s, pool)
  <1>1. /\ t \in State /\ t.rec = s.rec /\ t.runs = s.runs
        /\ t.bgLimit = s.bgLimit /\ t.fgLimit = s.fgLimit
        /\ t.bg = IF pool = "background" THEN s.bg - 1 ELSE s.bg
        /\ t.fg = IF pool = "foreground" THEN s.fg - 1 ELSE s.fg
    BY ReleasedFacts
  <1> HIDE DEF t
  <1>2. /\ Lined(t)
        /\ t.bg = s.bg /\ t.fg = s.fg /\ t.bgLimit = s.bgLimit /\ t.fgLimit = s.fgLimit => Tight(s, t)
    BY <1>1, SameLined
  <1>3. s.bg \in Int /\ s.fg \in Int
    BY StateParts
  <1>4. QED
    BY <1>1, <1>2, <1>3 DEF t

\* A run that is under way and moves to another phase.
LEMMA InPhaseLined ==
    ASSUME NEW s \in State, Lined(s), NEW x \in RunIds, NEW phase \in Phases,
           s.runs[x].phase # "idle", phase \notin {"idle", "queued"},
           s.runs[x].phase \notin Early => phase \notin Early,
           phase \in Holding => s.runs[x].phase \in Holding
    PROVE  LET t == InPhase(s, x, phase) IN
           /\ t \in State /\ Lined(t)
           /\ s.runs[x].phase # "discarding" => Tight(s, t)
  <1> DEFINE t == InPhase(s, x, phase)
  <1>1. /\ t \in State
        /\ t.rec = s.rec /\ t.bg = s.bg /\ t.fg = s.fg
        /\ t.bgLimit = s.bgLimit /\ t.fgLimit = s.fgLimit
        /\ \A y \in RunIds \ {x} : t.runs[y] = s.runs[y]
        /\ t.runs[x].phase = phase /\ t.runs[x].kind = s.runs[x].kind /\ t.runs[x].pool = s.runs[x].pool
    BY InPhaseFacts
  <1> HIDE DEF t
  <1>2. Calm(s, t)
    <2>1. CalmRun(s, t, x)
      BY <1>1 DEF CalmRun, Lined, InlineFree
    <2>2. \A y \in RunIds : y # x => CalmRun(s, t, y)
      BY <1>1 DEF CalmRun
    <2>3. QED
      BY <1>1, <2>1, <2>2 DEF Calm, CalmRecord
  <1>3. ASSUME s.runs[x].phase # "discarding" PROVE Tight(s, t)
    <2>1. \A y \in Queue(t) : y \in Queue(s) /\ t.runs[y] = s.runs[y]
      BY <1>1 DEF Queue
    <2>2. \A a \in Agents : s.runs[<<a, 0>>].phase = "discarding" => <<a, 0>> \in RunIds \ {x}
      BY <1>3, RunIdParts
    <2>3. s.bg \in Int /\ s.fg \in Int
      BY StateParts
    <2>4. QED
      BY <1>1, <2>1, <2>2, <2>3 DEF Tight
  <1>4. QED
    BY <1>1, <1>2, <1>3, CalmLined DEF t

\* abort.
LEMMA AbortedLined ==
    ASSUME NEW s \in State, Lined(s), NEW S
    PROVE  LET t == Aborted(s, S) IN
           /\ t \in State /\ Lined(t) /\ Tight(s, t) /\ t.bg = s.bg /\ t.fg = s.fg
           /\ \A a \in Agents : t.rec[a].opt = s.rec[a].opt
  <1> DEFINE hit == {a \in S \cap s.agents : s.rec[a].status \in Active}
             out == {x \in Queue(s) : x[1] \in hit /\ s.rec[x[1]].status = "queued"}
             d == Dropped(s, out, "returned")
             t == WithStatus(d, hit, "stopped")
  <1>1. /\ out \in SUBSET RunIds /\ "returned" \in CallerStates /\ "stopped" \in Statuses
        /\ \A x \in out : s.runs[x].phase = "queued"
    BY DEF Queue, CallerStates, Statuses
  <1> HIDE DEF hit, out
  <1>2. d \in State /\ Lined(d) /\ Tight(s, d)
    BY <1>1, DroppedLined
  <1>3. d.bg = s.bg /\ d.fg = s.fg /\ d.rec = s.rec
    BY <1>1, DroppedFacts
  <1> HIDE DEF d
  <1>4. t \in State /\ Lined(t) /\ Tight(d, t)
    BY <1>1, <1>2, WithStatusLined
  <1>5. t.bg = d.bg /\ t.fg = d.fg /\ \A a \in Agents : t.rec[a].opt = d.rec[a].opt
    BY <1>1, <1>2, WithStatusFacts
  <1> HIDE DEF t
  <1>6. Aborted(s, S) = t
    BY DEF Aborted, t, d, out, hit
  <1>7. QED
    BY <1>2, <1>3, <1>4, <1>5, <1>6, TightAgain

\* What a start leaves of the records, and the limits.
LEMMA StartedRecords ==
    ASSUME NEW s \in State, NEW X \in SUBSET RunIds
    PROVE  LET t == Started(s, X) IN
           /\ \A a \in Agents : /\ t.rec[a].isBackground = s.rec[a].isBackground
                                /\ t.rec[a].owner = s.rec[a].owner
                                /\ t.rec[a].opt = s.rec[a].opt
                                /\ t.rec[a].session = s.rec[a].session
           /\ t.bgLimit = s.bgLimit /\ t.fgLimit = s.fgLimit
  <1> DEFINE R == [a \in Agents |-> IF \E x \in X : x[1] = a
                                    THEN [s.rec[a] EXCEPT !.status = "running"]
                                    ELSE s.rec[a]]
  <1>1. s.rec \in [Agents -> AgentRecord]
    BY StateParts
  <1>2. \A a \in Agents : /\ R[a].isBackground = s.rec[a].isBackground
                          /\ R[a].owner = s.rec[a].owner
                          /\ R[a].opt = s.rec[a].opt
                          /\ R[a].session = s.rec[a].session
    BY <1>1 DEF AgentRecord
  <1> HIDE DEF R
  <1>3. Started(s, X).rec = R /\ Started(s, X).bgLimit = s.bgLimit /\ Started(s, X).fgLimit = s.fgLimit
    BY DEF Started, State, R
  <1>4. QED
    BY <1>2, <1>3

\* The runs of X that a start charges to a pool.
ChargedTo(s, X, pool) == {x \in X : Charge(s, x) = pool}

\* What a start does to the runs and the counters.
LEMMA StartedRuns ==
    ASSUME NEW s \in State, NEW X \in SUBSET RunIds
    PROVE  LET t == Started(s, X) IN
           /\ t \in State
           /\ \A x \in RunIds \ X : t.runs[x] = s.runs[x]
           /\ \A x \in X : /\ t.runs[x].phase \in {"copying", "running"}
                           /\ t.runs[x].pool = Charge(s, x)
                           /\ t.runs[x].kind = s.runs[x].kind
           /\ t.bg = s.bg + Cardinality(ChargedTo(s, X, "background"))
           /\ t.fg = s.fg + Cardinality(ChargedTo(s, X, "foreground"))
  <1> DEFINE copies(x) == s.runs[x].kind = "spawn" /\ s.rec[x[1]].opt.worktree
             charged(pool) == {x \in X : Charge(s, x) = pool}
             t == Started(s, X)
  <1>1. s \in State
    OBVIOUS
  <1>2. /\ t \in State /\ t.agents = s.agents
        /\ \A a \in Agents :
              /\ t.rec[a].status = IF \E x \in X : x[1] = a THEN "running" ELSE s.rec[a].status
              /\ t.rec[a].isBackground = s.rec[a].isBackground
              /\ t.rec[a].owner = s.rec[a].owner
              /\ t.caller[a] = IF <<a, 0>> \in X /\ ~copies(<<a, 0>>) /\ s.caller[a] = "start"
                               THEN "run" ELSE s.caller[a]
        /\ \A x \in RunIds \ X : t.runs[x] = s.runs[x]
        /\ \A x \in X : /\ t.runs[x].phase = IF copies(x) THEN "copying" ELSE "running"
                        /\ t.runs[x].pool = Charge(s, x)
                        /\ t.runs[x].kind = s.runs[x].kind
        /\ t.bg = s.bg + Cardinality(charged("background"))
        /\ t.fg = s.fg + Cardinality(charged("foreground"))
    BY <1>1, StartedFacts
  <1> HIDE DEF t, copies
  <1>3. QED
    BY <1>2 DEF t, ChargedTo

\* A run that waits, in the queue or to be asked for.
Waits(s, x) ==
    /\ s.runs[x].phase \in {"idle", "queued"}
    /\ s.runs[x].phase = "idle" => x = <<x[1], 0>> \/ s.rec[x[1]].session

\* startAgent and startResume.
LEMMA StartedLined ==
    ASSUME NEW s \in State, Lined(s), NEW X \in SUBSET RunIds,
           \A x \in X : Waits(s, x)
    PROVE  LET t == Started(s, X) IN t \in State /\ Lined(t) /\ Tight(s, t)
  <1> DEFINE t == Started(s, X)
  <1>1. /\ t \in State
        /\ \A x \in RunIds \ X : t.runs[x] = s.runs[x]
        /\ \A x \in X : /\ t.runs[x].phase \in {"copying", "running"}
                        /\ t.runs[x].pool = Charge(s, x)
                        /\ t.runs[x].kind = s.runs[x].kind
    BY StartedRuns
  <1>1a. /\ t.bg = s.bg + Cardinality(ChargedTo(s, X, "background"))
         /\ t.fg = s.fg + Cardinality(ChargedTo(s, X, "foreground"))
    BY StartedRuns
  <1>2. /\ \A a \in Agents : /\ t.rec[a].isBackground = s.rec[a].isBackground
                             /\ t.rec[a].owner = s.rec[a].owner
                             /\ t.rec[a].opt = s.rec[a].opt
                             /\ t.rec[a].session = s.rec[a].session
        /\ t.bgLimit = s.bgLimit /\ t.fgLimit = s.fgLimit
    BY StartedRecords
  <1> HIDE DEF t
  <1>3. ASSUME NEW x \in RunIds PROVE CalmRun(s, t, x)
    <2>1. CASE x \in X
      <3>1. t.runs[x].kind = "inline" => t.runs[x].pool = "none"
        BY <1>1, <2>1 DEF Charge
      <3>2. Waits(s, x)
        BY <2>1
      <3>3. QED
        BY <1>1, <2>1, <3>1, <3>2 DEF CalmRun, Early, Waits
    <2>2. CASE x \notin X
      BY <1>1, <2>2 DEF CalmRun
    <2>3. QED
      BY <2>1, <2>2
  <1>4. Calm(s, t)
    BY <1>2, <1>3 DEF Calm, CalmRecord
  <1>5. Tight(s, t)
    <2>1. \A x \in Queue(t) : x \in Queue(s) /\ t.runs[x] = s.runs[x]
      BY <1>1 DEF Queue
    <2>2. \A a \in Agents : s.runs[<<a, 0>>].phase = "discarding" => <<a, 0>> \in RunIds \ X
      BY RunIdParts DEF Waits
    <2>3. /\ s.bg \in Int /\ s.fg \in Int
          /\ Cardinality(ChargedTo(s, X, "background")) \in Nat /\ Cardinality(ChargedTo(s, X, "foreground")) \in Nat
      <3>1. ChargedTo(s, X, "background") \in SUBSET RunIds /\ ChargedTo(s, X, "foreground") \in SUBSET RunIds
        BY DEF ChargedTo
      <3>2. QED
        BY <3>1, StateParts, RunsFinite
    <2>4. t.bg >= s.bg /\ t.fg >= s.fg
      BY <1>1a, <2>3
    <2>5. QED
      BY <1>1, <1>2, <2>1, <2>2, <2>4 DEF Tight
  <1>6. QED
    BY <1>1, <1>4, <1>5, CalmLined DEF t

\* A run that is asked for.
LEMMA RequestedLined ==
    ASSUME NEW s \in State, Lined(s), NEW x \in RunIds, s.runs[x].phase = "idle",
           NEW kind \in {"spawn", "resume", "inline"}
    PROVE  LET t == Requested(s, x, kind) IN
           /\ t \in State /\ Lined(t) /\ Tight(s, t)
           /\ t.rec = s.rec /\ t.bg = s.bg /\ t.fg = s.fg
           /\ t.runs[x].phase = "idle" /\ t.runs[x].kind = kind
  <1> DEFINE U == [s.runs EXCEPT ![x].kind = kind]
             t == [s EXCEPT !.runs = U]
  <1>1. s.runs \in [RunIds -> Run]
    BY StateParts
  <1>2. /\ U \in [RunIds -> Run] /\ U[x].phase = "idle" /\ U[x].kind = kind
        /\ \A y \in RunIds \ {x} : U[y] = s.runs[y]
    BY <1>1 DEF Run
  <1> HIDE DEF U
  <1>3. /\ t \in State /\ t.runs = U /\ t.rec = s.rec /\ t.bg = s.bg /\ t.fg = s.fg
        /\ t.bgLimit = s.bgLimit /\ t.fgLimit = s.fgLimit
    BY <1>2 DEF State
  <1>4. Requested(s, x, kind) = t
    BY DEF Requested, U
  <1> HIDE DEF t
  <1>5. Calm(s, t)
    BY <1>2, <1>3 DEF Calm, CalmRun, CalmRecord
  <1>6. Tight(s, t)
    <2>1. \A y \in Queue(t) : y \in Queue(s) /\ t.runs[y] = s.runs[y]
      BY <1>2, <1>3 DEF Queue
    <2>2. \A a \in Agents : s.runs[<<a, 0>>].phase = "discarding" => <<a, 0>> \in RunIds \ {x}
      BY RunIdParts
    <2>3. s.bg \in Int /\ s.fg \in Int
      BY StateParts
    <2>4. QED
      BY <1>2, <1>3, <2>1, <2>2, <2>3 DEF Tight
  <1>7. QED
    BY <1>2, <1>3, <1>4, <1>5, <1>6, CalmLined

\* A run that is asked for and starts takes at most one slot, of its own pool.
LEMMA AskedStarted ==
    ASSUME NEW s \in State, Lined(s), NEW x \in RunIds, s.runs[x].phase = "idle",
           NEW kind \in {"spawn", "resume", "inline"}, x = <<x[1], 0>> \/ s.rec[x[1]].session
    PROVE  LET q == Requested(s, x, kind)
               t == Started(q, {x})
           IN /\ t \in State /\ Lined(t) /\ Tight(s, t)
              /\ t.bg = IF Charge(q, x) = "background" THEN s.bg + 1 ELSE s.bg
              /\ t.fg = IF Charge(q, x) = "foreground" THEN s.fg + 1 ELSE s.fg
  <1> DEFINE q == Requested(s, x, kind)
             t == Started(q, {x})
  <1>1. /\ q \in State /\ Lined(q) /\ Tight(s, q) /\ q.runs[x].phase = "idle"
        /\ q.rec = s.rec /\ q.bg = s.bg /\ q.fg = s.fg
    BY RequestedLined
  <1> HIDE DEF q
  <1>2. {x} \in SUBSET RunIds
    OBVIOUS
  <1>3. \A y \in {x} : Waits(q, y)
    BY <1>1 DEF Waits
  <1>4. t \in State /\ Lined(t) /\ Tight(q, t)
    BY <1>1, <1>2, <1>3, StartedLined
  <1>5. /\ t.bg = q.bg + Cardinality(ChargedTo(q, {x}, "background"))
        /\ t.fg = q.fg + Cardinality(ChargedTo(q, {x}, "foreground"))
    BY <1>1, <1>2, StartedRuns
  <1> HIDE DEF t
  <1>6. ASSUME NEW pool
        PROVE  Cardinality(ChargedTo(q, {x}, pool)) = IF Charge(q, x) = pool THEN 1 ELSE 0
    <2>1. CASE Charge(q, x) = pool
      <3>1. ChargedTo(q, {x}, pool) = {x}
        BY <2>1 DEF ChargedTo
      <3>2. QED
        BY <2>1, <3>1, FS_Singleton
    <2>2. CASE Charge(q, x) # pool
      <3>1. ChargedTo(q, {x}, pool) = {}
        BY <2>2 DEF ChargedTo
      <3>2. QED
        BY <2>2, <3>1, FS_EmptySet
    <2>3. QED
      BY <2>1, <2>2
  <1>7. s.bg \in Int /\ s.fg \in Int
    BY StateParts
  <1>8. /\ t.bg = IF Charge(q, x) = "background" THEN s.bg + 1 ELSE s.bg
        /\ t.fg = IF Charge(q, x) = "foreground" THEN s.fg + 1 ELSE s.fg
    <2>1. Cardinality(ChargedTo(q, {x}, "background")) = IF Charge(q, x) = "background" THEN 1 ELSE 0
      BY <1>6
    <2>2. Cardinality(ChargedTo(q, {x}, "foreground")) = IF Charge(q, x) = "foreground" THEN 1 ELSE 0
      BY <1>6
    <2>3. QED
      BY <1>1, <1>5, <1>7, <2>1, <2>2
  <1>9. Tight(s, t)
    BY <1>1, <1>4, TightAgain
  <1>10. QED
    BY <1>4, <1>8, <1>9 DEF t, q

\* The entry that is pushed: behind all of the queue, for a pool without room.
LEMMA EnqueuedLined ==
    ASSUME NEW s \in State, Lined(s), NEW x \in RunIds, s.runs[x].phase = "idle",
           NEW kind \in {"spawn", "resume"}, NEW pool \in Pools,
           \/ pool = "background" /\ OccupiesPoolSlot(s.rec[x[1]])
           \/ /\ pool = "foreground" /\ kind = "spawn" /\ x = <<x[1], 0>>
              /\ ~OccupiesPoolSlot(s.rec[x[1]]) /\ OccupiesForegroundSlot(s.rec[x[1]]),
           x = <<x[1], 0>> \/ s.rec[x[1]].session,
           NoIdle(s), ~PoolHasRoom(s, pool)
    PROVE  LET t == Enqueued(s, x, kind, pool) IN
           t \in State /\ Lined(t) /\ NoIdle(t) /\ t.bg = s.bg /\ t.fg = s.fg
  <1> DEFINE e == [phase |-> "queued", pool |-> pool, kind |-> kind, wasQueued |-> TRUE,
                   clash |-> FALSE, ahead |-> Queue(s)]
             U == [s.runs EXCEPT ![x] = e]
             u == [s EXCEPT !.runs = U]
             t == WithStatus(u, {x[1]}, "queued")
  <1>1. e \in Run /\ s.runs \in [RunIds -> Run]
    BY StateParts DEF Run, Phases, Pools, Queue
  <1>2. /\ e.phase = "queued" /\ e.pool = pool /\ e.kind = kind /\ e.ahead = Queue(s)
    OBVIOUS
  <1> HIDE DEF e
  <1>3. U \in [RunIds -> Run] /\ U[x] = e /\ \A y \in RunIds \ {x} : U[y] = s.runs[y]
    BY <1>1
  <1> HIDE DEF U
  <1>4. /\ u \in State /\ u.runs = U /\ u.rec = s.rec /\ u.bg = s.bg /\ u.fg = s.fg
        /\ u.bgLimit = s.bgLimit /\ u.fgLimit = s.fgLimit
    BY <1>3 DEF State
  <1>5. Enqueued(s, x, kind, pool) = t
    BY DEF Enqueued, t, u, U, e
  <1> HIDE DEF u
  <1>6. Queue(u) = Queue(s) \cup {x} /\ x \notin Queue(s)
    BY <1>2, <1>3, <1>4 DEF Queue
  <1>7. /\ \A y \in Queue(s) : u.runs[y] = s.runs[y] /\ y \in RunIds \ {x}
        /\ u.runs[x] = e
    BY <1>3, <1>4, <1>6 DEF Queue
  <1>8. Ordered(u)
    <2>1. ASSUME NEW y \in Queue(s)
          PROVE  /\ y \notin s.runs[y].ahead /\ x \notin s.runs[y].ahead
                 /\ \A z \in s.runs[y].ahead : s.runs[z].phase # "idle"
      BY DEF Lined, Ordered
    <2>2. ASSUME NEW y \in RunIds, s.runs[y].phase # "idle" PROVE u.runs[y].phase # "idle"
      BY <1>3, <1>4, <2>2
    <2>3. ASSUME NEW y \in Queue(u), NEW z \in u.runs[y].ahead
          PROVE  y \notin u.runs[y].ahead /\ u.runs[z].phase # "idle"
      <3>1. CASE y = x
        <4>1. z \in Queue(s) /\ u.runs[y].ahead = Queue(s)
          BY <1>2, <1>7, <2>3, <3>1
        <4>2. QED
          BY <1>6, <2>2, <3>1, <4>1 DEF Queue
      <3>2. CASE y # x
        <4>1. y \in Queue(s) /\ u.runs[y] = s.runs[y] /\ s.runs[y] \in Run
          BY <1>1, <1>6, <1>7, <3>2
        <4>2. z \in RunIds /\ s.runs[z].phase # "idle"
          BY <2>1, <2>3, <4>1 DEF Run
        <4>3. QED
          BY <2>1, <2>2, <4>1, <4>2
      <3>3. QED
        BY <3>1, <3>2
    <2>4. ASSUME NEW y \in Queue(u), NEW z \in Queue(u), y # z
          PROVE  y \in u.runs[z].ahead <=> z \notin u.runs[y].ahead
      <3>1. CASE y = x
        BY <1>2, <1>6, <1>7, <2>1, <2>4, <3>1
      <3>2. CASE z = x
        BY <1>2, <1>6, <1>7, <2>1, <2>4, <3>2
      <3>3. CASE y # x /\ z # x
        BY <1>6, <1>7, <2>4, <3>3 DEF Lined, Ordered
      <3>4. QED
        BY <3>1, <3>2, <3>3
    <2>5. ASSUME NEW v \in Queue(u), NEW y \in Queue(u), NEW z \in Queue(u),
                 v \in u.runs[y].ahead, y \in u.runs[z].ahead
          PROVE  v \in u.runs[z].ahead
      <3>1. y # x
        BY <1>2, <1>6, <1>7, <2>1, <2>5
      <3>2. v \in Queue(s)
        BY <1>6, <1>7, <2>1, <2>5, <3>1
      <3>3. CASE z = x
        BY <1>2, <1>7, <3>2, <3>3
      <3>4. CASE z # x
        BY <1>6, <1>7, <2>5, <3>1, <3>2, <3>4 DEF Lined, Ordered
      <3>5. QED
        BY <3>3, <3>4
    <2>6. \A y \in Queue(u) : y \notin u.runs[y].ahead
      BY <2>3
    <2>7. QED
      BY <2>3, <2>4, <2>5, <2>6 DEF Ordered
  <1>9. Pooled(u)
    <2>1. ASSUME NEW y \in Queue(s)
          PROVE  LET r == u.rec[y[1]] IN
                 \/ /\ u.runs[y].kind \in {"spawn", "resume"} /\ u.runs[y].pool = "background"
                    /\ OccupiesPoolSlot(r)
                 \/ /\ u.runs[y].kind = "spawn" /\ u.runs[y].pool = "foreground" /\ y = <<y[1], 0>>
                    /\ ~OccupiesPoolSlot(r) /\ OccupiesForegroundSlot(r)
      BY <1>4, <1>7 DEF Lined, Pooled
    <2>2. u.runs[x].kind = kind /\ u.runs[x].pool = pool /\ u.rec[x[1]] = s.rec[x[1]]
      BY <1>2, <1>4, <1>7
    <2>3. QED
      BY <1>6, <2>1, <2>2 DEF Pooled
  <1>10. InlineFree(u)
    BY <1>2, <1>3, <1>4 DEF Lined, InlineFree, Holding
  <1>11. Young(u)
    <2> SUFFICES ASSUME NEW a \in Agents, u.runs[<<a, 0>>].phase \in Early
                 PROVE  /\ ~u.rec[a].session
                        /\ \A y \in RunsOf(a) \ {<<a, 0>>} : u.runs[y].phase = "idle"
      BY DEF Young
    <2>1. <<a, 0>> \in RunIds
      BY RunIdParts
    <2>2. s.runs[<<a, 0>>].phase \in Early
      BY <1>3, <1>4, <2>1 DEF Early
    <2>3. ~s.rec[a].session /\ \A y \in RunsOf(a) \ {<<a, 0>>} : s.runs[y].phase = "idle"
      BY <2>2 DEF Lined, Young
    <2>4. \A y \in RunsOf(a) \ {<<a, 0>>} : y \in RunIds /\ y # x
      BY <2>3 DEF RunsOf
    <2>5. QED
      BY <1>3, <1>4, <2>3, <2>4
  <1>12. Lined(u)
    BY <1>8, <1>9, <1>10, <1>11 DEF Lined
  <1>13. NoIdle(u)
    <2>1. \A a \in Agents : s.runs[<<a, 0>>].phase = "discarding" => u.runs[<<a, 0>>].phase = "discarding"
      BY <1>3, <1>4, RunIdParts
    <2>2. \A p : PoolHasRoom(u, p) <=> PoolHasRoom(s, p)
      BY <1>4 DEF PoolHasRoom, Room
    <2>3. QED
      BY <1>2, <1>6, <1>7, <2>1, <2>2 DEF NoIdle
  <1>14. "queued" \in Statuses
    BY DEF Statuses
  <1>15. t \in State /\ Lined(t) /\ Tight(u, t)
    BY <1>4, <1>12, <1>14, WithStatusLined
  <1>16. t.bg = u.bg /\ t.fg = u.fg
    BY <1>4, <1>14, WithStatusFacts
  <1> HIDE DEF t
  <1>17. NoIdle(t)
    BY <1>4, <1>13, <1>15, TightNoIdle
  <1>18. QED
    BY <1>4, <1>5, <1>15, <1>16, <1>17

\* The entries a drain starts, and all it takes out of the queue.
Starting(s, gone) == (Reached(s, gone) \cap Startable(s)) \ gone

\* Before it starts anything, a drain drops what it will not start.
LEMMA DrainDrops ==
    ASSUME NEW s \in State, Lined(s), NEW gone \in SUBSET MayBeGone(s)
    PROVE  \E f \in State :
              /\ Drained(s, gone) = Started(f, Starting(s, gone))
              /\ Lined(f) /\ Tight(s, f)
              /\ f.bg = s.bg /\ f.fg = s.fg
              /\ \A a \in Agents : /\ f.rec[a].isBackground = s.rec[a].isBackground
                                   /\ f.rec[a].owner = s.rec[a].owner
                                   /\ f.rec[a].opt = s.rec[a].opt
              /\ \A x \in RunIds : x \notin Reached(s, gone) \/ x \in Starting(s, gone) => f.runs[x] = s.runs[x]
              /\ \A x \in Reached(s, gone) \ Starting(s, gone) : f.runs[x].phase = "dropped"
  <1> DEFINE taken == Reached(s, gone)
             S1 == taken \ Startable(s)
             S2 == taken \cap gone
             S3 == Starting(s, gone)
             ids == {x[1] : x \in S2}
             stale == Dropped(s, S1, "returned")
             unmade == Dropped(stale, S2, "threw")
             failed == WithStatus(unmade, ids, "error")
  <1>1. /\ S1 \in SUBSET RunIds /\ S2 \in SUBSET RunIds /\ S3 \in SUBSET RunIds
        /\ S1 \cap S2 = {} /\ S1 \cap S3 = {} /\ S2 \cap S3 = {} /\ taken = S1 \cup S2 \cup S3
        /\ \A x \in S1 \cup S2 \cup S3 : s.runs[x].phase = "queued"
    BY DEF Reached, Startable, MayBeGone, Queue, Starting
  <1>2. "returned" \in CallerStates /\ "threw" \in CallerStates /\ "error" \in Statuses
    BY DEF CallerStates, Statuses
  <1>3. Drained(s, gone) = Started(failed, S3)
    BY DEF Drained, Starting
  <1> HIDE DEF S1, S2, S3, ids, taken
  <1>4. /\ stale \in State /\ Lined(stale) /\ Tight(s, stale)
    <2>1. \A x \in S1 : s.runs[x].phase # "idle" /\ s.runs[x].phase # "discarding"
      BY <1>1
    <2>2. QED
      BY <1>1, <1>2, <2>1, DroppedLined
  <1>5. /\ stale.rec = s.rec /\ stale.bg = s.bg /\ stale.fg = s.fg
        /\ \A x \in RunIds \ S1 : stale.runs[x] = s.runs[x]
        /\ \A x \in S1 : stale.runs[x].phase = "dropped"
    <2>1. S1 \in SUBSET RunIds /\ "returned" \in CallerStates
      BY <1>1, <1>2
    <2>2. QED
      BY <2>1, DroppedFacts
  <1> HIDE DEF stale
  <1>6. \A x \in S2 \cup S3 : stale.runs[x] = s.runs[x] /\ stale.runs[x].phase = "queued"
    BY <1>1, <1>5
  <1>7. /\ unmade \in State /\ Lined(unmade) /\ Tight(stale, unmade)
    <2>1. \A x \in S2 : stale.runs[x].phase # "idle" /\ stale.runs[x].phase # "discarding"
      BY <1>6
    <2>2. QED
      BY <1>1, <1>2, <1>4, <2>1, DroppedLined
  <1>8. /\ unmade.rec = stale.rec /\ unmade.bg = stale.bg /\ unmade.fg = stale.fg
        /\ \A x \in RunIds \ S2 : unmade.runs[x] = stale.runs[x]
        /\ \A x \in S2 : unmade.runs[x].phase = "dropped"
    <2>1. S2 \in SUBSET RunIds /\ "threw" \in CallerStates /\ stale \in State
      BY <1>1, <1>2, <1>4
    <2>2. QED
      BY <2>1, DroppedFacts
  <1> HIDE DEF unmade
  <1>9. failed \in State /\ Lined(failed) /\ Tight(unmade, failed)
    BY <1>2, <1>7, WithStatusLined
  <1>10. /\ failed.runs = unmade.runs /\ failed.bg = unmade.bg /\ failed.fg = unmade.fg
         /\ \A a \in Agents : /\ failed.rec[a].isBackground = s.rec[a].isBackground
                              /\ failed.rec[a].owner = s.rec[a].owner
                              /\ failed.rec[a].opt = s.rec[a].opt
    BY <1>2, <1>5, <1>7, <1>8, WithStatusFacts
  <1> HIDE DEF failed
  <1>11. Tight(s, failed)
    BY <1>4, <1>7, <1>9, TightAgain
  <1>12. \A x \in RunIds : x \notin taken \/ x \in S3 => failed.runs[x] = s.runs[x]
    BY <1>1, <1>5, <1>6, <1>8, <1>10
  <1>13. \A x \in taken \ S3 : failed.runs[x].phase = "dropped"
    BY <1>1, <1>5, <1>8, <1>10
  <1>14. QED
    BY <1>3, <1>5, <1>8, <1>9, <1>10, <1>11, <1>12, <1>13 DEF taken, S3

\* The entries of one pool that a drain would start if there were room for all.
Ready(s, gone, pool) == {x \in Startable(s) \ gone : s.runs[x].pool = pool}

\* Those it starts.
StartingFor(s, gone, pool) == {x \in Starting(s, gone) : s.runs[x].pool = pool}

\* They are the ones with fewer of the pool ahead of them than it has room.
LEMMA StartingOf ==
    ASSUME NEW s \in State, NEW gone, NEW pool
    PROVE  /\ StartingFor(s, gone, pool)
              = {x \in Ready(s, gone, pool) :
                    Cardinality(s.runs[x].ahead \cap Ready(s, gone, pool)) < Room(s, pool)}
           /\ \A x \in Queue(s) \ Reached(s, gone) :
                 s.runs[x].pool = pool => ~(Cardinality(s.runs[x].ahead \cap Ready(s, gone, pool)) < Room(s, pool))
  <1>1. ASSUME NEW x \in Queue(s), s.runs[x].pool = pool
        PROVE  {y \in s.runs[x].ahead \cap (Startable(s) \ gone) : s.runs[y].pool = s.runs[x].pool}
               = s.runs[x].ahead \cap Ready(s, gone, pool)
    BY <1>1 DEF Ready
  <1>2. ASSUME NEW x \in Queue(s), s.runs[x].pool = pool
        PROVE  x \in Reached(s, gone)
               <=> Cardinality(s.runs[x].ahead \cap Ready(s, gone, pool)) < Room(s, pool)
    BY <1>1, <1>2 DEF Reached
  <1>3. Startable(s) \subseteq Queue(s)
    BY DEF Startable
  <1>4. QED
    BY <1>2, <1>3 DEF Starting, StartingFor, Ready

\* A drain fills a pool as far as its entries go, and no further: n entries of it
\* start, and either none of its entries is left or the room is used up.
LEMMA StartingCount ==
    ASSUME NEW s \in State, Lined(s), NEW gone, NEW pool, Room(s, pool) \in Int
    PROVE  LET n == Cardinality(StartingFor(s, gone, pool)) IN
           /\ n \in Nat
           /\ n = 0 \/ n <= Room(s, pool)
           /\ \A x \in Queue(s) \ Reached(s, gone) : s.runs[x].pool = pool => n >= Room(s, pool)
  <1> DEFINE T == Ready(s, gone, pool)
             S == StartingFor(s, gone, pool)
             m == Room(s, pool)
  <1>1. T \in SUBSET Queue(s) /\ Ordered(s)
    BY DEF Ready, Startable, Lined
  <1>2. /\ S = {x \in T : Cardinality(s.runs[x].ahead \cap T) < m}
        /\ \A x \in Queue(s) \ Reached(s, gone) :
              s.runs[x].pool = pool => ~(Cardinality(s.runs[x].ahead \cap T) < m)
    BY StartingOf
  <1>3. S \in SUBSET RunIds /\ Cardinality(S) \in Nat
    <2>1. S \in SUBSET RunIds
      BY <1>1, <1>2 DEF Queue
    <2> HIDE DEF S
    <2>2. QED
      BY <2>1, RunsFinite
  <1>4. m \in Int
    OBVIOUS
  <1> HIDE DEF S, T, m
  <1>5. Cardinality(S) = 0 \/ Cardinality(S) <= m
    <2>1. CASE S = {}
      BY <2>1, FS_EmptySet
    <2>2. CASE S # {}
      BY <1>1, <1>2, <1>4, <2>2, TakenFew
    <2>3. QED
      BY <2>1, <2>2
  <1>6. ASSUME NEW x \in Queue(s) \ Reached(s, gone), s.runs[x].pool = pool
        PROVE  Cardinality(S) >= m
    <2>1. s.runs[x].ahead \cap T \in SUBSET RunIds
      BY <1>1 DEF Queue
    <2>2. Cardinality(s.runs[x].ahead \cap T) \in Nat
      BY <2>1, RunsFinite
    <2>3. Cardinality(s.runs[x].ahead \cap T) >= m
      BY <1>2, <1>4, <1>6, <2>2
    <2>4. QED
      BY <1>1, <1>2, <1>4, <2>3, TakenEnough
  <1>7. QED
    BY <1>3, <1>5, <1>6 DEF S, m

\* From s to t no pool was filled beyond its limit.
Bounded(s, t) ==
    /\ t.bg > s.bg => t.bg <= t.bgLimit
    /\ t.fg > s.fg => t.fg <= t.fgLimit

\* The pool of an entry is the one it is charged to, unless the foreground is
\* unlimited: then it is charged to none.
LEMMA StartingCharge ==
    ASSUME NEW s \in State, Lined(s), NEW x \in Queue(s), NEW f \in State,
           \A a \in Agents : /\ f.rec[a].isBackground = s.rec[a].isBackground
                             /\ f.rec[a].owner = s.rec[a].owner
                             /\ f.rec[a].opt = s.rec[a].opt,
           f.fgLimit = s.fgLimit, f.runs[x] = s.runs[x]
    PROVE  /\ s.runs[x].pool \in Pools
           /\ Charge(f, x) = IF s.runs[x].pool = "foreground" /\ s.fgLimit = 0 THEN "none"
                             ELSE s.runs[x].pool
  <1>1. x \in RunIds /\ x[1] \in Agents /\ s.fgLimit \in Nat
    BY RunIdParts, StateParts DEF Queue
  <1>2. /\ OccupiesPoolSlot(f.rec[x[1]]) <=> OccupiesPoolSlot(s.rec[x[1]])
        /\ OccupiesForegroundSlot(f.rec[x[1]]) <=> OccupiesForegroundSlot(s.rec[x[1]])
    BY <1>1 DEF OccupiesPoolSlot, OccupiesForegroundSlot, IsTopLevelAgent
  <1>3. CASE s.runs[x].pool = "background"
    <2>1. OccupiesPoolSlot(s.rec[x[1]]) /\ s.runs[x].kind \in {"spawn", "resume"}
      BY <1>3 DEF Lined, Pooled
    <2>2. QED
      BY <1>2, <1>3, <2>1 DEF Charge, PoolFor, Pools
  <1>4. CASE s.runs[x].pool # "background"
    <2>1. /\ s.runs[x].pool = "foreground" /\ s.runs[x].kind = "spawn"
          /\ ~OccupiesPoolSlot(s.rec[x[1]]) /\ OccupiesForegroundSlot(s.rec[x[1]])
      BY <1>4 DEF Lined, Pooled
    <2>2. QED
      BY <1>1, <1>2, <2>1 DEF Charge, PoolFor, Pools
  <1>5. QED
    BY <1>3, <1>4

\* drainQueue leaves no slot idle and fills no pool beyond its limit.
LEMMA DrainedPools ==
    ASSUME NEW s \in State, Lined(s), NEW gone \in SUBSET MayBeGone(s)
    PROVE  LET t == Drained(s, gone) IN
           /\ t \in State /\ Lined(t) /\ NoIdle(t) /\ Bounded(s, t)
  <1> DEFINE X == Starting(s, gone)
  <1>1. PICK f \in State :
              /\ Drained(s, gone) = Started(f, X)
              /\ Lined(f) /\ Tight(s, f)
              /\ f.bg = s.bg /\ f.fg = s.fg
              /\ \A a \in Agents : /\ f.rec[a].isBackground = s.rec[a].isBackground
                                   /\ f.rec[a].owner = s.rec[a].owner
                                   /\ f.rec[a].opt = s.rec[a].opt
              /\ \A x \in RunIds : x \notin Reached(s, gone) \/ x \in X => f.runs[x] = s.runs[x]
              /\ \A x \in Reached(s, gone) \ X : f.runs[x].phase = "dropped"
    BY DrainDrops
  <1>2. X \in SUBSET RunIds /\ \A x \in X : x \in Queue(s) /\ x \in Reached(s, gone)
    BY DEF Starting, Startable, Queue
  <1>3. \A x \in X : f.runs[x] = s.runs[x] /\ f.runs[x].phase = "queued"
    BY <1>1, <1>2 DEF Queue
  <1> HIDE DEF X
  <1> DEFINE t == Started(f, X)
             B == ChargedTo(f, X, "background")
             F == ChargedTo(f, X, "foreground")
  <1>4. t \in State /\ Lined(t) /\ Tight(f, t)
    <2>1. \A x \in X : Waits(f, x)
      BY <1>3 DEF Waits
    <2>2. QED
      BY <1>1, <1>2, <2>1, StartedLined
  <1>5. /\ t.bg = f.bg + Cardinality(B) /\ t.fg = f.fg + Cardinality(F)
        /\ \A x \in X : t.runs[x].phase \in {"copying", "running"}
        /\ \A x \in RunIds \ X : t.runs[x] = f.runs[x]
    BY <1>1, <1>2, StartedRuns
  <1> HIDE DEF t
  <1>6. /\ s.bg \in Int /\ s.fg \in Int /\ s.bgLimit \in Nat \ {0} /\ s.fgLimit \in Nat
        /\ t.bgLimit = s.bgLimit /\ t.fgLimit = s.fgLimit
    BY <1>1, <1>4, StateParts DEF Tight
  <1>7. \A x \in X : /\ s.runs[x].pool \in Pools
                     /\ Charge(f, x) = IF s.runs[x].pool = "foreground" /\ s.fgLimit = 0 THEN "none"
                                       ELSE s.runs[x].pool
    <2>1. f.fgLimit = s.fgLimit
      BY <1>1 DEF Tight
    <2>2. QED
      BY <1>1, <1>2, <1>3, <2>1, StartingCharge
  <1>8. /\ B = StartingFor(s, gone, "background")
        /\ s.fgLimit > 0 => F = StartingFor(s, gone, "foreground")
        /\ s.fgLimit = 0 => F = {}
    BY <1>6, <1>7 DEF ChargedTo, StartingFor, X
  <1> HIDE DEF B, F
  <1>9. /\ Room(s, "background") = s.bgLimit - s.bg /\ Room(s, "background") \in Int
        /\ s.fgLimit > 0 => Room(s, "foreground") = s.fgLimit - s.fg
        /\ s.fgLimit = 0 => Room(s, "foreground") = Cardinality(RunIds) + 1
        /\ Room(s, "foreground") \in Int
    <2>1. Cardinality(RunIds) \in Nat
      BY RunsFinite
    <2>2. QED
      BY <1>6, <2>1 DEF Room
  <1>10. /\ Cardinality(B) \in Nat
         /\ Cardinality(B) = 0 \/ Cardinality(B) <= Room(s, "background")
         /\ \A x \in Queue(s) \ Reached(s, gone) :
               s.runs[x].pool = "background" => Cardinality(B) >= Room(s, "background")
    BY <1>8, <1>9, StartingCount
  <1>11. ASSUME s.fgLimit > 0
         PROVE  /\ Cardinality(F) \in Nat
                /\ Cardinality(F) = 0 \/ Cardinality(F) <= Room(s, "foreground")
                /\ \A x \in Queue(s) \ Reached(s, gone) :
                      s.runs[x].pool = "foreground" => Cardinality(F) >= Room(s, "foreground")
    BY <1>8, <1>9, <1>11, StartingCount
  <1>12. ASSUME s.fgLimit = 0
         PROVE  /\ Cardinality(F) = 0
                /\ \A x \in Queue(s) \ Reached(s, gone) : s.runs[x].pool # "foreground"
    <2>1. Cardinality(F) = 0
      BY <1>8, <1>12, FS_EmptySet
    <2>2. ASSUME NEW x \in Queue(s) \ Reached(s, gone), s.runs[x].pool = "foreground" PROVE FALSE
      <3>1. Cardinality(StartingFor(s, gone, "foreground")) >= Cardinality(RunIds) + 1
        BY <1>9, <1>12, <2>2, StartingCount
      <3>2. StartingFor(s, gone, "foreground") \in SUBSET RunIds
        BY <1>2 DEF X, StartingFor
      <3>3. /\ Cardinality(RunIds) \in Nat
            /\ Cardinality(StartingFor(s, gone, "foreground")) \in Nat
            /\ Cardinality(StartingFor(s, gone, "foreground")) <= Cardinality(RunIds)
        BY <3>2, CardPart
      <3>4. QED
        BY <3>1, <3>3
    <2>3. QED
      BY <2>1, <2>2
  <1>13. Bounded(s, t)
    <2>1. t.bg > s.bg => t.bg <= t.bgLimit
      BY <1>1, <1>5, <1>6, <1>9, <1>10
    <2>2. t.fg > s.fg => t.fg <= t.fgLimit
      <3>1. CASE s.fgLimit > 0
        BY <1>1, <1>5, <1>6, <1>9, <1>11, <3>1
      <3>2. CASE s.fgLimit = 0
        BY <1>1, <1>5, <1>6, <1>12, <3>2
      <3>3. QED
        BY <1>6, <3>1, <3>2
    <2>3. QED
      BY <2>1, <2>2 DEF Bounded
  <1>14. ASSUME NEW x \in Queue(t) PROVE ~PoolHasRoom(t, t.runs[x].pool)
    <2>1. x \in RunIds /\ t.runs[x].phase = "queued" /\ x \notin X
      BY <1>5 DEF Queue
    <2>2. x \notin Reached(s, gone) /\ t.runs[x] = s.runs[x]
      BY <1>1, <1>5, <2>1
    <2>3. x \in Queue(s) \ Reached(s, gone)
      BY <2>1, <2>2 DEF Queue
    <2>4. s.runs[x].pool \in {"background", "foreground"}
      BY <2>3 DEF Lined, Pooled
    <2>5. CASE s.runs[x].pool = "background"
      <3>1. t.bg >= t.bgLimit
        BY <1>1, <1>5, <1>6, <1>9, <1>10, <2>3, <2>5
      <3>2. t.bg \in Int /\ t.bgLimit \in Int
        BY <1>4, StateParts
      <3>3. QED
        BY <2>2, <2>5, <3>1, <3>2 DEF PoolHasRoom, Room
    <2>6. CASE s.runs[x].pool = "foreground"
      <3>1. s.fgLimit > 0
        BY <1>6, <1>12, <2>3, <2>6
      <3>2. t.fg >= t.fgLimit
        BY <1>1, <1>5, <1>6, <1>9, <1>11, <2>3, <2>6, <3>1
      <3>3. t.fg \in Int /\ t.fgLimit \in Int
        BY <1>4, StateParts
      <3>4. QED
        BY <1>6, <2>2, <2>6, <3>1, <3>2, <3>3 DEF PoolHasRoom, Room
    <2>7. QED
      BY <2>4, <2>5, <2>6
  <1>15. NoIdle(t)
    BY <1>14 DEF NoIdle
  <1>16. QED
    BY <1>1, <1>4, <1>13, <1>15 DEF t

\* A pool that gains no slot holder is not filled.
LEMMA NotFilled ==
    ASSUME NEW s \in State, NEW t \in State, t.bg <= s.bg, t.fg <= s.fg
    PROVE  Bounded(s, t)
  <1>1. s.bg \in Int /\ s.fg \in Int /\ t.bg \in Int /\ t.fg \in Int
    BY StateParts
  <1>2. QED
    BY <1>1 DEF Bounded

\* ... nor one that lost some first.
LEMMA StillBounded ==
    ASSUME NEW s \in State, NEW t \in State, NEW u \in State,
           t.bg <= s.bg, t.fg <= s.fg, Bounded(t, u)
    PROVE  Bounded(s, u)
  <1>1. s.bg \in Int /\ s.fg \in Int /\ t.bg \in Int /\ t.fg \in Int /\ u.bg \in Int /\ u.fg \in Int
    BY StateParts
  <1>2. QED
    BY <1>1 DEF Bounded

\* The callers.
LEMMA CallerLined ==
    ASSUME NEW s \in State, Lined(s), NEW C \in [Agents -> CallerStates]
    PROVE  LET t == [s EXCEPT !.caller = C] IN
           /\ t \in State /\ Lined(t) /\ Tight(s, t) /\ t.bg = s.bg /\ t.fg = s.fg
           /\ t.rec = s.rec /\ t.runs = s.runs /\ t.agents = s.agents
  <1> DEFINE t == [s EXCEPT !.caller = C]
  <1>1. /\ t \in State /\ t.rec = s.rec /\ t.runs = s.runs /\ t.agents = s.agents
        /\ t.bg = s.bg /\ t.fg = s.fg /\ t.bgLimit = s.bgLimit /\ t.fgLimit = s.fgLimit
    BY DEF State
  <1> HIDE DEF t
  <1>2. Lined(t) /\ Tight(s, t)
    BY <1>1, SameLined
  <1>3. QED
    BY <1>1, <1>2 DEF t

\* The session of an agent whose spawn has run.
LEMMA SessionLined ==
    ASSUME NEW s \in State, Lined(s), NEW a \in Agents, NEW got \in BOOLEAN,
           got => s.rec[a].session \/ s.runs[<<a, 0>>].phase \notin Early
    PROVE  LET t == [s EXCEPT !.rec = [s.rec EXCEPT ![a].session = got]] IN
           /\ t \in State /\ Lined(t) /\ Tight(s, t) /\ t.bg = s.bg /\ t.fg = s.fg /\ t.runs = s.runs
  <1> DEFINE R == [s.rec EXCEPT ![a].session = got]
             t == [s EXCEPT !.rec = R]
  <1>1. /\ R \in [Agents -> AgentRecord]
        /\ \A b \in Agents : /\ R[b].owner = s.rec[b].owner /\ R[b].opt = s.rec[b].opt
                             /\ R[b].isBackground = s.rec[b].isBackground
                             /\ R[b].session = IF b = a THEN got ELSE s.rec[b].session
    BY StateParts DEF AgentRecord
  <1> HIDE DEF R
  <1>2. /\ t \in State /\ t.rec = R /\ t.runs = s.runs
        /\ t.bg = s.bg /\ t.fg = s.fg /\ t.bgLimit = s.bgLimit /\ t.fgLimit = s.fgLimit
    BY <1>1 DEF State
  <1> HIDE DEF t
  <1>3. Calm(s, t)
    BY <1>1, <1>2 DEF Calm, CalmRecord, CalmRun
  <1>4. Tight(s, t)
    <2>1. s.bg \in Int /\ s.fg \in Int /\ Queue(t) = Queue(s)
      BY <1>2, StateParts DEF Queue
    <2>2. QED
      BY <1>2, <2>1 DEF Tight
  <1>5. QED
    BY <1>2, <1>3, <1>4, CalmLined DEF t, R

\* settleRun, before it drains: it gives back at most the slot of its run, and if it
\* will not drain it gives back none.
LEMMA SettledLined ==
    ASSUME NEW s, IInv(s), Lined(s), NEW x \in RunIds, s.runs[x].phase \in {"running", "cleanup"}
    PROVE  LET t == Settled(s, x) IN
           /\ t \in State /\ Lined(t) /\ t.bg <= s.bg /\ t.fg <= s.fg
           /\ ~(s.runs[x].kind # "inline" /\ (s.rec[x[1]].isBackground \/ s.runs[x].pool # "none"))
                 => Tight(s, t)
  <1> DEFINE o == Aborted(s, OwnedChildren(s, x[1]))
             pool == Refund(o, x)
             r == Released(o, pool)
             f == InPhase(r, x, "settled")
             C == [a \in Agents |-> IF x = <<a, 0>> /\ f.caller[a] = "run" THEN "returned" ELSE f.caller[a]]
             u == [f EXCEPT !.caller = C]
             dry == ~(s.runs[x].kind # "inline" /\ (s.rec[x[1]].isBackground \/ s.runs[x].pool # "none"))
  <1>1. s \in State
    BY DEF IInv
  <1>2. IInv(o) /\ o \in State /\ o.runs[x] = s.runs[x]
    BY AbortedInv, AbortedFacts
  <1>3. Lined(o) /\ Tight(s, o) /\ o.bg = s.bg /\ o.fg = s.fg
    BY <1>1, AbortedLined
  <1> HIDE DEF o
  <1>4. s.runs[x].phase \in Holding /\ s.runs[x].phase \notin Early /\ "settled" \in Phases
        /\ "settled" \notin {"idle", "queued"} /\ "settled" \notin Early /\ "settled" \notin Holding
    BY DEF Holding, Early, Phases
  <1>5. dry => pool = "none"
    <2>1. s.runs[x].kind = "resume" => s.rec[x[1]].isBackground
      BY <1>4 DEF IInv, ResumesCharged, OccupiesPoolSlot
    <2>2. s.runs[x].kind = "inline" => s.runs[x].pool = "none"
      BY <1>4 DEF Lined, InlineFree
    <2>3. QED
      BY <1>2, <2>1, <2>2 DEF Refund
  <1> HIDE DEF pool
  <1>6. /\ r \in State /\ Lined(r) /\ r.runs = o.runs
        /\ r.bg <= o.bg /\ r.fg <= o.fg
        /\ pool = "none" => Tight(o, r)
    BY <1>2, <1>3, ReleasedLined
  <1> HIDE DEF r
  <1>7. f \in State /\ Lined(f) /\ Tight(r, f) /\ f.bg = r.bg /\ f.fg = r.fg
    <2>1. r.runs[x].phase # "idle" /\ r.runs[x].phase # "discarding"
      BY <1>2, <1>6
    <2>2. f \in State /\ Lined(f) /\ Tight(r, f)
      BY <1>4, <1>6, <2>1, InPhaseLined
    <2>3. f.bg = r.bg /\ f.fg = r.fg
      BY <1>4, <1>6, InPhaseFacts
    <2>4. QED
      BY <2>2, <2>3
  <1> HIDE DEF f
  <1>8. C \in [Agents -> CallerStates]
    <2>1. f.caller \in [Agents -> CallerStates]
      BY <1>7, StateParts
    <2>2. QED
      BY <2>1 DEF CallerStates
  <1> HIDE DEF C
  <1>9. u \in State /\ Lined(u) /\ Tight(f, u) /\ u.bg = f.bg /\ u.fg = f.fg
    BY <1>7, <1>8, CallerLined
  <1> HIDE DEF u
  <1>10. pool = "none" => Tight(s, u)
    <2>1. pool = "none" => Tight(s, r)
      BY <1>1, <1>2, <1>3, <1>6, TightAgain
    <2>2. Tight(r, u)
      BY <1>6, <1>7, <1>9, TightAgain
    <2>3. QED
      BY <1>1, <1>6, <1>9, <2>1, <2>2, TightAgain
  <1>11. u.bg <= s.bg /\ u.fg <= s.fg
    BY <1>3, <1>6, <1>7, <1>9
  <1>12. Settled(s, x) = u
    BY DEF Settled, u, C, f, r, pool, o
  <1>13. QED
    BY <1>5, <1>9, <1>10, <1>11, <1>12

\* The record spawn inserts has no run yet.
LEMMA InsertedLined ==
    ASSUME NEW s, IInv(s), Lined(s), NEW a \in Agents, s.rec[a].status = "none",
           NEW o \in SpawnOptions, NEW owner \in Agents \cup {NoOwner, Workflow}
    PROVE  LET t == Inserted(s, a, o, owner) IN
           /\ t \in State /\ Lined(t) /\ Tight(s, t) /\ t.bg = s.bg /\ t.fg = s.fg
           /\ t.rec[a].opt = o /\ t.runs[<<a, 0>>].phase = "idle"
  <1> DEFINE q == [status |-> IF o.mode = "background" THEN "queued" ELSE "running",
                   isBackground |-> o.mode = "background", owner |-> owner,
                   session |-> FALSE, opt |-> o]
             R == [s.rec EXCEPT ![a] = q]
             A == s.agents \cup {a}
             t == [s EXCEPT !.agents = A, !.rec = R]
  <1>1. s \in State /\ s.rec \in [Agents -> AgentRecord] /\ s.agents \in SUBSET Agents
    BY StateParts DEF IInv
  <1>2. q \in AgentRecord /\ q.session = FALSE /\ q.opt = o
    BY DEF AgentRecord, Statuses
  <1> HIDE DEF q
  <1>3. R \in [Agents -> AgentRecord] /\ R[a] = q /\ \A b \in Agents \ {a} : R[b] = s.rec[b]
    BY <1>1, <1>2
  <1>4. A \in SUBSET Agents
    BY <1>1
  <1> HIDE DEF R, A
  <1>5. /\ t \in State /\ t.rec = R /\ t.runs = s.runs
        /\ t.bg = s.bg /\ t.fg = s.fg /\ t.bgLimit = s.bgLimit /\ t.fgLimit = s.fgLimit
    BY <1>1, <1>3, <1>4 DEF State
  <1>6. Inserted(s, a, o, owner) = t
    BY DEF Inserted, t, R, A, q
  <1> HIDE DEF t
  <1>7. \A x \in RunsOf(a) : s.runs[x].phase = "idle"
    BY DEF RunsOf, IInv, FreshIdle
  <1>8. Calm(s, t)
    <2>1. CalmRecord(s, t, a)
      BY <1>2, <1>3, <1>5, <1>7 DEF CalmRecord
    <2>2. \A b \in Agents \ {a} : CalmRecord(s, t, b)
      BY <1>3, <1>5 DEF CalmRecord
    <2>3. QED
      BY <1>5, <2>1, <2>2 DEF Calm, CalmRun
  <1>9. Tight(s, t)
    <2>1. s.bg \in Int /\ s.fg \in Int /\ Queue(t) = Queue(s)
      BY <1>1, <1>5, StateParts DEF Queue
    <2>2. QED
      BY <1>5, <2>1 DEF Tight
  <1>10. <<a, 0>> \in RunsOf(a)
    BY RunIdParts DEF RunsOf
  <1>11. QED
    BY <1>1, <1>2, <1>3, <1>5, <1>6, <1>7, <1>8, <1>9, <1>10, CalmLined

\* A run that starts because its pool has room fills it up to the limit at most.
LEMMA RoomBounded ==
    ASSUME NEW s \in State, NEW t \in State, NEW pool,
           Tight(s, t),
           t.bg = IF pool = "background" THEN s.bg + 1 ELSE s.bg,
           t.fg = IF pool = "foreground" THEN s.fg + 1 ELSE s.fg,
           pool = "foreground" => s.fgLimit > 0,
           pool = "none" \/ PoolHasRoom(s, pool)
    PROVE  Bounded(s, t)
  <1>1. /\ s.bg \in Int /\ s.fg \in Int /\ t.bg \in Int /\ t.fg \in Int
        /\ s.bgLimit \in Int /\ s.fgLimit \in Int
        /\ t.bgLimit = s.bgLimit /\ t.fgLimit = s.fgLimit
    BY StateParts DEF Tight
  <1>2. CASE pool = "background"
    BY <1>1, <1>2 DEF Bounded, PoolHasRoom, Room
  <1>3. CASE pool = "foreground"
    BY <1>1, <1>3 DEF Bounded, PoolHasRoom, Room
  <1>4. CASE pool \notin {"background", "foreground"}
    BY <1>1, <1>4 DEF Bounded
  <1>5. QED
    BY <1>2, <1>3, <1>4

\* spawn after the insert queues, starts or refuses.
LEMMA SpawnedPools ==
    ASSUME NEW s \in State, Lined(s), NoIdle(s), NEW a \in Agents, NEW o,
           s.runs[<<a, 0>>].phase = "idle"
    PROVE  LET t == Spawned(s, a, o) IN
           /\ t \in State /\ Lined(t) /\ NoIdle(t)
           /\ \/ Bounded(s, t)
              \/ o.bypassQueue /\ t.rec[a].opt = s.rec[a].opt
  <1> DEFINE x == <<a, 0>>
             pool == PoolFor(s, s.rec[a])
             queues == pool # "none" /\ ~o.bypassQueue /\ ~PoolHasRoom(s, pool)
             d == Dropped(s, {x}, "returned")
             refused == WithStatus(d, {a}, "stopped")
             q == Requested(s, x, "spawn")
             started == Started(q, {x})
             stopped == Aborted(started, {a})
  <1>1. /\ x \in RunIds /\ x[1] = a /\ {x} \in SUBSET RunIds
        /\ "returned" \in CallerStates /\ "stopped" \in Statuses
    BY RunIdParts DEF CallerStates, Statuses
  <1>2. /\ pool \in {"background", "foreground", "none"}
        /\ pool = "background" <=> OccupiesPoolSlot(s.rec[a])
        /\ pool = "foreground" => s.fgLimit > 0 /\ ~OccupiesPoolSlot(s.rec[a]) /\ OccupiesForegroundSlot(s.rec[a])
    BY DEF PoolFor
  <1>3. refused \in State /\ Lined(refused) /\ Tight(s, refused) /\ Bounded(s, refused)
    <2>1. \A y \in {x} : (s.runs[y].phase = "idle" => y = <<y[1], 0>>) /\ s.runs[y].phase # "discarding"
      BY <1>1
    <2>2. d \in State /\ Lined(d) /\ Tight(s, d)
      BY <1>1, <2>1, DroppedLined
    <2>3. d.bg = s.bg /\ d.fg = s.fg
      BY <1>1, DroppedFacts
    <2> HIDE DEF d
    <2>4. refused \in State /\ Lined(refused) /\ Tight(d, refused)
      BY <1>1, <2>2, WithStatusLined
    <2>5. refused.bg = d.bg /\ refused.fg = d.fg
      BY <1>1, <2>2, WithStatusFacts
    <2> HIDE DEF refused
    <2>6. Bounded(s, refused)
      <3>1. s.bg \in Int /\ s.fg \in Int
        BY StateParts
      <3>2. QED
        BY <2>3, <2>4, <2>5, <3>1, NotFilled
    <2>7. QED
      BY <2>2, <2>4, <2>6, TightAgain
  <1>4. ASSUME queues
        PROVE  LET t == Enqueued(s, x, "spawn", pool) IN
               t \in State /\ Lined(t) /\ NoIdle(t) /\ Bounded(s, t)
    <2> DEFINE t == Enqueued(s, x, "spawn", pool)
    <2>1. pool \in Pools
      BY <1>2, <1>4 DEF Pools
    <2>2. t \in State /\ Lined(t) /\ NoIdle(t) /\ t.bg = s.bg /\ t.fg = s.fg
      BY <1>1, <1>2, <1>4, <2>1, EnqueuedLined
    <2> HIDE DEF t
    <2>3. s.bg \in Int /\ s.fg \in Int
      BY StateParts
    <2>4. Bounded(s, t)
      BY <2>2, <2>3, NotFilled
    <2>5. QED
      BY <2>2, <2>4 DEF t
  <1>5. /\ started \in State /\ Lined(started) /\ Tight(s, started)
        /\ started.bg = IF Charge(q, x) = "background" THEN s.bg + 1 ELSE s.bg
        /\ started.fg = IF Charge(q, x) = "foreground" THEN s.fg + 1 ELSE s.fg
    BY <1>1, AskedStarted
  <1>6. q \in State /\ Tight(s, q) /\ q.rec = s.rec /\ q.runs[x].kind = "spawn"
    BY <1>1, RequestedLined
  <1>7. Charge(q, x) = pool
    BY <1>1, <1>6 DEF Charge, PoolFor, Tight
  <1>8. started.rec[a].opt = s.rec[a].opt
    BY <1>1, <1>6, StartedRecords
  <1> HIDE DEF q, started
  <1>9. /\ stopped \in State /\ Lined(stopped) /\ Tight(started, stopped)
        /\ stopped.bg = started.bg /\ stopped.fg = started.fg /\ stopped.rec[a].opt = s.rec[a].opt
    BY <1>5, <1>8, AbortedLined
  <1> HIDE DEF stopped, pool
  <1>10. Tight(s, stopped)
    BY <1>5, <1>9, TightAgain
  <1>11. ASSUME pool = "none" \/ PoolHasRoom(s, pool)
         PROVE  Bounded(s, started) /\ Bounded(s, stopped)
    BY <1>2, <1>5, <1>7, <1>9, <1>10, <1>11, RoomBounded
  <1>12. CASE queues /\ o.aborted
    BY <1>3, <1>12, TightNoIdle DEF Spawned, pool
  <1>13. CASE queues /\ ~o.aborted
    BY <1>4, <1>13 DEF Spawned, pool
  <1>14. CASE ~queues
    <2>1. Spawned(s, a, o) = IF o.aborted /\ ~o.worktree THEN stopped ELSE started
      BY <1>14 DEF Spawned, stopped, started, q, pool
    <2>2. NoIdle(started) /\ NoIdle(stopped)
      BY <1>5, <1>9, <1>10, TightNoIdle
    <2>3. o.bypassQueue \/ pool = "none" \/ PoolHasRoom(s, pool)
      BY <1>14
    <2>4. QED
      BY <1>5, <1>8, <1>9, <1>11, <2>1, <2>2, <2>3
  <1>15. QED
    BY <1>12, <1>13, <1>14

\* What each step keeps, and what it may not do.
Kept(s) == Lined(s) /\ NoIdle(s)

\* An action without a drain that takes no slot.
LEMMA TightStep ==
    ASSUME Here \in State, Kept(Here), NEW STATE t, t \in State, Lined(t), Tight(Here, t),
           t.bg <= Here.bg, t.fg <= Here.fg, Becomes(t)
    PROVE  Kept(Here') /\ Bounded(Here, Here')
  <1>1. Here' = t
    BY BecomesHere
  <1>2. Bounded(Here, t)
    BY NotFilled
  <1>3. Kept(t)
    BY TightNoIdle DEF Kept
  <1>4. QED
    BY <1>1, <1>2, <1>3

\* An action that ends with drainQueue.
LEMMA DrainStep ==
    ASSUME Here \in State, NEW STATE t, t \in State, Lined(t),
           t.bg <= Here.bg, t.fg <= Here.fg, DrainQueue(t)
    PROVE  Kept(Here') /\ Bounded(Here, Here')
  <1>1. PICK gone \in SUBSET MayBeGone(t) : Becomes(Drained(t, gone))
    BY DEF DrainQueue
  <1> DEFINE u == Drained(t, gone)
  <1>2. u \in State /\ Lined(u) /\ NoIdle(u) /\ Bounded(t, u)
    BY DrainedPools
  <1> HIDE DEF u
  <1>3. Here' = u
    BY <1>1, <1>2, BecomesHere DEF u
  <1>4. Bounded(Here, u)
    BY <1>2, StillBounded
  <1>5. QED
    BY <1>2, <1>3, <1>4 DEF Kept

\* An action that ends with settleRun.
LEMMA SettleStep ==
    ASSUME Here \in State, Kept(Here), NEW STATE t, IInv(t), Lined(t), Tight(Here, t),
           t.bg = Here.bg, t.fg = Here.fg,
           NEW x \in RunIds, t.runs[x].phase \in {"running", "cleanup"}, SettleRun(t, x)
    PROVE  Kept(Here') /\ Bounded(Here, Here')
  <1> DEFINE u == Settled(t, x)
             drains == t.runs[x].kind # "inline" /\ (t.rec[x[1]].isBackground \/ t.runs[x].pool # "none")
  <1>1. /\ u \in State /\ Lined(u) /\ u.bg <= t.bg /\ u.fg <= t.fg
        /\ ~drains => Tight(t, u)
    BY SettledLined
  <1>2. IF drains THEN DrainQueue(u) ELSE Becomes(u)
    BY DEF SettleRun
  <1>3. t \in State
    BY DEF IInv
  <1> HIDE DEF u, drains
  <1>4. CASE drains
    BY <1>1, <1>2, <1>4, DrainStep
  <1>5. CASE ~drains
    <2>1. Tight(Here, u)
      BY <1>1, <1>3, <1>5, TightAgain
    <2>2. QED
      BY <1>1, <1>2, <1>5, <2>1, TightStep
  <1>6. QED
    BY <1>4, <1>5

\* spawn and spawnAndWait.
LEMMA SpawnPools ==
    ASSUME IInv(Here), Kept(Here), NEW a \in Agents, NEW o \in SpawnOptions,
           NEW owner \in Agents \cup {NoOwner, Workflow}, Spawn(a, o, owner)
    PROVE  Kept(Here') /\ (Bounded(Here, Here') \/ Bypassing)
  <1> DEFINE i == Inserted(Here, a, o, owner)
             t == Spawned(i, a, o)
             w == Awaited(t, a)
  <1>1. Here.rec[a].status = "none" /\ Here \in State
    BY HereParts DEF Spawn, IInv
  <1>2. /\ i \in State /\ Lined(i) /\ Tight(Here, i) /\ i.bg = Here.bg /\ i.fg = Here.fg
        /\ i.rec[a].opt = o /\ i.runs[<<a, 0>>].phase = "idle"
    BY <1>1, InsertedLined DEF Kept
  <1> HIDE DEF i
  <1>3. NoIdle(i)
    BY <1>1, <1>2, TightNoIdle DEF Kept
  <1>4. /\ t \in State /\ Lined(t) /\ NoIdle(t)
        /\ Bounded(i, t) \/ (o.bypassQueue /\ t.rec[a].opt = o)
    BY <1>2, <1>3, SpawnedPools
  <1> HIDE DEF t
  <1>5. /\ w \in State /\ Lined(w) /\ Tight(t, w) /\ w.bg = t.bg /\ w.fg = t.fg /\ w.rec = t.rec
    <2> DEFINE phase == t.runs[<<a, 0>>].phase
               c == CASE phase \in {"queued", "copying"} -> "start"
                      [] phase = "running" -> "run"
                      [] OTHER -> "returned"
               C == [t.caller EXCEPT ![a] = c]
    <2>1. c \in CallerStates
      BY DEF CallerStates
    <2> HIDE DEF c
    <2>2. C \in [Agents -> CallerStates]
      BY <1>4, <2>1, StateParts
    <2>3. w = [t EXCEPT !.caller = C]
      BY DEF Awaited, c
    <2> HIDE DEF C, w
    <2>4. QED
      BY <1>4, <2>2, <2>3, CallerLined
  <1> HIDE DEF w
  <1>6. NoIdle(w)
    BY <1>4, <1>5, TightNoIdle
  <1>7. w.rec[a].opt = t.rec[a].opt /\ (Bounded(i, t) => Bounded(i, w))
    BY <1>5 DEF Bounded, Tight
  <1>8. Here.bg \in Int /\ Here.fg \in Int
    BY <1>1, StateParts
  <1>9. ASSUME NEW STATE u, u \in State, Lined(u), NoIdle(u), Becomes(u),
               Bounded(i, u) \/ (o.bypassQueue /\ u.rec[a].opt = o)
        PROVE  Kept(Here') /\ (Bounded(Here, Here') \/ Bypassing)
    <2>1. Here' = u
      BY <1>9, BecomesHere
    <2>2. Bounded(i, u) => Bounded(Here, u)
      BY <1>1, <1>2, <1>8, <1>9, StillBounded
    <2>3. o.bypassQueue /\ u.rec[a].opt = o => Bypassing
      BY <1>1, <1>9, HereParts DEF Bypassing, Becomes
    <2>4. QED
      BY <1>9, <2>1, <2>2, <2>3 DEF Kept
  <1>10. Becomes(t) \/ Becomes(w)
    BY DEF Spawn, w, t, i
  <1>11. QED
    BY <1>4, <1>5, <1>6, <1>7, <1>9, <1>10

\* The copy is made: the run starts, or the copy is discarded and the discard drains.
LEMMA CopyDonePools ==
    ASSUME IInv(Here), Kept(Here), NEW a \in Agents, NEW esc \in BOOLEAN, CopyDone(a, esc)
    PROVE  Kept(Here') /\ Bounded(Here, Here')
  <1> DEFINE x == <<a, 0>>
             l == InPhase(Here, x, "running")
             C == [caller EXCEPT ![a] = IF @ = "start" THEN "run" ELSE @]
             launched == [l EXCEPT !.caller = C]
             stopped == Aborted(launched, {a})
             g == InPhase(Here, x, "discarding")
             freed == Released(g, runs[x].pool)
  <1>1. /\ Here \in State /\ Lined(Here) /\ x \in RunIds /\ Here.runs[x].phase = "copying"
        /\ "running" \in Phases /\ "discarding" \in Phases
        /\ Here.bg \in Int /\ Here.fg \in Int
    BY RunIdParts, HereParts, StateParts DEF IInv, CopyDone, Phases, Kept
  <1>2. l \in State /\ Lined(l) /\ Tight(Here, l) /\ l.bg = Here.bg /\ l.fg = Here.fg
    <2>1. l \in State /\ Lined(l) /\ Tight(Here, l)
      BY <1>1, InPhaseLined DEF Early, Holding
    <2>2. l.bg = Here.bg /\ l.fg = Here.fg
      BY <1>1, InPhaseFacts
    <2>3. QED
      BY <2>1, <2>2
  <1>3. C \in [Agents -> CallerStates]
    BY <1>1, HereParts, StateParts DEF CallerStates
  <1> HIDE DEF C, l
  <1>4. /\ launched \in State /\ Lined(launched) /\ Tight(l, launched)
        /\ launched.bg = l.bg /\ launched.fg = l.fg
    BY <1>2, <1>3, CallerLined
  <1> HIDE DEF launched
  <1>5. /\ stopped \in State /\ Lined(stopped) /\ Tight(launched, stopped)
        /\ stopped.bg = launched.bg /\ stopped.fg = launched.fg
    BY <1>4, AbortedLined
  <1> HIDE DEF stopped
  <1>6. Tight(Here, launched) /\ Tight(Here, stopped)
    BY <1>1, <1>2, <1>4, <1>5, TightAgain
  <1>7. g \in State /\ Lined(g) /\ g.bg = Here.bg /\ g.fg = Here.fg /\ g.runs[x].phase = "discarding"
    <2>1. g \in State /\ Lined(g)
      BY <1>1, InPhaseLined DEF Early, Holding
    <2>2. g.bg = Here.bg /\ g.fg = Here.fg /\ g.runs[x].phase = "discarding"
      BY <1>1, InPhaseFacts
    <2>3. QED
      BY <2>1, <2>2
  <1> HIDE DEF g
  <1>8. freed \in State /\ Lined(freed) /\ freed.runs = g.runs /\ freed.bg <= g.bg /\ freed.fg <= g.fg
    BY <1>7, ReleasedLined
  <1> HIDE DEF freed
  <1>9. ASSUME Becomes(freed) PROVE Kept(Here') /\ Bounded(Here, Here')
    <2>1. Here' = freed
      BY <1>8, <1>9, BecomesHere
    <2>2. NoIdle(freed)
      BY <1>7, <1>8 DEF NoIdle
    <2>3. Bounded(Here, freed)
      BY <1>1, <1>7, <1>8, NotFilled
    <2>4. QED
      BY <1>8, <2>1, <2>2, <2>3 DEF Kept
  <1>10. Becomes(launched) \/ Becomes(stopped) \/ Becomes(freed)
    BY DEF CopyDone, launched, l, C, stopped, freed, g
  <1>11. launched.bg <= Here.bg /\ launched.fg <= Here.fg /\ stopped.bg <= Here.bg /\ stopped.fg <= Here.fg
    BY <1>1, <1>2, <1>4, <1>5
  <1>12. QED
    BY <1>1, <1>4, <1>5, <1>6, <1>9, <1>10, <1>11, TightStep

\* A failed copy gives its slot back and drains.
LEMMA CopyFailedPools ==
    ASSUME IInv(Here), Kept(Here), NEW a \in Agents, CopyFailed(a)
    PROVE  Kept(Here') /\ Bounded(Here, Here')
  <1> DEFINE x == <<a, 0>>
             d == Dropped(Here, {x}, "threw")
             freed == Released(d, runs[x].pool)
             failed == WithStatus(freed, {a}, "error")
             A == agents \ {a}
             gone == [freed EXCEPT !.agents = A]
  <1>1. /\ Here \in State /\ Lined(Here) /\ {x} \in SUBSET RunIds
        /\ "threw" \in CallerStates /\ "error" \in Statuses
        /\ \A y \in {x} : Here.runs[y].phase # "idle"
        /\ A \in SUBSET Agents
        /\ Here.bg \in Int /\ Here.fg \in Int
    BY RunIdParts, HereParts, StateParts DEF IInv, CopyFailed, CallerStates, Statuses, Kept
  <1>2. d \in State /\ Lined(d)
    BY <1>1, DroppedLined
  <1>3. d.bg = Here.bg /\ d.fg = Here.fg
    BY <1>1, DroppedFacts
  <1> HIDE DEF d, A
  <1>4. /\ freed \in State /\ Lined(freed) /\ freed.bg <= d.bg /\ freed.fg <= d.fg
    BY <1>2, ReleasedLined
  <1> HIDE DEF freed
  <1>5. failed \in State /\ Lined(failed) /\ failed.bg = freed.bg /\ failed.fg = freed.fg
    BY <1>1, <1>4, WithStatusLined, WithStatusFacts
  <1> HIDE DEF failed
  <1>6. gone \in State /\ gone.rec = freed.rec /\ gone.runs = freed.runs /\ gone.bg = freed.bg /\ gone.fg = freed.fg
    BY <1>1, <1>4 DEF State
  <1> HIDE DEF gone
  <1>7. Lined(gone)
    BY <1>4, <1>6, SameLined
  <1>8. DrainQueue(failed) \/ DrainQueue(gone)
    BY DEF CopyFailed, failed, gone, A, freed, d
  <1>9. failed.bg <= Here.bg /\ failed.fg <= Here.fg /\ gone.bg <= Here.bg /\ gone.fg <= Here.fg
    BY <1>1, <1>3, <1>4, <1>5, <1>6
  <1>10. QED
    BY <1>1, <1>5, <1>6, <1>7, <1>8, <1>9, DrainStep

\* The end of a discard drains.
LEMMA DiscardDonePools ==
    ASSUME IInv(Here), Kept(Here), NEW a \in Agents, DiscardDone(a)
    PROVE  Kept(Here') /\ Bounded(Here, Here')
  <1> DEFINE x == <<a, 0>>
             d == Dropped(Here, {x}, "returned")
  <1>1. /\ Here \in State /\ Lined(Here) /\ {x} \in SUBSET RunIds /\ "returned" \in CallerStates
        /\ \A y \in {x} : Here.runs[y].phase # "idle"
        /\ Here.bg \in Int /\ Here.fg \in Int
    BY RunIdParts, HereParts, StateParts DEF IInv, DiscardDone, CallerStates, Kept
  <1>2. d \in State /\ Lined(d)
    BY <1>1, DroppedLined
  <1>3. d.bg = Here.bg /\ d.fg = Here.fg
    BY <1>1, DroppedFacts
  <1>4. DrainQueue(d)
    BY DEF DiscardDone
  <1> HIDE DEF d
  <1>5. d.bg <= Here.bg /\ d.fg <= Here.fg
    BY <1>1, <1>3
  <1>6. QED
    BY <1>1, <1>2, <1>4, <1>5, DrainStep

\* onSessionCreated: the spawn runs.
LEMMA SessionCreatedPools ==
    ASSUME IInv(Here), Kept(Here), NEW a \in Agents, SessionCreated(a)
    PROVE  Kept(Here') /\ Bounded(Here, Here')
  <1> DEFINE t == [Here EXCEPT !.rec = [Here.rec EXCEPT ![a].session = TRUE]]
  <1>1. Here \in State /\ Lined(Here) /\ Here.runs[<<a, 0>>].phase \notin Early
        /\ Here.bg \in Int /\ Here.fg \in Int
    BY HereParts, StateParts DEF IInv, SessionCreated, Kept, Early
  <1>2. t \in State /\ Lined(t) /\ Tight(Here, t) /\ t.bg = Here.bg /\ t.fg = Here.fg
    BY <1>1, SessionLined
  <1>3. Becomes(t)
    BY HereParts DEF SessionCreated
  <1> HIDE DEF t
  <1>4. t.bg <= Here.bg /\ t.fg <= Here.fg
    BY <1>1, <1>2
  <1>5. QED
    BY <1>1, <1>2, <1>3, <1>4, TightStep

\* What the end of a run writes to its record.
LEMMA EndedLined ==
    ASSUME NEW s \in State, Lined(s), NEW x \in RunIds, s.runs[x].phase = "running",
           NEW outcome \in {"completed", "error"}
    PROVE  LET t == Ended(s, x, outcome) IN
           t \in State /\ Lined(t) /\ Tight(s, t) /\ t.bg = s.bg /\ t.fg = s.fg /\ t.runs = s.runs
  <1> DEFINE a == x[1]
             keeps == s.rec[a].status = "stopped" /\ s.runs[x].kind # "inline"
             got == s.rec[a].session \/ (s.runs[x].kind = "spawn" /\ outcome = "completed")
             w == WithStatus(s, IF keeps THEN {} ELSE {a}, outcome)
             t == [w EXCEPT !.rec = [w.rec EXCEPT ![a].session = got]]
  <1>1. a \in Agents /\ got \in BOOLEAN /\ outcome \in Statuses
    BY RunIdParts DEF Statuses
  <1>2. w \in State /\ Lined(w) /\ Tight(s, w)
    BY <1>1, WithStatusLined
  <1>3. w.runs = s.runs /\ w.bg = s.bg /\ w.fg = s.fg
    BY <1>1, WithStatusFacts
  <1>4. Ended(s, x, outcome) = [w EXCEPT !.rec[a].session = got]
    BY DEF Ended
  <1> HIDE DEF got, w
  <1>5. s.runs[<<a, 0>>].phase \notin Early
    <2>1. CASE x = <<a, 0>>
      BY <2>1 DEF Early
    <2>2. CASE x # <<a, 0>>
      <3>1. x \in RunsOf(a) \ {<<a, 0>>} /\ s.runs[x].phase # "idle"
        BY <2>2 DEF RunsOf
      <3>2. QED
        BY <1>1, <3>1 DEF Lined, Young
    <2>3. QED
      BY <2>1, <2>2
  <1> HIDE DEF a
  <1>6. [w EXCEPT !.rec[a].session = got] = t
    BY <1>2 DEF State
  <1>7. t \in State /\ Lined(t) /\ Tight(w, t) /\ t.bg = w.bg /\ t.fg = w.fg /\ t.runs = w.runs
    BY <1>1, <1>2, <1>3, <1>5, SessionLined
  <1> HIDE DEF t
  <1>8. QED
    BY <1>2, <1>3, <1>4, <1>6, <1>7, TightAgain

\* The end of a run, with and without a worktree.
LEMMA RunEndsPools ==
    ASSUME IInv(Here), Kept(Here), NEW x \in RunIds, NEW outcome \in {"completed", "error"},
           RunEnds(x, outcome)
    PROVE  Kept(Here') /\ Bounded(Here, Here')
  <1> DEFINE e == Ended(Here, x, outcome)
             t == InPhase(e, x, "cleanup")
  <1>1. /\ Here \in State /\ Lined(Here) /\ Here.runs[x].phase = "running" /\ "cleanup" \in Phases
        /\ Here.bg \in Int /\ Here.fg \in Int
    BY HereParts, StateParts DEF IInv, RunEnds, Kept, Phases
  <1>2. e \in State /\ Lined(e) /\ Tight(Here, e) /\ e.bg = Here.bg /\ e.fg = Here.fg /\ e.runs = Here.runs
    BY <1>1, EndedLined
  <1>3. IInv(e)
    BY EndedInv
  <1> HIDE DEF e
  <1>4. t \in State /\ Lined(t) /\ Tight(e, t)
    BY <1>1, <1>2, InPhaseLined DEF Early, Holding
  <1>5. t.bg = e.bg /\ t.fg = e.fg
    BY <1>1, <1>2, InPhaseFacts
  <1>6. Becomes(t) \/ SettleRun(e, x)
    BY DEF RunEnds, t, e
  <1> HIDE DEF t
  <1>7. t.bg <= Here.bg /\ t.fg <= Here.fg /\ Tight(Here, t)
    BY <1>1, <1>2, <1>4, <1>5, TightAgain
  <1>8. e.runs[x].phase \in {"running", "cleanup"}
    BY <1>1, <1>2
  <1>9. QED
    BY <1>1, <1>2, <1>3, <1>4, <1>6, <1>7, <1>8, TightStep, SettleStep

\* The end of a run's cleanup.
LEMMA CleanupDonePools ==
    ASSUME IInv(Here), Kept(Here), NEW a \in Agents, CleanupDone(a)
    PROVE  Kept(Here') /\ Bounded(Here, Here')
  <1>1. /\ <<a, 0>> \in RunIds /\ Here.runs[<<a, 0>>].phase \in {"running", "cleanup"}
        /\ Here \in State /\ Lined(Here) /\ SettleRun(Here, <<a, 0>>)
    BY RunIdParts, HereParts DEF CleanupDone, IInv, Kept
  <1>2. Tight(Here, Here)
    <2>1. Here.bg \in Int /\ Here.fg \in Int
      BY <1>1, StateParts
    <2>2. QED
      BY <2>1 DEF Tight
  <1>3. QED
    BY <1>1, <1>2, SettleStep

\* A background resume queues when the pool has no room.
LEMMA ResumeBackgroundPools ==
    ASSUME IInv(Here), Kept(Here), NEW a \in Agents, NEW k \in 1..MaxResumes, ResumeBackground(a, k)
    PROVE  Kept(Here') /\ Bounded(Here, Here')
  <1> DEFINE x == <<a, k>>
             R == [rec EXCEPT ![a].isBackground = TRUE, ![a].status = "queued"]
             u == [Here EXCEPT !.rec = R]
             queued == Enqueued(u, x, "resume", "background")
             q == Requested(u, x, "resume")
             started == Started(q, {x})
  <1>1. x \in RunIds /\ x[1] = a /\ Here.runs[x].phase = "idle"
    BY HereParts, ConstantsAssumption DEF ResumeBackground, NextRun, RunIds
  <1>2. /\ Here \in State /\ Lined(Here) /\ NoIdle(Here) /\ rec \in [Agents -> AgentRecord]
        /\ rec[a].owner = NoOwner /\ rec[a].session
        /\ Here.bg \in Int /\ Here.fg \in Int
    BY HereParts, StateParts DEF IInv, ResumeBackground, IsTopLevelAgent, Kept
  <1>3. /\ R \in [Agents -> AgentRecord]
        /\ \A b \in Agents \ {a} : R[b] = rec[b]
        /\ R[a].isBackground = TRUE /\ R[a].owner = rec[a].owner /\ R[a].opt = rec[a].opt
        /\ R[a].session = rec[a].session
    BY <1>2 DEF AgentRecord, Statuses
  <1> HIDE DEF R
  <1>4. /\ u \in State /\ u.rec = R /\ u.runs = Here.runs /\ u.bg = Here.bg /\ u.fg = Here.fg
        /\ u.bgLimit = Here.bgLimit /\ u.fgLimit = Here.fgLimit
    BY <1>2, <1>3 DEF State
  <1>5. IF OccupiesPoolSlot(u.rec[a]) /\ ~PoolHasRoom(u, "background") THEN Becomes(queued) ELSE Becomes(started)
    BY DEF ResumeBackground, u, R
  <1> HIDE DEF u
  <1>6. Calm(Here, u) /\ Tight(Here, u)
    <2>1. \A b \in Agents : CalmRecord(Here, u, b)
      BY <1>2, <1>3, <1>4, HereParts DEF CalmRecord
    <2>2. Queue(u) = Queue(Here)
      BY <1>4 DEF Queue
    <2>3. QED
      BY <1>2, <1>4, <2>1, <2>2 DEF Calm, CalmRun, Tight
  <1>7. Lined(u) /\ NoIdle(u)
    BY <1>2, <1>4, <1>6, CalmLined, TightNoIdle
  <1>8. OccupiesPoolSlot(u.rec[a]) /\ u.rec[a].session /\ u.runs[x].phase = "idle"
    BY <1>1, <1>2, <1>3, <1>4 DEF OccupiesPoolSlot, IsTopLevelAgent
  <1>9. CASE ~PoolHasRoom(u, "background")
    <2>1. queued \in State /\ Lined(queued) /\ NoIdle(queued) /\ queued.bg = u.bg /\ queued.fg = u.fg
      BY <1>1, <1>4, <1>7, <1>8, <1>9, EnqueuedLined DEF Pools
    <2> HIDE DEF queued
    <2>2. Here' = queued
      BY <1>5, <1>8, <1>9, <2>1, BecomesHere
    <2>3. Bounded(Here, queued)
      BY <1>2, <1>4, <2>1, NotFilled
    <2>4. QED
      BY <2>1, <2>2, <2>3 DEF Kept
  <1>10. CASE PoolHasRoom(u, "background")
    <2>1. /\ started \in State /\ Lined(started) /\ Tight(u, started)
          /\ started.bg = IF Charge(q, x) = "background" THEN u.bg + 1 ELSE u.bg
          /\ started.fg = IF Charge(q, x) = "foreground" THEN u.fg + 1 ELSE u.fg
      BY <1>1, <1>4, <1>7, <1>8, AskedStarted
    <2>2. q.rec = u.rec /\ q.runs[x].kind = "resume"
      BY <1>1, <1>4, <1>7, <1>8, RequestedLined
    <2>3. Charge(q, x) = "background"
      BY <1>1, <1>8, <2>2 DEF Charge
    <2> HIDE DEF started, q
    <2>4. Bounded(u, started) /\ NoIdle(started)
      BY <1>4, <1>7, <1>10, <2>1, <2>3, RoomBounded, TightNoIdle
    <2>5. Bounded(Here, started)
      BY <1>2, <1>4, <2>1, <2>4, StillBounded
    <2>6. Here' = started
      BY <1>5, <1>10, <2>1, BecomesHere
    <2>7. QED
      BY <2>1, <2>4, <2>5, <2>6 DEF Kept
  <1>11. QED
    BY <1>9, <1>10

\* A foreground resume takes no slot.
LEMMA ResumeInlinePools ==
    ASSUME IInv(Here), Kept(Here), NEW a \in Agents, NEW k \in 1..MaxResumes, ResumeInline(a, k)
    PROVE  Kept(Here') /\ Bounded(Here, Here')
  <1> DEFINE x == <<a, k>>
             q == Requested(Here, x, "inline")
             t == Started(q, {x})
  <1>1. /\ x \in RunIds /\ x[1] = a /\ Here.runs[x].phase = "idle"
        /\ Here \in State /\ Lined(Here) /\ Here.rec[a].session
        /\ Here.bg \in Int /\ Here.fg \in Int
    BY HereParts, StateParts, ConstantsAssumption DEF ResumeInline, NextRun, RunIds, IInv, Kept
  <1>2. /\ t \in State /\ Lined(t) /\ Tight(Here, t)
        /\ t.bg = IF Charge(q, x) = "background" THEN Here.bg + 1 ELSE Here.bg
        /\ t.fg = IF Charge(q, x) = "foreground" THEN Here.fg + 1 ELSE Here.fg
    BY <1>1, AskedStarted
  <1>3. q.runs[x].kind = "inline"
    BY <1>1, RequestedLined
  <1>4. Charge(q, x) = "none"
    BY <1>3 DEF Charge
  <1>5. Becomes(t)
    BY DEF ResumeInline
  <1> HIDE DEF t, q
  <1>6. t.bg <= Here.bg /\ t.fg <= Here.fg
    BY <1>1, <1>2, <1>4
  <1>7. QED
    BY <1>1, <1>2, <1>5, <1>6, TightStep

\* abort takes entries out of the queue and frees no slot.
LEMMA AbortPools ==
    ASSUME IInv(Here), Kept(Here), NEW a \in Agents, Abort(a)
    PROVE  Kept(Here') /\ Bounded(Here, Here')
  <1> DEFINE t == Aborted(Here, {a})
  <1>1. Here \in State /\ Lined(Here) /\ Here.bg \in Int /\ Here.fg \in Int
    BY StateParts DEF IInv, Kept
  <1>2. t \in State /\ Lined(t) /\ Tight(Here, t) /\ t.bg = Here.bg /\ t.fg = Here.fg
    BY <1>1, AbortedLined
  <1>3. Becomes(t)
    BY DEF Abort
  <1> HIDE DEF t
  <1>4. t.bg <= Here.bg /\ t.fg <= Here.fg
    BY <1>1, <1>2
  <1>5. QED
    BY <1>1, <1>2, <1>3, <1>4, TightStep

\* Eviction and a change of a limit, with the drain that follows.
LEMMA SettingsPools ==
    ASSUME IInv(Here), Kept(Here),
           \/ \E S \in SUBSET Agents : Evict(S)
           \/ \E n \in BgLimits : SetMaxConcurrent(n)
           \/ \E n \in FgLimits : SetMaxConcurrentForeground(n)
    PROVE  Kept(Here') /\ Bounded(Here, Here')
  <1>1. /\ Here \in State /\ Lined(Here) /\ rec \in [Agents -> AgentRecord]
        /\ Here.bg \in Int /\ Here.fg \in Int
    BY HereParts, StateParts DEF IInv, Kept
  <1>2. ASSUME NEW S \in SUBSET Agents, Evict(S) PROVE Kept(Here') /\ Bounded(Here, Here')
    <2> DEFINE A == agents \ S
               R == [a \in Agents |-> IF a \in S THEN [rec[a] EXCEPT !.session = FALSE] ELSE rec[a]]
               u == [Here EXCEPT !.agents = A, !.rec = R]
    <2>1. A \in SUBSET Agents
      BY HereParts, <1>1, StateParts
    <2>2. \A b \in Agents : /\ R[b] \in AgentRecord
                            /\ R[b].owner = rec[b].owner /\ R[b].opt = rec[b].opt
                            /\ R[b].isBackground = rec[b].isBackground
                            /\ R[b].session => rec[b].session
      BY <1>1 DEF AgentRecord
    <2>3. R \in [Agents -> AgentRecord]
      BY <2>2
    <2> HIDE DEF A, R
    <2>4. /\ u \in State /\ u.rec = R /\ u.runs = Here.runs
          /\ u.bg = Here.bg /\ u.fg = Here.fg /\ u.bgLimit = Here.bgLimit /\ u.fgLimit = Here.fgLimit
      BY <1>1, <2>1, <2>3 DEF State
    <2>5. Becomes(u)
      BY <1>2 DEF Evict, u, A, R
    <2> HIDE DEF u
    <2>6. Lined(u) /\ Tight(Here, u)
      BY <1>1, <2>2, <2>4, HereParts, SameLined
    <2>7. u.bg <= Here.bg /\ u.fg <= Here.fg
      BY <1>1, <2>4
    <2>8. QED
      BY <1>1, <2>4, <2>5, <2>6, <2>7, TightStep
  <1>3. ASSUME NEW n \in BgLimits, SetMaxConcurrent(n) PROVE Kept(Here') /\ Bounded(Here, Here')
    <2> DEFINE u == [Here EXCEPT !.bgLimit = n]
    <2>1. u \in State /\ u.rec = Here.rec /\ u.runs = Here.runs /\ u.bg = Here.bg /\ u.fg = Here.fg
      BY <1>1, ConstantsAssumption DEF State
    <2>2. DrainQueue(u)
      BY <1>3 DEF SetMaxConcurrent
    <2> HIDE DEF u
    <2>3. Lined(u) /\ u.bg <= Here.bg /\ u.fg <= Here.fg
      BY <1>1, <2>1, SameLined
    <2>4. QED
      BY <1>1, <2>1, <2>2, <2>3, DrainStep
  <1>4. ASSUME NEW n \in FgLimits, SetMaxConcurrentForeground(n) PROVE Kept(Here') /\ Bounded(Here, Here')
    <2> DEFINE u == [Here EXCEPT !.fgLimit = n]
    <2>1. u \in State /\ u.rec = Here.rec /\ u.runs = Here.runs /\ u.bg = Here.bg /\ u.fg = Here.fg
      BY <1>1, ConstantsAssumption DEF State
    <2>2. DrainQueue(u)
      BY <1>4 DEF SetMaxConcurrentForeground
    <2> HIDE DEF u
    <2>3. Lined(u) /\ u.bg <= Here.bg /\ u.fg <= Here.fg
      BY <1>1, <2>1, SameLined
    <2>4. QED
      BY <1>1, <2>1, <2>2, <2>3, DrainStep
  <1>5. QED
    BY <1>2, <1>3, <1>4

\* A shutdown empties the queue.
LEMMA ShutdownPools ==
    ASSUME IInv(Here), Kept(Here), Shutdown
    PROVE  Kept(Here') /\ Bounded(Here, Here')
  <1> DEFINE hit == {a \in agents : rec[a].status = "running" \/ \E x \in Queue(Here) : x[1] = a}
             d == Dropped(Here, Queue(Here), "returned")
             w == WithStatus(d, hit, "stopped")
             u == [w EXCEPT !.agents = {}, !.open = FALSE]
  <1>1. /\ Here \in State /\ Lined(Here) /\ Queue(Here) \in SUBSET RunIds
        /\ "returned" \in CallerStates /\ "stopped" \in Statuses
        /\ \A x \in Queue(Here) : Here.runs[x].phase = "queued"
        /\ Here.bg \in Int /\ Here.fg \in Int
    BY StateParts DEF IInv, Kept, Queue, CallerStates, Statuses
  <1>2. d \in State /\ Lined(d) /\ Tight(Here, d)
    BY <1>1, DroppedLined
  <1>3. d.bg = Here.bg /\ d.fg = Here.fg
    <2> DEFINE queue == Queue(Here)
    <2>1. Here \in State /\ queue \in SUBSET RunIds /\ "returned" \in CallerStates
      BY <1>1
    <2> HIDE DEF queue
    <2>2. /\ Dropped(Here, queue, "returned").bg = Here.bg
          /\ Dropped(Here, queue, "returned").fg = Here.fg
      BY <2>1, DroppedFacts
    <2>3. QED
      BY <2>2 DEF queue
  <1> HIDE DEF d, hit
  <1>4. w \in State /\ Lined(w) /\ Tight(d, w)
    BY <1>1, <1>2, WithStatusLined
  <1>5. w.bg = d.bg /\ w.fg = d.fg
    BY <1>1, <1>2, WithStatusFacts
  <1> HIDE DEF w
  <1>6. /\ u \in State /\ u.rec = w.rec /\ u.runs = w.runs
        /\ u.bg = w.bg /\ u.fg = w.fg /\ u.bgLimit = w.bgLimit /\ u.fgLimit = w.fgLimit
    BY <1>4 DEF State
  <1>7. Becomes(u)
    BY DEF Shutdown, u, w, d, hit
  <1> HIDE DEF u
  <1>8. Lined(u) /\ Tight(w, u)
    BY <1>4, <1>6, SameLined
  <1>9. Tight(Here, u)
    <2>1. Tight(Here, w)
      BY <1>1, <1>2, <1>4, TightAgain
    <2>2. QED
      BY <1>1, <1>4, <1>6, <1>8, <2>1, TightAgain
  <1>10. u.bg <= Here.bg /\ u.fg <= Here.fg
    BY <1>1, <1>3, <1>5, <1>6
  <1>11. QED
    BY <1>1, <1>6, <1>7, <1>8, <1>9, <1>10, TightStep

\* Every step keeps the queue in line and the pools in use, and fills no pool beyond
\* its limit unless a spawn bypasses the queue.
LEMMA NextPools ==
    ASSUME IInv(Here), Kept(Here), Next
    PROVE  Kept(Here') /\ (Bounded(Here, Here') \/ Bypassing)
  <1>1. ASSUME NEW a \in Agents, NEW o \in Options, NEW owner \in Owners(o), Spawn(a, o, owner)
        PROVE  Kept(Here') /\ (Bounded(Here, Here') \/ Bypassing)
    <2>1. o \in SpawnOptions
      BY ConstantsAssumption
    <2>2. agents \in SUBSET Agents
      BY HereParts, StateParts DEF IInv
    <2>3. owner \in Agents \cup {NoOwner, Workflow}
      <3>1. CASE o.owner = "none"
        BY <1>1, <3>1 DEF Owners
      <3>2. CASE o.owner # "none" /\ o.owner = "workflow"
        BY <1>1, <3>2 DEF Owners
      <3>3. CASE o.owner # "none" /\ o.owner # "workflow"
        BY <1>1, <2>2, <3>3 DEF Owners
      <3>4. QED
        BY <3>1, <3>2, <3>3
    <2>4. QED
      BY <1>1, <2>1, <2>3, SpawnPools
  <1>2. CASE Request
    BY <1>1, <1>2, ResumeBackgroundPools, ResumeInlinePools, AbortPools, SettingsPools,
       ShutdownPools DEF Request
  <1>3. ASSUME NEW a \in Agents, SessionCreated(a) PROVE Kept(Here') /\ Bounded(Here, Here')
    BY <1>3, SessionCreatedPools
  <1>4. ASSUME NEW a \in Agents, Answer(a) PROVE Kept(Here') /\ Bounded(Here, Here')
    <2>1. \A x \in RunsOf(a) : x \in RunIds
      BY DEF RunsOf
    <2>2. QED
      BY <1>4, <2>1, CopyDonePools, CopyFailedPools, DiscardDonePools, CleanupDonePools,
         RunEndsPools DEF Answer
  <1>5. QED
    BY <1>2, <1>3, <1>4 DEF Next

\* The queue is in line and its pools are in use.
Used == Kept(Here)

\* Nothing waits in the beginning,
LEMMA UsedFirst == Init => Used
  <1> SUFFICES ASSUME Init PROVE Used
    OBVIOUS
  <1>1. \A x \in RunIds : Here.runs[x].phase = "idle" /\ Here.rec[x[1]].session = FALSE
    BY HereParts, RunIdParts DEF Init
  <1>2. \A a \in Agents : Here.rec[a].session = FALSE
    BY HereParts DEF Init
  <1>3. Queue(Here) = {}
    BY <1>1 DEF Queue
  <1>4. Ordered(Here) /\ Pooled(Here) /\ NoIdle(Here)
    BY <1>3 DEF Ordered, Pooled, NoIdle
  <1>5. InlineFree(Here)
    BY <1>1 DEF InlineFree, Holding
  <1>6. Young(Here)
    BY <1>1, <1>2 DEF Young, RunsOf
  <1>7. QED
    BY <1>4, <1>5, <1>6 DEF Used, Kept, Lined

\* ... a step keeps it so, and uses the pools.
LEMMA UsedNext ==
    Inv /\ Used /\ [Next]_vars => Used' /\ [LimitRespected /\ NoIdleSlot']_vars
  <1> SUFFICES ASSUME Inv, Used, [Next]_vars
               PROVE  Used' /\ [LimitRespected /\ NoIdleSlot']_vars
    OBVIOUS
  <1>1. CASE Next
    <2>1. Kept(Here') /\ (Bounded(Here, Here') \/ Bypassing)
      BY <1>1, NextPools DEF Inv, Used
    <2>2. /\ Here'.bg = runningBackground' /\ Here'.fg = runningForeground'
          /\ Here'.bgLimit = maxConcurrent' /\ Here'.fgLimit = maxConcurrentForeground'
          /\ Here'.runs = runs'
      BY DEF Here
    <2>3. LimitRespected
      BY <2>1, <2>2, HereParts DEF LimitRespected, Bounded
    <2>4. NoIdleSlot'
      BY <2>1, <2>2 DEF NoIdleSlot, Kept, NoIdle
    <2>5. QED
      BY <2>1, <2>3, <2>4 DEF Used
  <1>2. CASE UNCHANGED vars
    <2>1. Here' = Here
      BY <1>2 DEF Here, vars
    <2>2. QED
      BY <1>2, <2>1 DEF Used
  <1>3. QED
    BY <1>1, <1>2

\* The queue is always in line.
LEMMA UsedAlways == Spec => []Used
  <1>1. QED
    BY UsedFirst, UsedNext, Invariance, PTL DEF Spec

\* No step fills a pool beyond its limit, except for spawns that bypass the queue,
\* and none leaves a slot idle that an entry of the queue could take, except while a
\* discard pends: whatever is drained, stopped, resumed, evicted or reconfigured
\* (drainQueue takes as many entries as fit, in the order of the array).
THEOREM PoolsKeptInUse == Spec => PoolsUsed
  <1>1. QED
    BY UsedFirst, UsedNext, Invariance, PTL DEF Spec, PoolsUsed

-----------------------------------------------------------------------------
(***************************************************************************)
(* What a caller is handed.  Concludes follows the spawn of an agent from  *)
(* the queue to its end: the record keeps step with the phase, and until   *)
(* the spawn has run there is no session a resume could re-enter.          *)
(***************************************************************************)
Concludes(s, a) ==
    LET phase == s.runs[<<a, 0>>].phase
        status == s.rec[a].status
    IN /\ phase \in Early \cup {"dropped"} => ~s.rec[a].session /\ ~ReEntered(s, a)
       /\ phase = "queued" =>
              a \in s.agents /\ status = "queued" /\ <<a, 0>> \notin s.runs[<<a, 0>>].ahead
       /\ phase = "copying" => status \in {"running", "stopped"}
       /\ phase = "discarding" => status = "stopped"
       /\ phase \in {"cleanup", "settled"} => status \in Terminal \/ ReEntered(s, a)
       /\ s.caller[a] = "returned" =>
              phase = "settled" \/ (phase = "dropped" /\ status = "stopped")

Conclusive(s) == \A a \in Agents : Concludes(s, a)

\* Nothing happened to the spawn of an agent, nor to its record.
SameFate(s, t, a) ==
    /\ t.runs[<<a, 0>>] = s.runs[<<a, 0>>]
    /\ t.rec[a].status = s.rec[a].status
    /\ t.rec[a].session => s.rec[a].session
    /\ ReEntered(t, a) <=> ReEntered(s, a)
    /\ t.caller[a] = "returned" => s.caller[a] = "returned"
    /\ s.runs[<<a, 0>>].phase = "queued" /\ a \in s.agents => a \in t.agents

\* ... then it still concludes.
LEMMA FateConcludes ==
    ASSUME NEW s, NEW t, NEW a, Concludes(s, a), SameFate(s, t, a)
    PROVE  Concludes(t, a)
  BY DEF Concludes, SameFate

\* An agent is re-entered or not, as long as its other runs are asked for or not.
LEMMA ReEnteredSame ==
    ASSUME NEW s, NEW t, NEW a,
           \A x \in RunsOf(a) \ {<<a, 0>>} : t.runs[x].phase = "idle" <=> s.runs[x].phase = "idle"
    PROVE  ReEntered(t, a) <=> ReEntered(s, a)
  BY DEF ReEntered

\* The spawn of an agent with a session has run: whatever its resume does to the
\* record, the caller of the spawn is not told.
LEMMA ReEntryConcludes ==
    ASSUME NEW s, NEW t, NEW a, Concludes(s, a), s.rec[a].session,
           t.runs[<<a, 0>>].phase = s.runs[<<a, 0>>].phase, ReEntered(t, a),
           t.caller[a] = "returned" => s.caller[a] = "returned"
    PROVE  Concludes(t, a)
  BY DEF Concludes, Early

\* abort(): the spawn of a queued agent is dropped and its caller gets a stopped
\* record; any other agent is only marked.
LEMMA AbortedConcludes ==
    ASSUME NEW s \in State, Conclusive(s), NEW S
    PROVE  LET t == Aborted(s, S) IN
           /\ t \in State /\ Conclusive(t)
           /\ \A x \in RunIds : s.runs[x].phase # "queued" => t.runs[x] = s.runs[x]
           /\ \A x \in RunIds : t.runs[x].phase = "idle" <=> s.runs[x].phase = "idle"
           /\ \A a \in Agents : s.rec[a].status \in Terminal => t.rec[a].status \in Terminal
  <1> DEFINE hit == {a \in S \cap s.agents : s.rec[a].status \in Active}
             out == {x \in Queue(s) : x[1] \in hit /\ s.rec[x[1]].status = "queued"}
             d == Dropped(s, out, "returned")
             t == WithStatus(d, hit, "stopped")
  <1>1. "returned" \in CallerStates /\ "stopped" \in Statuses /\ out \in SUBSET RunIds
    BY DEF CallerStates, Statuses, Queue
  <1>2. \A x \in out : s.runs[x].phase = "queued" /\ x[1] \in hit
    BY DEF Queue
  <1>3. \A x \in RunIds : s.runs[x].phase = "queued" /\ x[1] \in hit /\ s.rec[x[1]].status = "queued" => x \in out
    BY DEF Queue
  <1>4. \A a \in hit : a \in s.agents /\ s.rec[a].status \in Active
    OBVIOUS
  <1>5. Aborted(s, S) = t
    BY DEF Aborted
  <1> HIDE DEF hit, out
  <1>6. /\ d \in State /\ d.rec = s.rec /\ d.agents = s.agents
        /\ \A x \in RunIds \ out : d.runs[x] = s.runs[x]
        /\ \A x \in out : d.runs[x].phase = "dropped"
        /\ \A a \in Agents : d.caller[a] = IF <<a, 0>> \in out /\ s.caller[a] = "start"
                                           THEN "returned" ELSE s.caller[a]
    BY <1>1, DroppedFacts
  <1> HIDE DEF d
  <1>7. /\ t \in State /\ t.runs = d.runs /\ t.agents = d.agents /\ t.caller = d.caller
        /\ \A a \in Agents : /\ t.rec[a].status = IF a \in hit THEN "stopped" ELSE d.rec[a].status
                             /\ t.rec[a].session = d.rec[a].session
    BY <1>1, <1>6, WithStatusFacts
  <1> HIDE DEF t
  <1>8. \A x \in RunIds : s.runs[x].phase # "queued" => t.runs[x] = s.runs[x]
    BY <1>2, <1>6, <1>7
  <1>9. \A x \in RunIds : t.runs[x].phase = "idle" <=> s.runs[x].phase = "idle"
    BY <1>2, <1>6, <1>7
  <1>10. ASSUME NEW a \in Agents PROVE Concludes(t, a)
    <2>1. <<a, 0>> \in RunIds /\ (<<a, 0>>)[1] = a /\ Concludes(s, a)
      BY RunIdParts DEF Conclusive
    <2>2. ReEntered(t, a) <=> ReEntered(s, a)
      BY <1>9, ReEnteredSame DEF RunsOf
    <2>3. /\ t.rec[a].status = IF a \in hit THEN "stopped" ELSE s.rec[a].status
          /\ t.rec[a].session = s.rec[a].session /\ t.agents = s.agents
      BY <1>6, <1>7
    <2>4. CASE <<a, 0>> \in out
      <3>1. /\ t.runs[<<a, 0>>].phase = "dropped" /\ s.runs[<<a, 0>>].phase = "queued"
            /\ t.rec[a].status = "stopped"
        BY <1>2, <1>6, <1>7, <2>1, <2>3, <2>4
      <3>2. QED
        BY <2>1, <2>2, <2>3, <3>1 DEF Concludes, Early
    <2>5. CASE <<a, 0>> \notin out
      <3>1. t.runs[<<a, 0>>] = s.runs[<<a, 0>>] /\ t.caller[a] = s.caller[a]
        BY <1>6, <1>7, <2>1, <2>5
      <3>2. CASE a \notin hit
        BY <2>1, <2>2, <2>3, <3>1, <3>2 DEF Concludes
      <3>3. CASE a \in hit
        <4>1. t.rec[a].status = "stopped" /\ "stopped" \in Terminal
          BY <2>3, <3>3 DEF Terminal
        <4>2. s.runs[<<a, 0>>].phase # "queued"
          BY <1>3, <2>1, <2>5, <3>3 DEF Concludes
        <4>3. QED
          BY <2>1, <2>2, <2>3, <3>1, <4>1, <4>2 DEF Concludes
      <3>4. QED
        BY <3>2, <3>3
    <2>6. QED
      BY <2>4, <2>5
  <1>11. \A a \in Agents : s.rec[a].status \in Terminal => t.rec[a].status \in Terminal
    BY <1>6, <1>7 DEF Terminal
  <1>12. QED
    BY <1>5, <1>7, <1>8, <1>9, <1>10, <1>11 DEF Conclusive

\* What a start changes: the records of its agents, and the callers that waited for it.
LEMMA StartedCallers ==
    ASSUME NEW s \in State, NEW X \in SUBSET RunIds
    PROVE  LET t == Started(s, X) IN
           /\ t \in State /\ t.agents = s.agents
           /\ \A x \in RunIds \ X : t.runs[x] = s.runs[x]
           /\ \A a \in Agents :
                 /\ t.rec[a].status = IF \E x \in X : x[1] = a THEN "running" ELSE s.rec[a].status
                 /\ t.caller[a] = s.caller[a] \/ (<<a, 0>> \in X /\ t.caller[a] = "run")
  <1> DEFINE copies(x) == s.runs[x].kind = "spawn" /\ s.rec[x[1]].opt.worktree
             t == Started(s, X)
  <1>1. s \in State /\ X \in SUBSET RunIds
    OBVIOUS
  <1>2. /\ t \in State /\ t.agents = s.agents
        /\ \A a \in Agents :
              /\ t.rec[a].status = IF \E x \in X : x[1] = a THEN "running" ELSE s.rec[a].status
              /\ t.rec[a].isBackground = s.rec[a].isBackground
              /\ t.rec[a].owner = s.rec[a].owner
              /\ t.caller[a] = IF <<a, 0>> \in X /\ ~copies(<<a, 0>>) /\ s.caller[a] = "start"
                               THEN "run" ELSE s.caller[a]
        /\ \A x \in RunIds \ X : t.runs[x] = s.runs[x]
        /\ \A x \in X : /\ t.runs[x].phase = IF copies(x) THEN "copying" ELSE "running"
                        /\ t.runs[x].pool = Charge(s, x)
                        /\ t.runs[x].kind = s.runs[x].kind
        /\ t.bg = s.bg + Cardinality({x \in X : Charge(s, x) = "background"})
        /\ t.fg = s.fg + Cardinality({x \in X : Charge(s, x) = "foreground"})
    BY <1>1, StartedFacts, ZenonT(40)
  <1> HIDE DEF copies, t
  <1>3. QED
    BY <1>2 DEF t

\* What a drain does to the spawn and the record of each agent.
LEMMA DrainedFates ==
    ASSUME NEW s \in State, NEW gone \in SUBSET MayBeGone(s)
    PROVE  LET t == Drained(s, gone) IN
           /\ t \in State /\ t.agents = s.agents
           /\ \A x \in RunIds : /\ t.runs[x].phase = "idle" <=> s.runs[x].phase = "idle"
                                /\ x \notin Queue(s) => t.runs[x] = s.runs[x]
           /\ \A a \in Agents :
                 /\ t.rec[a].session = s.rec[a].session
                 /\ <<a, 0>> \notin Queue(s) => t.caller[a] = s.caller[a]
                 /\ (\A x \in Queue(s) : x[1] # a) => t.rec[a].status = s.rec[a].status
                 /\ (\A x \in Queue(s) \ {<<a, 0>>} : x[1] # a) /\ <<a, 0>> \in Startable(s) =>
                       \/ /\ t.runs[<<a, 0>>] = s.runs[<<a, 0>>]
                          /\ t.rec[a].status = s.rec[a].status /\ t.caller[a] = s.caller[a]
                       \/ /\ t.runs[<<a, 0>>].phase = "dropped" /\ t.rec[a].status = "error"
                          /\ t.caller[a] \in {"threw", s.caller[a]}
                       \/ /\ t.runs[<<a, 0>>].phase \in {"copying", "running"}
                          /\ t.rec[a].status = "running"
                          /\ t.caller[a] \in {"run", s.caller[a]}
  <1> DEFINE taken == Reached(s, gone)
             S1 == taken \ Startable(s)
             S2 == taken \cap gone
             S3 == Starting(s, gone)
             ids == {x[1] : x \in S2}
             stale == Dropped(s, S1, "returned")
             unmade == Dropped(stale, S2, "threw")
             failed == WithStatus(unmade, ids, "error")
             t == Started(failed, S3)
  <1>1. /\ S1 \in SUBSET RunIds /\ S2 \in SUBSET RunIds /\ S3 \in SUBSET RunIds
        /\ S1 \cap S2 = {} /\ S1 \cap S3 = {} /\ S2 \cap S3 = {}
        /\ \A x \in Startable(s) : x \notin S1
        /\ \A x \in S1 \cup S2 \cup S3 : x \in Queue(s) /\ s.runs[x].phase = "queued"
    BY DEF Reached, Startable, MayBeGone, Queue, Starting
  <1>2. "returned" \in CallerStates /\ "threw" \in CallerStates /\ "error" \in Statuses
    BY DEF CallerStates, Statuses
  <1>3. Drained(s, gone) = t
    BY DEF Drained, Starting
  <1>4. \A a : a \in ids <=> \E x \in S2 : x[1] = a
    OBVIOUS
  <1> HIDE DEF S1, S2, S3, ids, taken
  <1>5. /\ stale \in State /\ stale.rec = s.rec /\ stale.agents = s.agents
        /\ \A x \in RunIds \ S1 : stale.runs[x] = s.runs[x]
        /\ \A x \in S1 : stale.runs[x].phase = "dropped"
        /\ \A a \in Agents : stale.caller[a] = IF <<a, 0>> \in S1 /\ s.caller[a] = "start"
                                               THEN "returned" ELSE s.caller[a]
    <2>1. S1 \in SUBSET RunIds /\ "returned" \in CallerStates
      BY <1>1, <1>2
    <2>2. QED
      BY <2>1, DroppedFacts
  <1> HIDE DEF stale
  <1>6. /\ unmade \in State /\ unmade.rec = s.rec /\ unmade.agents = s.agents
        /\ \A x \in RunIds \ S2 : unmade.runs[x] = stale.runs[x]
        /\ \A x \in S2 : unmade.runs[x].phase = "dropped"
        /\ \A a \in Agents : unmade.caller[a] = IF <<a, 0>> \in S2 /\ stale.caller[a] = "start"
                                                THEN "threw" ELSE stale.caller[a]
    <2>1. S2 \in SUBSET RunIds /\ "threw" \in CallerStates /\ stale \in State
      BY <1>1, <1>2, <1>5
    <2>2. QED
      BY <1>5, <2>1, DroppedFacts
  <1> HIDE DEF unmade
  <1>7. /\ failed \in State /\ failed.agents = s.agents /\ failed.runs = unmade.runs
        /\ failed.caller = unmade.caller
        /\ \A a \in Agents : /\ failed.rec[a].status = IF a \in ids THEN "error" ELSE s.rec[a].status
                             /\ failed.rec[a].session = s.rec[a].session
    BY <1>2, <1>6, WithStatusFacts
  <1> HIDE DEF failed
  <1>8. /\ t \in State /\ t.agents = s.agents
        /\ \A x \in RunIds \ S3 : t.runs[x] = failed.runs[x]
        /\ \A x \in S3 : t.runs[x].phase \in {"copying", "running"}
        /\ \A a \in Agents :
              /\ t.rec[a].status = IF \E x \in S3 : x[1] = a THEN "running" ELSE failed.rec[a].status
              /\ t.rec[a].session = s.rec[a].session
              /\ t.caller[a] = failed.caller[a] \/ (<<a, 0>> \in S3 /\ t.caller[a] = "run")
    <2>1. failed \in State /\ S3 \in SUBSET RunIds
      BY <1>1, <1>7
    <2>2. /\ t \in State /\ t.agents = failed.agents
          /\ \A x \in RunIds \ S3 : t.runs[x] = failed.runs[x]
          /\ \A a \in Agents :
                /\ t.rec[a].status = IF \E x \in S3 : x[1] = a THEN "running" ELSE failed.rec[a].status
                /\ t.caller[a] = failed.caller[a] \/ (<<a, 0>> \in S3 /\ t.caller[a] = "run")
      BY <2>1, StartedCallers
    <2>3. \A x \in S3 : t.runs[x].phase \in {"copying", "running"}
      BY <2>1, StartedRuns
    <2>4. \A a \in Agents : t.rec[a].session = failed.rec[a].session
      BY <2>1, StartedRecords
    <2>5. QED
      BY <1>7, <2>2, <2>3, <2>4
  <1> HIDE DEF t
  <1>9. ASSUME NEW x \in RunIds
        PROVE  /\ t.runs[x].phase = "idle" <=> s.runs[x].phase = "idle"
               /\ x \notin Queue(s) => t.runs[x] = s.runs[x]
    BY <1>1, <1>5, <1>6, <1>7, <1>8
  <1>10. ASSUME NEW a \in Agents
         PROVE  /\ t.rec[a].session = s.rec[a].session
                /\ <<a, 0>> \notin Queue(s) => t.caller[a] = s.caller[a]
                /\ (\A x \in Queue(s) : x[1] # a) => t.rec[a].status = s.rec[a].status
    BY <1>1, <1>4, <1>5, <1>6, <1>7, <1>8
  <1>11. ASSUME NEW a \in Agents, \A x \in Queue(s) \ {<<a, 0>>} : x[1] # a, <<a, 0>> \in Startable(s)
         PROVE  \/ /\ t.runs[<<a, 0>>] = s.runs[<<a, 0>>]
                   /\ t.rec[a].status = s.rec[a].status /\ t.caller[a] = s.caller[a]
                \/ /\ t.runs[<<a, 0>>].phase = "dropped" /\ t.rec[a].status = "error"
                   /\ t.caller[a] \in {"threw", s.caller[a]}
                \/ /\ t.runs[<<a, 0>>].phase \in {"copying", "running"}
                   /\ t.rec[a].status = "running"
                   /\ t.caller[a] \in {"run", s.caller[a]}
    <2>1. /\ <<a, 0>> \in RunIds /\ (<<a, 0>>)[1] = a /\ <<a, 0>> \notin S1
          /\ \A x \in S2 \cup S3 : x[1] = a => x = <<a, 0>>
      BY <1>1, <1>11, RunIdParts
    <2>2. CASE <<a, 0>> \in S2
      BY <1>1, <1>4, <1>5, <1>6, <1>7, <1>8, <2>1, <2>2
    <2>3. CASE <<a, 0>> \in S3
      BY <1>1, <1>4, <1>5, <1>6, <1>7, <1>8, <2>1, <2>3
    <2>4. CASE <<a, 0>> \notin S2 \cup S3
      BY <1>1, <1>4, <1>5, <1>6, <1>7, <1>8, <2>1, <2>4
    <2>5. QED
      BY <2>2, <2>3, <2>4
  <1>12. QED
    BY <1>3, <1>8, <1>9, <1>10, <1>11

\* drainQueue: a queued spawn starts or fails its start; it is never found stale,
\* since nothing else of its agent can be in the queue.
LEMMA DrainedConcludes ==
    ASSUME NEW s \in State, Conclusive(s), NEW gone \in SUBSET MayBeGone(s)
    PROVE  Conclusive(Drained(s, gone))
  <1> DEFINE t == Drained(s, gone)
  <1>1. /\ t \in State /\ t.agents = s.agents
        /\ \A x \in RunIds : /\ t.runs[x].phase = "idle" <=> s.runs[x].phase = "idle"
                             /\ x \notin Queue(s) => t.runs[x] = s.runs[x]
        /\ \A a \in Agents :
              /\ t.rec[a].session = s.rec[a].session
              /\ <<a, 0>> \notin Queue(s) => t.caller[a] = s.caller[a]
              /\ (\A x \in Queue(s) : x[1] # a) => t.rec[a].status = s.rec[a].status
              /\ (\A x \in Queue(s) \ {<<a, 0>>} : x[1] # a) /\ <<a, 0>> \in Startable(s) =>
                    \/ /\ t.runs[<<a, 0>>] = s.runs[<<a, 0>>]
                       /\ t.rec[a].status = s.rec[a].status /\ t.caller[a] = s.caller[a]
                    \/ /\ t.runs[<<a, 0>>].phase = "dropped" /\ t.rec[a].status = "error"
                       /\ t.caller[a] \in {"threw", s.caller[a]}
                    \/ /\ t.runs[<<a, 0>>].phase \in {"copying", "running"}
                       /\ t.rec[a].status = "running"
                       /\ t.caller[a] \in {"run", s.caller[a]}
    BY DrainedFates
  <1> HIDE DEF t
  <1> SUFFICES ASSUME NEW a \in Agents PROVE Concludes(t, a)
    BY DEF t, Conclusive
  <1>2. <<a, 0>> \in RunIds /\ (<<a, 0>>)[1] = a /\ Concludes(s, a)
    BY RunIdParts DEF Conclusive
  <1>3. ReEntered(t, a) <=> ReEntered(s, a)
    BY <1>1, ReEnteredSame DEF RunsOf
  <1>4. ASSUME ~ReEntered(s, a) PROVE \A x \in Queue(s) \ {<<a, 0>>} : x[1] # a
    BY <1>4 DEF ReEntered, RunsOf, Queue
  <1>5. CASE <<a, 0>> \in Queue(s)
    <2>1. s.runs[<<a, 0>>].phase = "queued"
      BY <1>5 DEF Queue
    <2>2. /\ ~s.rec[a].session /\ ~ReEntered(s, a) /\ a \in s.agents /\ s.rec[a].status = "queued"
          /\ <<a, 0>> \notin s.runs[<<a, 0>>].ahead /\ s.caller[a] # "returned"
      BY <1>2, <2>1 DEF Concludes, Early
    <2>3. \A x \in Queue(s) \ {<<a, 0>>} : x[1] # a
      BY <1>4, <2>2
    <2>5. <<a, 0>> \in Startable(s)
      BY <1>2, <1>5, <2>2, <2>3 DEF Startable
    <2>6. /\ t.rec[a].session = s.rec[a].session
          /\ \/ /\ t.runs[<<a, 0>>] = s.runs[<<a, 0>>]
                /\ t.rec[a].status = s.rec[a].status /\ t.caller[a] = s.caller[a]
             \/ /\ t.runs[<<a, 0>>].phase = "dropped" /\ t.rec[a].status = "error"
                /\ t.caller[a] \in {"threw", s.caller[a]}
             \/ /\ t.runs[<<a, 0>>].phase \in {"copying", "running"}
                /\ t.rec[a].status = "running"
                /\ t.caller[a] \in {"run", s.caller[a]}
      BY <1>1, <2>3, <2>5
    <2>7. QED
      BY <1>1, <1>3, <2>1, <2>2, <2>6 DEF Concludes
  <1>6. CASE <<a, 0>> \notin Queue(s)
    <2>1. /\ t.runs[<<a, 0>>] = s.runs[<<a, 0>>] /\ t.caller[a] = s.caller[a]
          /\ t.rec[a].session = s.rec[a].session
      BY <1>1, <1>2, <1>6
    <2>2. CASE ReEntered(s, a)
      BY <1>2, <1>3, <2>1, <2>2 DEF Concludes, Early
    <2>3. CASE ~ReEntered(s, a)
      <3>1. t.rec[a].status = s.rec[a].status
        BY <1>1, <1>4, <1>6, <2>3
      <3>2. QED
        BY <1>1, <1>2, <1>3, <2>1, <3>1 DEF Concludes
    <2>4. QED
      BY <2>2, <2>3
  <1>7. QED
    BY <1>5, <1>6

\* The settle of a run: the caller of a spawn gets the record of a finished agent, or
\* of one that a resume re-entered.
LEMMA SettledConcludes ==
    ASSUME NEW s \in State, Conclusive(s), NEW x \in RunIds,
           s.runs[x].phase \in {"running", "cleanup"},
           \A a \in Agents : x = <<a, 0>> => s.rec[a].status \in Terminal \/ ReEntered(s, a)
    PROVE  Settled(s, x) \in State /\ Conclusive(Settled(s, x))
  <1> DEFINE b == Aborted(s, OwnedChildren(s, x[1]))
             r == Released(b, Refund(b, x))
             f == InPhase(r, x, "settled")
             C == [a \in Agents |-> IF x = <<a, 0>> /\ f.caller[a] = "run" THEN "returned" ELSE f.caller[a]]
             t == [f EXCEPT !.caller = C]
  <1>1. /\ b \in State /\ Conclusive(b) /\ b.runs[x] = s.runs[x]
        /\ \A y \in RunIds : b.runs[y].phase = "idle" <=> s.runs[y].phase = "idle"
        /\ \A a \in Agents : s.rec[a].status \in Terminal => b.rec[a].status \in Terminal
    <2>1. s.runs[x].phase # "queued"
      OBVIOUS
    <2>2. QED
      BY <2>1, AbortedConcludes
  <1>2. \A a \in Agents : x = <<a, 0>> => b.rec[a].status \in Terminal \/ ReEntered(b, a)
    BY <1>1, ReEnteredSame DEF RunsOf
  <1> HIDE DEF b
  <1>3. r \in State /\ r.agents = b.agents /\ r.rec = b.rec /\ r.runs = b.runs /\ r.caller = b.caller
    BY <1>1, ReleasedFacts
  <1> HIDE DEF r
  <1>4. /\ f \in State /\ f.agents = b.agents /\ f.rec = b.rec /\ f.caller = b.caller
        /\ \A y \in RunIds \ {x} : f.runs[y] = b.runs[y]
        /\ f.runs[x].phase = "settled"
    <2>1. "settled" \in Phases /\ r \in State
      BY <1>3 DEF Phases
    <2>2. /\ f \in State /\ f.agents = r.agents /\ f.rec = r.rec /\ f.caller = r.caller
          /\ \A y \in RunIds \ {x} : f.runs[y] = r.runs[y]
          /\ f.runs[x].phase = "settled"
      BY <2>1, InPhaseFacts
    <2>3. r.runs = b.runs /\ r.agents = b.agents /\ r.rec = b.rec /\ r.caller = b.caller
      BY <1>3
    <2> HIDE DEF f
    <2>4. QED
      BY <2>2, <2>3
  <1> HIDE DEF f
  <1>5. C \in [Agents -> CallerStates]
    BY <1>4, StateParts DEF CallerStates
  <1>6. \A a \in Agents : C[a] = IF x = <<a, 0>> /\ f.caller[a] = "run" THEN "returned" ELSE f.caller[a]
    OBVIOUS
  <1>7. Settled(s, x) = t
    BY DEF Settled, f, r, b
  <1> HIDE DEF C
  <1>8. t \in State /\ t.agents = f.agents /\ t.rec = f.rec /\ t.runs = f.runs /\ t.caller = C
    BY <1>4, <1>5 DEF State
  <1> HIDE DEF t
  <1>9. \A y \in RunIds : t.runs[y].phase = "idle" <=> b.runs[y].phase = "idle"
    BY <1>1, <1>4, <1>8
  <1>10. ASSUME NEW a \in Agents PROVE Concludes(t, a)
    <2>1. <<a, 0>> \in RunIds /\ Concludes(b, a)
      BY <1>1, RunIdParts DEF Conclusive
    <2>2. ReEntered(t, a) <=> ReEntered(b, a)
      BY <1>9, ReEnteredSame DEF RunsOf
    <2>3. CASE x = <<a, 0>>
      BY <1>2, <1>4, <1>8, <2>2, <2>3 DEF Concludes, Early
    <2>4. CASE x # <<a, 0>>
      <3>1. SameFate(b, t, a)
        BY <1>4, <1>6, <1>8, <2>1, <2>2, <2>4 DEF SameFate
      <3>2. QED
        BY <2>1, <3>1, FateConcludes
    <2>5. QED
      BY <2>3, <2>4
  <1>11. QED
    BY <1>7, <1>8, <1>10 DEF Conclusive

\* The record spawn() inserts has no session, and none of its runs was asked for.
LEMMA InsertedConcludes ==
    ASSUME NEW s, IInv(s), Conclusive(s), NEW a \in Agents, s.rec[a].status = "none",
           NEW o \in SpawnOptions, NEW owner \in Agents \cup {NoOwner, Workflow}
    PROVE  LET t == Inserted(s, a, o, owner) IN
           /\ t \in State /\ Conclusive(t) /\ a \in t.agents
           /\ t.runs[<<a, 0>>].phase = "idle"
  <1> DEFINE t == Inserted(s, a, o, owner)
             r == [status |-> IF o.mode = "background" THEN "queued" ELSE "running",
                   isBackground |-> o.mode = "background", owner |-> owner,
                   session |-> FALSE, opt |-> o]
  <1>1. IInv(t) /\ t.runs = s.runs /\ \A x \in RunIds : x[1] = a => t.runs[x].phase = "idle"
    BY InsertedInv
  <1>2. t \in State /\ s \in State
    BY <1>1 DEF IInv
  <1>3. t.agents = s.agents \cup {a} /\ t.rec = [s.rec EXCEPT ![a] = r] /\ t.caller = s.caller
    BY <1>2 DEF Inserted, State
  <1>4. r.session = FALSE
    OBVIOUS
  <1>5. \A c \in Agents : t.rec[c] = IF c = a THEN r ELSE s.rec[c]
    BY <1>2, <1>3, StateParts
  <1> HIDE DEF t, r
  <1>6. t.runs[<<a, 0>>].phase = "idle"
    BY <1>1, RunIdParts
  <1>7. \A c \in Agents : ReEntered(t, c) <=> ReEntered(s, c)
    BY <1>1 DEF ReEntered
  <1>8. ~ReEntered(t, a)
    BY <1>1 DEF ReEntered, RunsOf
  <1>9. ASSUME NEW c \in Agents PROVE Concludes(t, c)
    <2>1. Concludes(s, c)
      BY DEF Conclusive
    <2>2. CASE c = a
      BY <1>1, <1>3, <1>4, <1>5, <1>6, <1>8, <2>1, <2>2 DEF Concludes
    <2>3. CASE c # a
      <3>1. SameFate(s, t, c)
        BY <1>1, <1>3, <1>5, <1>7, <2>3 DEF SameFate
      <3>2. QED
        BY <2>1, <3>1, FateConcludes
    <2>4. QED
      BY <2>2, <2>3
  <1>10. QED
    BY <1>2, <1>3, <1>6, <1>9 DEF t, Conclusive

\* A run that starts at once: the first run of an agent, or one that re-enters it.
LEMMA AskedConcludes ==
    ASSUME NEW s \in State, NEW x \in RunIds, s.runs[x].phase = "idle",
           NEW kind \in {"spawn", "resume", "inline"},
           \A c \in Agents \ {x[1]} : Concludes(s, c)
    PROVE  LET t == Started(Requested(s, x, kind), {x}) IN
           /\ t \in State /\ t.agents = s.agents
           /\ \A c \in Agents \ {x[1]} : Concludes(t, c)
           /\ \A y \in RunIds \ {x} : t.runs[y] = s.runs[y]
           /\ t.runs[x].phase \in {"copying", "running"}
           /\ t.rec[x[1]].status = "running" /\ t.rec[x[1]].session = s.rec[x[1]].session
           /\ t.caller[x[1]] \in {"run", s.caller[x[1]]}
  <1> DEFINE q == Requested(s, x, kind)
             X == {x}
             t == Started(q, X)
             a == x[1]
  <1>1. /\ q \in State /\ q.agents = s.agents /\ q.rec = s.rec /\ q.caller = s.caller
        /\ \A y \in RunIds \ {x} : q.runs[y] = s.runs[y]
    <2>1. s.runs \in [RunIds -> Run] /\ [s.runs[x] EXCEPT !.kind = kind] \in Run
      BY StateParts DEF Run
    <2>2. q = [s EXCEPT !.runs = [s.runs EXCEPT ![x] = [s.runs[x] EXCEPT !.kind = kind]]]
      BY <2>1 DEF Requested
    <2>3. QED
      BY <2>1, <2>2 DEF State
  <1>1a. X \in SUBSET RunIds /\ \A y : y \in X <=> y = x
    OBVIOUS
  <1> HIDE DEF q, X
  <1>2. /\ t \in State /\ t.agents = q.agents
        /\ \A y \in RunIds \ X : t.runs[y] = q.runs[y]
        /\ \A c \in Agents :
              /\ t.rec[c].status = IF \E y \in X : y[1] = c THEN "running" ELSE q.rec[c].status
              /\ t.caller[c] = q.caller[c] \/ (<<c, 0>> \in X /\ t.caller[c] = "run")
    <2>1. q \in State /\ X \in SUBSET RunIds
      BY <1>1, <1>1a
    <2>2. QED
      BY <2>1, StartedCallers
  <1>3. t.runs[x].phase \in {"copying", "running"}
    BY <1>1, <1>1a, StartedRuns
  <1>4. \A c \in Agents : t.rec[c].session = q.rec[c].session
    BY <1>1, <1>1a, StartedRecords
  <1> HIDE DEF t
  <1>5. a \in Agents
    BY RunIdParts
  <1>6. ASSUME NEW c \in Agents \ {a} PROVE Concludes(t, c)
    <2>1. <<c, 0>> \in RunIds /\ <<c, 0>> # x /\ \A y \in RunsOf(c) : y \in RunIds \ {x}
      BY <1>6, RunIdParts DEF RunsOf
    <2>2. ReEntered(t, c) <=> ReEntered(s, c)
      BY <1>1, <1>1a, <1>2, <2>1 DEF ReEntered
    <2>3. SameFate(s, t, c)
      BY <1>1, <1>1a, <1>2, <1>4, <1>6, <2>1, <2>2 DEF SameFate
    <2>4. QED
      BY <1>6, <2>3, FateConcludes
  <1>7. /\ t \in State /\ t.agents = s.agents
        /\ \A y \in RunIds \ {x} : t.runs[y] = s.runs[y]
        /\ t.rec[a].status = "running" /\ t.rec[a].session = s.rec[a].session
        /\ t.caller[a] \in {"run", s.caller[a]}
    <2>1. (\E y \in X : y[1] = a) /\ a \in Agents
      BY <1>1a, <1>5
    <2> HIDE DEF a
    <2>2. t.rec[a].status = "running"
      BY <1>2, <2>1
    <2>3. t.rec[a].session = s.rec[a].session
      BY <1>1, <1>4, <2>1
    <2>4. t.caller[a] \in {"run", s.caller[a]}
      <3>1. t.caller[a] = q.caller[a] \/ t.caller[a] = "run"
        BY <1>2, <2>1, Zenon
      <3>2. QED
        BY <1>1, <3>1
    <2>5. QED
      BY <1>1, <1>1a, <1>2, <2>2, <2>3, <2>4
  <1>8. QED
    BY <1>3, <1>6, <1>7 DEF t, q, X

\* The push of an entry.
LEMMA EnqueuedConcludes ==
    ASSUME NEW s \in State, NEW x \in RunIds, s.runs[x].phase = "idle",
           NEW kind \in {"spawn", "resume"}, NEW pool \in Pools,
           \A c \in Agents \ {x[1]} : Concludes(s, c)
    PROVE  LET t == Enqueued(s, x, kind, pool) IN
           /\ t \in State /\ t.agents = s.agents /\ t.caller = s.caller
           /\ \A c \in Agents \ {x[1]} : Concludes(t, c)
           /\ \A y \in RunIds \ {x} : t.runs[y] = s.runs[y]
           /\ t.runs[x].phase = "queued"
           /\ t.rec[x[1]].status = "queued" /\ t.rec[x[1]].session = s.rec[x[1]].session
  <1> DEFINE entry == [phase |-> "queued", pool |-> pool, kind |-> kind, wasQueued |-> TRUE,
                       clash |-> FALSE, ahead |-> Queue(s)]
             q == [s EXCEPT !.runs = [s.runs EXCEPT ![x] = entry]]
             t == WithStatus(q, {x[1]}, "queued")
             a == x[1]
  <1>1. entry \in Run /\ entry.phase = "queued" /\ "queued" \in Statuses
    BY DEF Run, Phases, Queue, Statuses
  <1>2. Enqueued(s, x, kind, pool) = t
    BY DEF Enqueued
  <1> HIDE DEF entry
  <1>3. /\ q \in State /\ q.agents = s.agents /\ q.rec = s.rec /\ q.caller = s.caller
        /\ q.runs[x] = entry /\ \A y \in RunIds \ {x} : q.runs[y] = s.runs[y]
    BY <1>1, StateParts DEF State
  <1> HIDE DEF q
  <1>4. /\ t \in State /\ t.runs = q.runs /\ t.agents = s.agents /\ t.caller = s.caller
        /\ \A c \in Agents : /\ t.rec[c].status = IF c \in {a} THEN "queued" ELSE s.rec[c].status
                             /\ t.rec[c].session = s.rec[c].session
    BY <1>1, <1>3, WithStatusFacts
  <1> HIDE DEF t
  <1>5. a \in Agents
    BY RunIdParts
  <1>6. ASSUME NEW c \in Agents \ {a} PROVE Concludes(t, c)
    <2>1. <<c, 0>> \in RunIds /\ <<c, 0>> # x /\ \A y \in RunsOf(c) : y \in RunIds \ {x}
      BY <1>6, RunIdParts DEF RunsOf
    <2>2. ReEntered(t, c) <=> ReEntered(s, c)
      BY <1>3, <1>4, <2>1 DEF ReEntered
    <2>3. SameFate(s, t, c)
      BY <1>3, <1>4, <1>6, <2>1, <2>2 DEF SameFate
    <2>4. QED
      BY <1>6, <2>3, FateConcludes
  <1>7. QED
    BY <1>1, <1>2, <1>3, <1>4, <1>5, <1>6

\* spawn() after the insert: the entry is refused, pushed, or its run starts.
LEMMA SpawnedConcludes ==
    ASSUME NEW s \in State, Conclusive(s), NEW a \in s.agents, NEW o,
           s.runs[<<a, 0>>].phase = "idle"
    PROVE  LET t == Spawned(s, a, o) IN
           /\ t \in State /\ Conclusive(t)
           /\ \/ t.runs[<<a, 0>>].phase \in {"queued", "copying", "running"}
              \/ t.runs[<<a, 0>>].phase = "dropped" /\ t.rec[a].status = "stopped"
  <1> DEFINE x == <<a, 0>>
             X == {x}
             pool == PoolFor(s, s.rec[a])
             d == Dropped(s, X, "returned")
             refused == WithStatus(d, {a}, "stopped")
             pushed == Enqueued(s, x, "spawn", pool)
             started == Started(Requested(s, x, "spawn"), {x})
             stopped == Aborted(started, {a})
  <1>1. /\ a \in Agents /\ x \in RunIds /\ x[1] = a /\ s.runs[x].phase = "idle"
        /\ "returned" \in CallerStates /\ "stopped" \in Statuses
        /\ X \in SUBSET RunIds /\ \A y : y \in X <=> y = x
    BY StateParts, RunIdParts DEF CallerStates, Statuses
  <1>2. /\ Concludes(s, a) /\ ~s.rec[a].session /\ ~ReEntered(s, a) /\ s.caller[a] # "returned"
    BY <1>1 DEF Conclusive, Concludes, Early
  <1>3. \A c \in Agents \ {x[1]} : Concludes(s, c)
    BY DEF Conclusive
  <1>4. /\ refused \in State /\ Conclusive(refused)
        /\ refused.runs[x].phase = "dropped" /\ refused.rec[a].status = "stopped"
    <2> HIDE DEF X
    <2>1. /\ d \in State /\ d.agents = s.agents /\ d.rec = s.rec
          /\ \A y \in RunIds \ X : d.runs[y] = s.runs[y]
          /\ \A y \in X : d.runs[y].phase = "dropped"
          /\ \A c \in Agents : d.caller[c] = IF <<c, 0>> \in X /\ s.caller[c] = "start"
                                             THEN "returned" ELSE s.caller[c]
      BY <1>1, DroppedFacts
    <2> HIDE DEF d
    <2>2. /\ refused \in State /\ refused.agents = s.agents
          /\ refused.runs = d.runs /\ refused.caller = d.caller
          /\ \A c \in Agents : /\ refused.rec[c].status = IF c \in {a} THEN "stopped" ELSE d.rec[c].status
                               /\ refused.rec[c].session = d.rec[c].session
      BY <1>1, <2>1, WithStatusFacts
    <2> HIDE DEF refused
    <2>3. ASSUME NEW c \in Agents PROVE Concludes(refused, c)
      <3>1. <<c, 0>> \in RunIds /\ <<c, 0>> \in RunsOf(c) /\ \A y \in RunsOf(c) \ {<<c, 0>>} : y \in RunIds \ X
        BY <1>1, RunIdParts DEF RunsOf
      <3>2. ReEntered(refused, c) <=> ReEntered(s, c)
        BY <2>1, <2>2, <3>1 DEF ReEntered
      <3>3. CASE c = a
        BY <1>1, <1>2, <2>1, <2>2, <3>2, <3>3 DEF Concludes
      <3>4. CASE c # a
        <4>1. SameFate(s, refused, c)
          BY <1>1, <2>1, <2>2, <3>1, <3>2, <3>4 DEF SameFate
        <4>2. QED
          BY <4>1, FateConcludes DEF Conclusive
      <3>5. QED
        BY <3>3, <3>4
    <2>4. refused.runs[x].phase = "dropped" /\ refused.rec[a].status = "stopped"
      BY <1>1, <2>1, <2>2
    <2>5. QED
      BY <2>2, <2>3, <2>4 DEF Conclusive
  <1>5. ASSUME pool # "none"
        PROVE  pushed \in State /\ Conclusive(pushed) /\ pushed.runs[x].phase = "queued"
    <2>1. pool \in Pools /\ "spawn" \in {"spawn", "resume"}
      BY <1>5 DEF PoolFor, Pools
    <2> HIDE DEF x, pool
    <2>2. /\ pushed \in State /\ pushed.agents = s.agents /\ pushed.caller = s.caller
          /\ \A c \in Agents \ {x[1]} : Concludes(pushed, c)
          /\ \A y \in RunIds \ {x} : pushed.runs[y] = s.runs[y]
          /\ pushed.runs[x].phase = "queued"
          /\ pushed.rec[x[1]].status = "queued" /\ pushed.rec[x[1]].session = s.rec[x[1]].session
      BY <1>1, <1>3, <2>1, EnqueuedConcludes
    <2>3. x \notin pushed.runs[x].ahead
      <3>1. pushed.runs[x].ahead = Queue(s)
        BY <1>1, StateParts DEF pushed, Enqueued, WithStatus, State
      <3>2. QED
        BY <1>1, <3>1 DEF Queue
    <2> HIDE DEF pushed
    <2>4. Concludes(pushed, a)
      <3>1. ReEntered(pushed, a) <=> ReEntered(s, a)
        BY <2>2 DEF ReEntered, RunsOf, x
      <3>2. QED
        BY <1>1, <1>2, <2>2, <2>3, <3>1 DEF Concludes, x
    <2>5. QED
      BY <1>1, <2>2, <2>4 DEF Conclusive
  <1>6. started \in State /\ Conclusive(started) /\ started.runs[x].phase \in {"copying", "running"}
    <2> HIDE DEF x
    <2>1. /\ started \in State /\ started.agents = s.agents
          /\ \A c \in Agents \ {x[1]} : Concludes(started, c)
          /\ \A y \in RunIds \ {x} : started.runs[y] = s.runs[y]
          /\ started.runs[x].phase \in {"copying", "running"}
          /\ started.rec[x[1]].status = "running" /\ started.rec[x[1]].session = s.rec[x[1]].session
          /\ started.caller[x[1]] \in {"run", s.caller[x[1]]}
      BY <1>1, <1>3, AskedConcludes
    <2> HIDE DEF started
    <2>2. ReEntered(started, a) <=> ReEntered(s, a)
      BY <2>1 DEF ReEntered, RunsOf, x
    <2>3. Concludes(started, a)
      BY <1>1, <1>2, <2>1, <2>2 DEF Concludes, x
    <2>4. QED
      BY <1>1, <2>1, <2>3 DEF Conclusive
  <1>7. stopped \in State /\ Conclusive(stopped) /\ stopped.runs[x].phase \in {"copying", "running"}
    <2>1. started.runs[x].phase # "queued"
      BY <1>6
    <2> HIDE DEF started
    <2>2. QED
      BY <1>1, <1>6, <2>1, AbortedConcludes
  <1>8. \/ Spawned(s, a, o) = refused
        \/ pool # "none" /\ Spawned(s, a, o) = pushed
        \/ Spawned(s, a, o) = started
        \/ Spawned(s, a, o) = stopped
    <2> HIDE DEF refused, pushed, started, stopped
    <2>1. QED
      BY DEF Spawned, refused, pushed, started, stopped, d, X, x, pool
  <1> HIDE DEF refused, pushed, started, stopped
  <1>9. QED
    BY <1>4, <1>5, <1>6, <1>7, <1>8

\* A step that becomes a conclusive state, or drains one.
LEMMA BecomesConcludes ==
    ASSUME NEW STATE t, t \in State, Conclusive(t), Becomes(t) \/ DrainQueue(t)
    PROVE  Conclusive(Here')
  <1>1. CASE Becomes(t)
    BY <1>1, BecomesHere
  <1>2. CASE DrainQueue(t)
    <2>1. PICK gone \in SUBSET MayBeGone(t) : Becomes(Drained(t, gone))
      BY <1>2 DEF DrainQueue
    <2>2. Drained(t, gone) \in State /\ Conclusive(Drained(t, gone))
      BY DrainedFates, DrainedConcludes
    <2>3. QED
      BY <2>1, <2>2, BecomesHere
  <1>3. QED
    BY <1>1, <1>2

\* settleRun, with its drain.
LEMMA SettleRunConcludes ==
    ASSUME NEW STATE t, t \in State, Conclusive(t), NEW x \in RunIds,
           t.runs[x].phase \in {"running", "cleanup"},
           \A a \in Agents : x = <<a, 0>> => t.rec[a].status \in Terminal \/ ReEntered(t, a),
           SettleRun(t, x)
    PROVE  Conclusive(Here')
  <1>1. Settled(t, x) \in State /\ Conclusive(Settled(t, x))
    BY SettledConcludes
  <1>2. Becomes(Settled(t, x)) \/ DrainQueue(Settled(t, x))
    BY DEF SettleRun
  <1>3. QED
    BY <1>1, <1>2, BecomesConcludes

\* spawn and spawnAndWait: the record a caller gets at once is a stopped one.
LEMMA SpawnConcludes ==
    ASSUME IInv(Here), Conclusive(Here), NEW a \in Agents, NEW o \in SpawnOptions,
           NEW owner \in Agents \cup {NoOwner, Workflow}, Spawn(a, o, owner)
    PROVE  Conclusive(Here')
  <1> DEFINE i == Inserted(Here, a, o, owner)
             t == Spawned(i, a, o)
             w == Awaited(t, a)
             phase == t.runs[<<a, 0>>].phase
             c == CASE phase \in {"queued", "copying"} -> "start"
                    [] phase = "running" -> "run"
                    [] OTHER -> "returned"
             C == [t.caller EXCEPT ![a] = c]
  <1>1. i \in State /\ Conclusive(i) /\ a \in i.agents /\ i.runs[<<a, 0>>].phase = "idle"
    BY InsertedConcludes, HereParts DEF Spawn
  <1>2. Becomes(t) \/ Becomes(w)
    BY DEF Spawn
  <1> HIDE DEF i
  <1>3. /\ t \in State /\ Conclusive(t)
        /\ \/ phase \in {"queued", "copying", "running"}
           \/ phase = "dropped" /\ t.rec[a].status = "stopped"
    BY <1>1, SpawnedConcludes
  <1> HIDE DEF t
  <1>4. w = [t EXCEPT !.caller = C]
    BY DEF Awaited
  <1>5. c \in CallerStates /\ (c = "returned" => phase = "dropped" /\ t.rec[a].status = "stopped")
    BY <1>3 DEF CallerStates
  <1> HIDE DEF c
  <1>6. C \in [Agents -> CallerStates] /\ \A b \in Agents : C[b] = IF b = a THEN c ELSE t.caller[b]
    BY <1>3, <1>5, StateParts
  <1> HIDE DEF C, w
  <1>7. w \in State /\ w.agents = t.agents /\ w.rec = t.rec /\ w.runs = t.runs /\ w.caller = C
    BY <1>3, <1>4, <1>6 DEF State
  <1>8. ASSUME NEW b \in Agents PROVE Concludes(w, b)
    <2>1. Concludes(t, b) /\ (ReEntered(w, b) <=> ReEntered(t, b))
      BY <1>3, <1>7 DEF Conclusive, ReEntered
    <2>2. QED
      BY <1>5, <1>6, <1>7, <2>1 DEF Concludes
  <1>9. QED
    BY <1>2, <1>3, <1>7, <1>8, BecomesConcludes DEF Conclusive

\* A copy is made: its caller now waits for the run; a copy whose agent was stopped
\* is discarded, and its caller waits for that.
LEMMA CopyDoneConcludes ==
    ASSUME IInv(Here), Conclusive(Here), NEW a \in Agents, NEW esc \in BOOLEAN, CopyDone(a, esc)
    PROVE  Conclusive(Here')
  <1> DEFINE x == <<a, 0>>
             l == InPhase(Here, x, "running")
             C == [caller EXCEPT ![a] = IF @ = "start" THEN "run" ELSE @]
             launched == [l EXCEPT !.caller = C]
             stopped == Aborted(launched, {a})
             g == InPhase(Here, x, "discarding")
             freed == Released(g, runs[x].pool)
  <1>1. /\ Here \in State /\ x \in RunIds /\ x[1] = a /\ Here.runs[x].phase = "copying"
        /\ "running" \in Phases /\ "discarding" \in Phases /\ Concludes(Here, a)
    BY RunIdParts, HereParts DEF IInv, CopyDone, Phases, Conclusive
  <1>2. /\ l \in State /\ l.agents = Here.agents /\ l.rec = Here.rec
        /\ \A y \in RunIds \ {x} : l.runs[y] = Here.runs[y]
        /\ l.runs[x].phase = "running"
    BY <1>1, InPhaseFacts
  <1>3. /\ g \in State /\ g.agents = Here.agents /\ g.rec = Here.rec /\ g.caller = Here.caller
        /\ \A y \in RunIds \ {x} : g.runs[y] = Here.runs[y]
        /\ g.runs[x].phase = "discarding"
    BY <1>1, InPhaseFacts
  <1> HIDE DEF l, g
  <1>4. C \in [Agents -> CallerStates] /\ \A c \in Agents : C[c] = Here.caller[c] \/ C[c] = "run"
    BY <1>1, HereParts, StateParts DEF CallerStates
  <1>5. Becomes(launched) \/ Becomes(stopped) \/ (Becomes(freed) /\ rec[a].status # "running")
    BY DEF CopyDone, l, g
  <1> HIDE DEF C
  <1>6. /\ launched \in State /\ launched.agents = Here.agents /\ launched.rec = Here.rec
        /\ launched.runs = l.runs /\ launched.caller = C
    BY <1>2, <1>4 DEF State
  <1> HIDE DEF launched
  <1>7. /\ freed \in State /\ freed.agents = Here.agents /\ freed.rec = Here.rec
        /\ freed.runs = g.runs /\ freed.caller = Here.caller
    BY <1>3, ReleasedFacts
  <1> HIDE DEF freed, x
  <1>8. ASSUME NEW t, t = launched \/ t = freed
        PROVE  /\ \A c \in Agents : ReEntered(t, c) <=> ReEntered(Here, c)
               /\ \A c \in Agents \ {a} : Concludes(t, c)
    <2>1. ASSUME NEW y \in RunIds, y # x PROVE t.runs[y] = Here.runs[y]
      BY <1>2, <1>3, <1>6, <1>7, <1>8, <2>1
    <2>2. /\ t.agents = Here.agents /\ t.rec = Here.rec
          /\ \A c \in Agents : t.caller[c] = "returned" => Here.caller[c] = "returned"
      BY <1>4, <1>6, <1>7, <1>8
    <2>3. ASSUME NEW c \in Agents PROVE ReEntered(t, c) <=> ReEntered(Here, c)
      <3>1. \A y \in RunsOf(c) \ {<<c, 0>>} : y \in RunIds /\ y # x
        BY DEF RunsOf, x
      <3>2. QED
        BY <2>1, <3>1 DEF ReEntered
    <2>4. ASSUME NEW c \in Agents \ {a} PROVE Concludes(t, c)
      <3>1. <<c, 0>> \in RunIds /\ <<c, 0>> # x
        BY RunIdParts DEF x
      <3>2. SameFate(Here, t, c)
        BY <2>1, <2>2, <2>3, <3>1 DEF SameFate
      <3>3. QED
        BY <3>2, FateConcludes DEF Conclusive
    <2>5. QED
      BY <2>3, <2>4
  <1>9. Conclusive(launched)
    <2>1. Concludes(launched, a)
      BY <1>1, <1>2, <1>4, <1>6 DEF Concludes, x, Early
    <2>2. QED
      BY <1>8, <2>1 DEF Conclusive
  <1>10. ASSUME rec[a].status # "running" PROVE Conclusive(freed)
    <2>1. Here.rec[a].status = "stopped"
      BY <1>1, <1>10, HereParts DEF Concludes, x
    <2>2. Concludes(freed, a)
      BY <1>1, <1>3, <1>7, <1>8, <2>1 DEF Concludes, x, Early
    <2>3. QED
      BY <1>8, <2>2 DEF Conclusive
  <1>11. stopped \in State /\ Conclusive(stopped)
    BY <1>6, <1>9, AbortedConcludes
  <1> HIDE DEF stopped
  <1>12. QED
    BY <1>5, <1>6, <1>7, <1>9, <1>10, <1>11, BecomesConcludes

\* The spawn of an agent that never ran is over: it was dropped from its startup.
LEMMA DroppedConcludes ==
    ASSUME NEW s \in State, Conclusive(s), NEW a \in Agents, NEW result \in {"returned", "threw"},
           s.runs[<<a, 0>>].phase \in {"copying", "discarding"},
           result = "returned" => s.rec[a].status = "stopped"
    PROVE  LET t == Dropped(s, {<<a, 0>>}, result) IN
           /\ t \in State /\ Conclusive(t) /\ t.agents = s.agents /\ t.rec = s.rec
           /\ t.runs[<<a, 0>>].phase = "dropped" /\ (t.caller[a] # "returned" \/ result = "returned")
  <1> DEFINE X == {<<a, 0>>}
             t == Dropped(s, X, result)
  <1>1. /\ X \in SUBSET RunIds /\ result \in CallerStates /\ \A y : y \in X <=> y = <<a, 0>>
        /\ <<a, 0>> \in RunIds
    BY RunIdParts DEF CallerStates
  <1> HIDE DEF X
  <1>2. /\ t \in State /\ t.agents = s.agents /\ t.rec = s.rec
        /\ \A x \in RunIds \ X : t.runs[x] = s.runs[x]
        /\ \A x \in X : t.runs[x].phase = "dropped"
        /\ \A c \in Agents : t.caller[c] = IF <<c, 0>> \in X /\ s.caller[c] = "start"
                                           THEN result ELSE s.caller[c]
    BY <1>1, DroppedFacts
  <1> HIDE DEF t
  <1>3. ASSUME NEW c \in Agents PROVE Concludes(t, c)
    <2>1. /\ <<c, 0>> \in RunIds /\ \A y \in RunsOf(c) \ {<<c, 0>>} : y \in RunIds \ X
          /\ Concludes(s, c)
      BY <1>1, RunIdParts DEF RunsOf, Conclusive
    <2>2. ReEntered(t, c) <=> ReEntered(s, c)
      BY <1>2, <2>1 DEF ReEntered
    <2>3. CASE c = a
      BY <1>1, <1>2, <2>1, <2>2, <2>3 DEF Concludes, Early
    <2>4. CASE c # a
      <3>1. SameFate(s, t, c)
        BY <1>1, <1>2, <2>1, <2>2, <2>4 DEF SameFate
      <3>2. QED
        BY <2>1, <3>1, FateConcludes
    <2>5. QED
      BY <2>3, <2>4
  <1>4. s.caller[a] # "returned"
    BY DEF Conclusive, Concludes
  <1>5. t.runs[<<a, 0>>].phase = "dropped" /\ (t.caller[a] # "returned" \/ result = "returned")
    BY <1>1, <1>2, <1>4
  <1>6. QED
    BY <1>2, <1>3, <1>5 DEF Conclusive, t, X

\* A failed copy: the caller sees the throw.
LEMMA CopyFailedConcludes ==
    ASSUME IInv(Here), Conclusive(Here), NEW a \in Agents, CopyFailed(a)
    PROVE  Conclusive(Here')
  <1> DEFINE x == <<a, 0>>
             d == Dropped(Here, {x}, "threw")
             freed == Released(d, runs[x].pool)
             failed == WithStatus(freed, {a}, "error")
             A == agents \ {a}
             gone == [freed EXCEPT !.agents = A]
  <1>1. Here \in State /\ "error" \in Statuses /\ A \in SUBSET Agents /\ Here.agents = agents
    BY HereParts, StateParts DEF IInv, Statuses
  <1>2. /\ d \in State /\ Conclusive(d) /\ d.agents = Here.agents
        /\ d.runs[x].phase = "dropped" /\ d.caller[a] # "returned"
    BY <1>1, DroppedConcludes, HereParts DEF CopyFailed
  <1> HIDE DEF d
  <1>3. DrainQueue(failed) \/ DrainQueue(gone)
    BY DEF CopyFailed, d
  <1>4. /\ freed \in State /\ freed.agents = d.agents /\ freed.rec = d.rec /\ freed.runs = d.runs
        /\ freed.caller = d.caller
    BY <1>2, ReleasedFacts
  <1> HIDE DEF freed
  <1>5. /\ failed \in State /\ failed.agents = freed.agents /\ failed.runs = freed.runs
        /\ failed.caller = freed.caller
        /\ \A c \in Agents : /\ failed.rec[c].status = IF c \in {a} THEN "error" ELSE freed.rec[c].status
                             /\ failed.rec[c].session = freed.rec[c].session
    BY <1>1, <1>4, WithStatusFacts
  <1> HIDE DEF failed
  <1>6. /\ gone \in State /\ gone.agents = A /\ gone.rec = freed.rec /\ gone.runs = freed.runs
        /\ gone.caller = freed.caller
    BY <1>1, <1>4 DEF State
  <1> HIDE DEF gone
  <1>7. ASSUME NEW t, t = failed \/ t = gone PROVE Conclusive(t)
    <2> SUFFICES ASSUME NEW c \in Agents PROVE Concludes(t, c)
      BY DEF Conclusive
    <2>1. Concludes(d, c) /\ (ReEntered(t, c) <=> ReEntered(d, c))
      BY <1>2, <1>4, <1>5, <1>6, <1>7 DEF Conclusive, ReEntered
    <2>2. CASE c = a
      BY <1>2, <1>4, <1>5, <1>6, <1>7, <2>1, <2>2 DEF Concludes
    <2>3. CASE c # a
      <3>1. SameFate(d, t, c)
        BY <1>1, <1>2, <1>4, <1>5, <1>6, <1>7, <2>1, <2>3 DEF SameFate
      <3>2. QED
        BY <2>1, <3>1, FateConcludes
    <2>4. QED
      BY <2>2, <2>3
  <1>8. QED
    BY <1>3, <1>5, <1>6, <1>7, BecomesConcludes

\* The end of a discard: the caller gets the stopped record.
LEMMA DiscardDoneConcludes ==
    ASSUME IInv(Here), Conclusive(Here), NEW a \in Agents, DiscardDone(a)
    PROVE  Conclusive(Here')
  <1> DEFINE d == Dropped(Here, {<<a, 0>>}, "returned")
  <1>1. Here \in State /\ Here.runs[<<a, 0>>].phase = "discarding"
    BY HereParts DEF IInv, DiscardDone
  <1>2. Here.rec[a].status = "stopped"
    BY <1>1 DEF Conclusive, Concludes
  <1>3. d \in State /\ Conclusive(d)
    BY <1>1, <1>2, DroppedConcludes
  <1>4. DrainQueue(d)
    BY DEF DiscardDone
  <1> HIDE DEF d
  <1>5. QED
    BY <1>3, <1>4, BecomesConcludes

\* An agent gets its session, or is found without one.
LEMMA SessionFacts ==
    ASSUME NEW s \in State, NEW a \in Agents, NEW got \in BOOLEAN
    PROVE  LET t == [s EXCEPT !.rec = [s.rec EXCEPT ![a].session = got]] IN
           /\ t \in State /\ t.agents = s.agents /\ t.runs = s.runs /\ t.caller = s.caller
           /\ \A c \in Agents : /\ t.rec[c].status = s.rec[c].status
                                /\ t.rec[c].session = IF c = a THEN got ELSE s.rec[c].session
  <1> DEFINE R == [s.rec EXCEPT ![a].session = got]
             t == [s EXCEPT !.rec = R]
  <1>1. s.rec \in [Agents -> AgentRecord]
    BY StateParts
  <1>2. /\ R \in [Agents -> AgentRecord]
        /\ \A c \in Agents : /\ R[c].status = s.rec[c].status
                             /\ R[c].session = IF c = a THEN got ELSE s.rec[c].session
    BY <1>1 DEF AgentRecord
  <1> HIDE DEF R
  <1>3. t \in State /\ t.agents = s.agents /\ t.rec = R /\ t.runs = s.runs /\ t.caller = s.caller
    BY <1>2 DEF State
  <1> HIDE DEF t
  <1>4. QED
    BY <1>2, <1>3 DEF t, R

\* onSessionCreated: the spawn runs.
LEMMA SessionCreatedConcludes ==
    ASSUME IInv(Here), Conclusive(Here), NEW a \in Agents, SessionCreated(a)
    PROVE  Conclusive(Here')
  <1> DEFINE t == [Here EXCEPT !.rec = [Here.rec EXCEPT ![a].session = TRUE]]
  <1>1. Here \in State /\ Here.runs[<<a, 0>>].phase = "running"
    BY HereParts DEF IInv, SessionCreated
  <1>2. /\ t \in State /\ t.agents = Here.agents /\ t.runs = Here.runs /\ t.caller = Here.caller
        /\ \A c \in Agents : /\ t.rec[c].status = Here.rec[c].status
                             /\ t.rec[c].session = IF c = a THEN TRUE ELSE Here.rec[c].session
    BY <1>1, SessionFacts
  <1>3. Becomes(t)
    BY HereParts DEF SessionCreated
  <1> HIDE DEF t
  <1>4. ASSUME NEW c \in Agents PROVE Concludes(t, c)
    <2>1. Concludes(Here, c) /\ (ReEntered(t, c) <=> ReEntered(Here, c))
      BY <1>2 DEF Conclusive, ReEntered
    <2>2. QED
      BY <1>1, <1>2, <2>1 DEF Concludes, Early
  <1>5. QED
    BY <1>2, <1>3, <1>4, BecomesConcludes DEF Conclusive

\* The end of a run leaves a finished record; a stop stays a stop.
LEMMA EndedConcludes ==
    ASSUME NEW s \in State, Conclusive(s), NEW x \in RunIds, s.runs[x].phase = "running",
           NEW outcome \in {"completed", "error"}
    PROVE  LET t == Ended(s, x, outcome) IN
           t \in State /\ Conclusive(t) /\ t.runs = s.runs /\ t.rec[x[1]].status \in Terminal
  <1> DEFINE a == x[1]
             keeps == s.rec[a].status = "stopped" /\ s.runs[x].kind # "inline"
             got == s.rec[a].session \/ (s.runs[x].kind = "spawn" /\ outcome = "completed")
             S == IF keeps THEN {} ELSE {a}
             w == WithStatus(s, S, outcome)
             t == [w EXCEPT !.rec = [w.rec EXCEPT ![a].session = got]]
  <1>1. /\ a \in Agents /\ got \in BOOLEAN /\ outcome \in Statuses /\ outcome \in Terminal
        /\ "stopped" \in Terminal
        /\ a \notin S => s.rec[a].status = "stopped"
        /\ \A c \in Agents \ {a} : c \notin S
    BY RunIdParts DEF Statuses, Terminal
  <1>2. Ended(s, x, outcome) = [w EXCEPT !.rec[a].session = got]
    BY DEF Ended
  <1> HIDE DEF got, S
  <1>3. /\ w \in State /\ w.agents = s.agents /\ w.runs = s.runs /\ w.caller = s.caller
        /\ \A c \in Agents : /\ w.rec[c].status = IF c \in S THEN outcome ELSE s.rec[c].status
                             /\ w.rec[c].session = s.rec[c].session
    BY <1>1, WithStatusFacts
  <1> HIDE DEF w, a
  <1>4. [w EXCEPT !.rec[a].session = got] = t
    BY <1>3 DEF State
  <1>5. /\ t \in State /\ t.agents = w.agents /\ t.runs = w.runs /\ t.caller = w.caller
        /\ \A c \in Agents : /\ t.rec[c].status = w.rec[c].status
                             /\ t.rec[c].session = IF c = a THEN got ELSE w.rec[c].session
    BY <1>1, <1>3, SessionFacts
  <1> HIDE DEF t
  <1>6. \A c \in Agents : ReEntered(t, c) <=> ReEntered(s, c)
    BY <1>3, <1>5 DEF ReEntered
  <1>7. t.rec[a].status \in Terminal
    BY <1>1, <1>3, <1>5
  <1>8. Concludes(t, a)
    <2>1. Concludes(s, a)
      BY <1>1 DEF Conclusive
    <2>2. s.runs[<<a, 0>>].phase = "running" \/ ReEntered(s, a)
      <3>1. CASE x = <<a, 0>>
        BY <3>1
      <3>2. CASE x # <<a, 0>>
        BY <3>2 DEF ReEntered, RunsOf, a
      <3>3. QED
        BY <3>1, <3>2
    <2>3. t.runs[<<a, 0>>] = s.runs[<<a, 0>>] /\ t.caller[a] = s.caller[a] /\ (ReEntered(t, a) <=> ReEntered(s, a))
      BY <1>1, <1>3, <1>5, <1>6
    <2>4. QED
      BY <1>7, <2>1, <2>2, <2>3 DEF Concludes, Early
  <1>9. ASSUME NEW c \in Agents \ {a} PROVE Concludes(t, c)
    <2>1. SameFate(s, t, c)
      BY <1>1, <1>3, <1>5, <1>6 DEF SameFate
    <2>2. QED
      BY <2>1, FateConcludes DEF Conclusive
  <1>10. QED
    BY <1>2, <1>3, <1>4, <1>5, <1>7, <1>8, <1>9 DEF Conclusive, a

\* The end of a run, with and without a worktree.
LEMMA RunEndsConcludes ==
    ASSUME IInv(Here), Conclusive(Here), NEW x \in RunIds, NEW outcome \in {"completed", "error"},
           RunEnds(x, outcome)
    PROVE  Conclusive(Here')
  <1> DEFINE e == Ended(Here, x, outcome)
             t == InPhase(e, x, "cleanup")
  <1>1. Here \in State /\ Here.runs[x].phase = "running"
    BY HereParts DEF IInv, RunEnds
  <1>2. /\ e \in State /\ Conclusive(e) /\ e.runs = Here.runs /\ e.rec[x[1]].status \in Terminal
    BY <1>1, EndedConcludes
  <1>3. Becomes(t) \/ SettleRun(e, x)
    BY DEF RunEnds
  <1> HIDE DEF e
  <1>4. \A a \in Agents : x = <<a, 0>> => e.rec[a].status \in Terminal
    BY <1>2
  <1>5. t \in State /\ Conclusive(t)
    <2>1. "cleanup" \in Phases
      BY DEF Phases
    <2>2. /\ t \in State /\ t.agents = e.agents /\ t.rec = e.rec /\ t.caller = e.caller
          /\ \A y \in RunIds \ {x} : t.runs[y] = e.runs[y]
          /\ t.runs[x].phase = "cleanup"
      BY <1>2, <2>1, InPhaseFacts
    <2> HIDE DEF t
    <2>3. \A y \in RunIds : t.runs[y].phase = "idle" <=> e.runs[y].phase = "idle"
      BY <1>1, <1>2, <2>2
    <2>4. ASSUME NEW a \in Agents PROVE Concludes(t, a)
      <3>1. <<a, 0>> \in RunIds /\ Concludes(e, a)
        BY <1>2, RunIdParts DEF Conclusive
      <3>2. ReEntered(t, a) <=> ReEntered(e, a)
        BY <2>3, ReEnteredSame DEF RunsOf
      <3>3. CASE x = <<a, 0>>
        BY <1>1, <1>2, <1>4, <2>2, <3>1, <3>2, <3>3 DEF Concludes, Early
      <3>4. CASE x # <<a, 0>>
        <4>1. SameFate(e, t, a)
          BY <2>2, <3>1, <3>2, <3>4 DEF SameFate
        <4>2. QED
          BY <3>1, <4>1, FateConcludes
      <3>5. QED
        BY <3>3, <3>4
    <2>5. QED
      BY <2>2, <2>4 DEF Conclusive
  <1> HIDE DEF t
  <1>6. e.runs[x].phase \in {"running", "cleanup"}
    BY <1>1, <1>2
  <1>7. QED
    BY <1>2, <1>3, <1>4, <1>5, <1>6, BecomesConcludes, SettleRunConcludes

\* The end of a run's cleanup.
LEMMA CleanupDoneConcludes ==
    ASSUME IInv(Here), Conclusive(Here), NEW a \in Agents, CleanupDone(a)
    PROVE  Conclusive(Here')
  <1>1. /\ Here \in State /\ <<a, 0>> \in RunIds /\ Here.runs[<<a, 0>>].phase = "cleanup"
        /\ SettleRun(Here, <<a, 0>>)
    BY RunIdParts, HereParts DEF IInv, CleanupDone
  <1>2. \A b \in Agents : <<a, 0>> = <<b, 0>> => Here.rec[b].status \in Terminal \/ ReEntered(Here, b)
    BY <1>1 DEF Conclusive, Concludes
  <1>3. QED
    BY <1>1, <1>2, SettleRunConcludes

\* resume() in the background re-enters an agent whose spawn has run.
LEMMA ResumeBackgroundConcludes ==
    ASSUME IInv(Here), Conclusive(Here), NEW a \in Agents, NEW k \in 1..MaxResumes,
           ResumeBackground(a, k)
    PROVE  Conclusive(Here')
  <1> DEFINE x == <<a, k>>
             R == [rec EXCEPT ![a].isBackground = TRUE, ![a].status = "queued"]
             u == [Here EXCEPT !.rec = R]
             pushed == Enqueued(u, x, "resume", "background")
             started == Started(Requested(u, x, "resume"), {x})
  <1>1. /\ x \in RunIds /\ x[1] = a /\ x # <<a, 0>> /\ x \in RunsOf(a) /\ Here.runs[x].phase = "idle"
        /\ "background" \in Pools /\ <<a, 0>> \in RunIds
    BY HereParts, ConstantsAssumption DEF ResumeBackground, NextRun, RunIds, RunsOf, Pools
  <1>2. Here \in State /\ rec \in [Agents -> AgentRecord] /\ rec[a].session
    BY HereParts, StateParts DEF IInv, ResumeBackground
  <1>3. R \in [Agents -> AgentRecord] /\ \A b \in Agents \ {a} : R[b] = rec[b]
    BY <1>2 DEF AgentRecord, Statuses
  <1>4. Becomes(pushed) \/ Becomes(started)
    BY DEF ResumeBackground
  <1> HIDE DEF R
  <1>5. /\ u \in State /\ u.agents = Here.agents /\ u.rec = R /\ u.runs = Here.runs
        /\ u.caller = Here.caller
    BY <1>2, <1>3 DEF State
  <1> HIDE DEF u, x
  <1>6. \A c \in Agents \ {x[1]} : Concludes(u, c)
    <2> SUFFICES ASSUME NEW c \in Agents \ {a} PROVE Concludes(u, c)
      BY <1>1
    <2>1. SameFate(Here, u, c)
      BY <1>3, <1>5, HereParts DEF SameFate, ReEntered
    <2>2. QED
      BY <2>1, FateConcludes DEF Conclusive
  <1>7. /\ pushed \in State /\ pushed.caller = Here.caller
        /\ \A c \in Agents \ {x[1]} : Concludes(pushed, c)
        /\ \A y \in RunIds \ {x} : pushed.runs[y] = Here.runs[y]
        /\ pushed.runs[x].phase = "queued"
    BY <1>1, <1>5, <1>6, EnqueuedConcludes
  <1>8. /\ started \in State
        /\ \A c \in Agents \ {x[1]} : Concludes(started, c)
        /\ \A y \in RunIds \ {x} : started.runs[y] = Here.runs[y]
        /\ started.runs[x].phase \in {"copying", "running"}
        /\ started.caller[x[1]] \in {"run", Here.caller[x[1]]}
    <2>1. u \in State /\ x \in RunIds /\ u.runs[x].phase = "idle" /\ "resume" \in {"spawn", "resume", "inline"}
      BY <1>1, <1>5
    <2>2. /\ started \in State /\ started.agents = u.agents
          /\ \A c \in Agents \ {x[1]} : Concludes(started, c)
          /\ \A y \in RunIds \ {x} : started.runs[y] = u.runs[y]
          /\ started.runs[x].phase \in {"copying", "running"}
          /\ started.rec[x[1]].status = "running" /\ started.rec[x[1]].session = u.rec[x[1]].session
          /\ started.caller[x[1]] \in {"run", u.caller[x[1]]}
      BY <1>6, <2>1, AskedConcludes
    <2> HIDE DEF started
    <2>3. QED
      BY <1>5, <2>2
  <1> HIDE DEF pushed, started
  <1>9. ASSUME NEW t, t = pushed \/ t = started PROVE Conclusive(t)
    <2>1. /\ ReEntered(t, a) /\ t.runs[<<a, 0>>].phase = Here.runs[<<a, 0>>].phase
          /\ t.caller[a] = "returned" => Here.caller[a] = "returned"
      BY <1>1, <1>7, <1>8, <1>9 DEF ReEntered
    <2>2. Concludes(Here, a) /\ Here.rec[a].session
      BY <1>2, HereParts DEF Conclusive
    <2>3. Concludes(t, a)
      BY <2>1, <2>2, ReEntryConcludes
    <2>4. QED
      BY <1>1, <1>7, <1>8, <1>9, <2>3 DEF Conclusive
  <1>10. QED
    BY <1>4, <1>7, <1>8, <1>9, BecomesConcludes

\* A foreground resume does, too.
LEMMA ResumeInlineConcludes ==
    ASSUME IInv(Here), Conclusive(Here), NEW a \in Agents, NEW k \in 1..MaxResumes,
           ResumeInline(a, k)
    PROVE  Conclusive(Here')
  <1> DEFINE x == <<a, k>>
             t == Started(Requested(Here, x, "inline"), {x})
  <1>1. /\ x \in RunIds /\ x[1] = a /\ x # <<a, 0>> /\ x \in RunsOf(a) /\ Here.runs[x].phase = "idle"
        /\ <<a, 0>> \in RunIds /\ Here \in State /\ Here.rec[a].session
    BY HereParts, ConstantsAssumption DEF ResumeInline, NextRun, RunIds, RunsOf, IInv
  <1>2. Becomes(t)
    BY DEF ResumeInline
  <1>3. \A c \in Agents : Concludes(Here, c)
    BY DEF Conclusive
  <1> HIDE DEF x
  <1>4. /\ t \in State
        /\ \A c \in Agents \ {x[1]} : Concludes(t, c)
        /\ \A y \in RunIds \ {x} : t.runs[y] = Here.runs[y]
        /\ t.runs[x].phase \in {"copying", "running"}
        /\ t.caller[x[1]] \in {"run", Here.caller[x[1]]}
    BY <1>1, <1>3, AskedConcludes
  <1> HIDE DEF t
  <1>5. /\ ReEntered(t, a) /\ t.runs[<<a, 0>>].phase = Here.runs[<<a, 0>>].phase
        /\ t.caller[a] = "returned" => Here.caller[a] = "returned"
    BY <1>1, <1>4 DEF ReEntered
  <1>6. Concludes(t, a)
    BY <1>1, <1>3, <1>5, ReEntryConcludes
  <1>7. QED
    BY <1>1, <1>2, <1>4, <1>6, BecomesConcludes DEF Conclusive

\* Eviction takes finished records only; a change of a limit drains.
LEMMA SettingsConclude ==
    ASSUME IInv(Here), Conclusive(Here),
           \/ \E S \in SUBSET Agents : Evict(S)
           \/ \E n \in BgLimits : SetMaxConcurrent(n)
           \/ \E n \in FgLimits : SetMaxConcurrentForeground(n)
    PROVE  Conclusive(Here')
  <1>1. Here \in State /\ rec \in [Agents -> AgentRecord] /\ agents \in SUBSET Agents
    BY HereParts, StateParts DEF IInv
  <1>2. ASSUME NEW S \in SUBSET Agents, Evict(S) PROVE Conclusive(Here')
    <2> DEFINE A == agents \ S
               R == [a \in Agents |-> IF a \in S THEN [rec[a] EXCEPT !.session = FALSE] ELSE rec[a]]
               u == [Here EXCEPT !.agents = A, !.rec = R]
    <2>1. /\ A \in SUBSET Agents /\ R \in [Agents -> AgentRecord]
          /\ \A a \in Agents : R[a].status = rec[a].status /\ (R[a].session => rec[a].session)
      BY <1>1 DEF AgentRecord
    <2>2. Becomes(u)
      BY <1>2 DEF Evict
    <2>3. \A a \in agents : rec[a].status \in Active => a \in A
      BY <1>2 DEF Evict
    <2> HIDE DEF A, R
    <2>4. u \in State /\ u.agents = A /\ u.rec = R /\ u.runs = Here.runs /\ u.caller = Here.caller
      BY <1>1, <2>1 DEF State
    <2> HIDE DEF u
    <2>5. ASSUME NEW a \in Agents PROVE Concludes(u, a)
      <3>1. Concludes(Here, a)
        BY DEF Conclusive
      <3>2. Here.runs[<<a, 0>>].phase = "queued" => a \in A
        BY <2>3, <3>1, HereParts DEF Concludes, Active
      <3>3. SameFate(Here, u, a)
        BY <2>1, <2>4, <3>2, HereParts DEF SameFate, ReEntered
      <3>4. QED
        BY <3>1, <3>3, FateConcludes
    <2>6. QED
      BY <2>2, <2>4, <2>5, BecomesConcludes DEF Conclusive
  <1>3. ASSUME NEW u, u \in State, u.agents = Here.agents, u.rec = Here.rec, u.runs = Here.runs,
               u.caller = Here.caller
        PROVE  Conclusive(u)
    <2>1. \A a \in Agents : SameFate(Here, u, a)
      BY <1>3 DEF SameFate, ReEntered
    <2>2. QED
      BY <2>1, FateConcludes DEF Conclusive
  <1>4. ASSUME NEW n \in BgLimits, SetMaxConcurrent(n) PROVE Conclusive(Here')
    <2> DEFINE u == [Here EXCEPT !.bgLimit = n]
    <2>1. /\ u \in State /\ u.agents = Here.agents /\ u.rec = Here.rec /\ u.runs = Here.runs
          /\ u.caller = Here.caller
      BY <1>1, ConstantsAssumption DEF State
    <2>2. DrainQueue(u)
      BY <1>4 DEF SetMaxConcurrent
    <2> HIDE DEF u
    <2>3. QED
      BY <1>3, <2>1, <2>2, BecomesConcludes
  <1>5. ASSUME NEW n \in FgLimits, SetMaxConcurrentForeground(n) PROVE Conclusive(Here')
    <2> DEFINE u == [Here EXCEPT !.fgLimit = n]
    <2>1. /\ u \in State /\ u.agents = Here.agents /\ u.rec = Here.rec /\ u.runs = Here.runs
          /\ u.caller = Here.caller
      BY <1>1, ConstantsAssumption DEF State
    <2>2. DrainQueue(u)
      BY <1>5 DEF SetMaxConcurrentForeground
    <2> HIDE DEF u
    <2>3. QED
      BY <1>3, <2>1, <2>2, BecomesConcludes
  <1>6. QED
    BY <1>2, <1>4, <1>5

\* A shutdown stops every queued agent before it releases its caller.
LEMMA ShutdownConcludes ==
    ASSUME IInv(Here), Conclusive(Here), Shutdown
    PROVE  Conclusive(Here')
  <1> DEFINE X == Queue(Here)
             hit == {a \in agents : rec[a].status = "running" \/ \E x \in X : x[1] = a}
             d == Dropped(Here, X, "returned")
             w == WithStatus(d, hit, "stopped")
             u == [w EXCEPT !.agents = {}, !.open = FALSE]
  <1>1. /\ Here \in State /\ X \in SUBSET RunIds /\ "returned" \in CallerStates
        /\ "stopped" \in Statuses /\ "stopped" \in Terminal
        /\ \A x \in RunIds : x \in X <=> Here.runs[x].phase = "queued"
    BY DEF IInv, Queue, CallerStates, Statuses, Terminal
  <1>2. Becomes(u)
    BY DEF Shutdown
  <1>3. \A a \in Agents : a \in agents /\ <<a, 0>> \in X => a \in hit
    <2> SUFFICES ASSUME NEW a \in agents, <<a, 0>> \in X PROVE \E x \in X : x[1] = a
      OBVIOUS
    <2>1. (<<a, 0>>)[1] = a
      OBVIOUS
    <2>2. QED
      BY <2>1
  <1> HIDE DEF X, hit
  <1>4. /\ d \in State /\ d.rec = Here.rec
        /\ \A x \in RunIds \ X : d.runs[x] = Here.runs[x]
        /\ \A x \in X : d.runs[x].phase = "dropped"
        /\ \A a \in Agents : d.caller[a] = IF <<a, 0>> \in X /\ Here.caller[a] = "start"
                                           THEN "returned" ELSE Here.caller[a]
    <2>1. Here \in State /\ X \in SUBSET RunIds /\ "returned" \in CallerStates
      BY <1>1
    <2>2. QED
      BY <2>1, DroppedFacts
  <1> HIDE DEF d
  <1>5. /\ w \in State /\ w.runs = d.runs /\ w.caller = d.caller
        /\ \A a \in Agents : /\ w.rec[a].status = IF a \in hit THEN "stopped" ELSE d.rec[a].status
                             /\ w.rec[a].session = d.rec[a].session
    BY <1>1, <1>4, WithStatusFacts
  <1> HIDE DEF w
  <1>6. u \in State /\ u.rec = w.rec /\ u.runs = w.runs /\ u.caller = w.caller
    BY <1>5 DEF State
  <1> HIDE DEF u
  <1>7. \A x \in RunIds : u.runs[x].phase = "idle" <=> Here.runs[x].phase = "idle"
    BY <1>1, <1>4, <1>5, <1>6
  <1>8. ASSUME NEW a \in Agents PROVE Concludes(u, a)
    <2>1. <<a, 0>> \in RunIds /\ Concludes(Here, a)
      BY RunIdParts DEF Conclusive
    <2>2. ReEntered(u, a) <=> ReEntered(Here, a)
      BY <1>7, ReEnteredSame DEF RunsOf
    <2>3. /\ u.rec[a].status = IF a \in hit THEN "stopped" ELSE Here.rec[a].status
          /\ u.rec[a].session = Here.rec[a].session
      BY <1>4, <1>5, <1>6
    <2>4. CASE <<a, 0>> \in X
      <3>1. Here.runs[<<a, 0>>].phase = "queued" /\ a \in hit
        BY <1>1, <1>3, <2>1, <2>4, HereParts DEF Concludes
      <3>2. u.runs[<<a, 0>>].phase = "dropped" /\ u.rec[a].status = "stopped"
        BY <1>4, <1>5, <1>6, <2>3, <2>4, <3>1
      <3>3. QED
        BY <2>1, <2>2, <2>3, <3>1, <3>2 DEF Concludes, Early
    <2>5. CASE <<a, 0>> \notin X
      <3>1. /\ Here.runs[<<a, 0>>].phase # "queued" /\ u.runs[<<a, 0>>] = Here.runs[<<a, 0>>]
            /\ u.caller[a] = Here.caller[a]
        BY <1>1, <1>4, <1>5, <1>6, <2>1, <2>5
      <3>2. QED
        BY <1>1, <2>1, <2>2, <2>3, <3>1 DEF Concludes
    <2>6. QED
      BY <2>4, <2>5
  <1>9. QED
    BY <1>2, <1>6, <1>8, BecomesConcludes DEF Conclusive

\* Every step keeps the spawns on their way to an end their callers can be handed.
LEMMA NextConcludes ==
    ASSUME IInv(Here), Conclusive(Here), [Next]_vars
    PROVE  Conclusive(Here')
  <1>1. ASSUME NEW a \in Agents, NEW o \in Options, NEW owner \in Owners(o), Spawn(a, o, owner)
        PROVE  Conclusive(Here')
    <2>1. o \in SpawnOptions
      BY ConstantsAssumption
    <2>2. agents \in SUBSET Agents
      BY HereParts, StateParts DEF IInv
    <2>3. owner \in Agents \cup {NoOwner, Workflow}
      <3>1. CASE o.owner = "none"
        BY <1>1, <3>1 DEF Owners
      <3>2. CASE o.owner # "none" /\ o.owner = "workflow"
        BY <1>1, <3>2 DEF Owners
      <3>3. CASE o.owner # "none" /\ o.owner # "workflow"
        BY <1>1, <2>2, <3>3 DEF Owners
      <3>4. QED
        BY <3>1, <3>2, <3>3
    <2>4. QED
      BY <1>1, <2>1, <2>3, SpawnConcludes
  <1>2. ASSUME NEW a \in Agents, Abort(a) PROVE Conclusive(Here')
    <2> DEFINE t == Aborted(Here, {a})
    <2>1. t \in State /\ Conclusive(t)
      BY AbortedConcludes DEF IInv
    <2>2. Becomes(t)
      BY <1>2 DEF Abort
    <2> HIDE DEF t
    <2>3. QED
      BY <2>1, <2>2, BecomesConcludes
  <1>3. CASE Request
    BY <1>1, <1>2, <1>3, ResumeBackgroundConcludes, ResumeInlineConcludes, SettingsConclude,
       ShutdownConcludes DEF Request
  <1>4. ASSUME NEW a \in Agents, Answer(a) PROVE Conclusive(Here')
    <2>1. \A x \in RunsOf(a) : x \in RunIds
      BY DEF RunsOf
    <2>2. QED
      BY <1>4, <2>1, CopyDoneConcludes, CopyFailedConcludes, DiscardDoneConcludes,
         CleanupDoneConcludes, RunEndsConcludes DEF Answer
  <1>5. CASE UNCHANGED vars
    <2>1. Here' = Here
      BY <1>5 DEF Here, vars
    <2>2. QED
      BY <2>1
  <1>6. QED
    BY <1>3, <1>4, <1>5, SessionCreatedConcludes DEF Next

\* Every spawn is on its way to an end its caller can be handed.
Concluding == Conclusive(Here)

\* Nothing was spawned in the beginning.
LEMMA ConcludingFirst == Init => Concluding
  <1> SUFFICES ASSUME Init, NEW a \in Agents PROVE Concludes(Here, a)
    BY DEF Concluding, Conclusive
  <1>1. /\ \A x \in RunIds : Here.runs[x].phase = "idle"
        /\ ~Here.rec[a].session /\ Here.caller[a] = "none" /\ <<a, 0>> \in RunIds
    BY HereParts, RunIdParts DEF Init
  <1>2. ~ReEntered(Here, a)
    BY <1>1 DEF ReEntered, RunsOf
  <1>3. QED
    BY <1>1, <1>2 DEF Concludes

\* Whatever is stopped, resumed, drained, evicted or reconfigured while a caller
\* waits in spawnAndWait, the record it is handed is that of an agent that ran to its
\* settle or was stopped for good before it ran.
THEOREM CallersGetResults == Spec => []CallerReturnsDone
  <1>1. Inv /\ Concluding /\ [Next]_vars => Concluding'
    BY NextConcludes DEF Inv, Concluding
  <1>2. Concluding => CallerReturnsDone
    BY HereParts DEF Concluding, Conclusive, Concludes, CallerReturnsDone
  <1>3. QED
    BY <1>1, <1>2, ConcludingFirst, Invariance, PTL DEF Spec

-----------------------------------------------------------------------------
(***************************************************************************)
(* What is active has a run.  A queued agent has an entry that no other of *)
(* its own is ahead of: the one drainQueue does not take for stale.        *)
(***************************************************************************)
\* startAgent waits for the copy, or the model runs.
Works(s, x) == s.runs[x].phase \in {"copying", "running"}

\* The first entry of its agent.
Leads(s, x) == x \in Queue(s) /\ \A y \in s.runs[x].ahead \cap Queue(s) : y[1] # x[1]

Manned(s, a) ==
    /\ s.rec[a].status = "running" => \E x \in RunsOf(a) : Works(s, x)
    /\ s.rec[a].status = "queued" => \E x \in RunsOf(a) : Leads(s, x)

AllManned(s) == \A a \in s.agents : Manned(s, a)

\* From s to t nothing is pushed, and who is still active has the runs it had.
Carries(s, t) ==
    /\ t.agents \subseteq s.agents
    /\ Queue(t) \subseteq Queue(s)
    /\ \A a \in Agents :
          /\ t.rec[a].status = "running" =>
                s.rec[a].status = "running" /\ \A x \in RunsOf(a) : Works(s, x) => Works(t, x)
          /\ t.rec[a].status = "queued" =>
                s.rec[a].status = "queued" /\ \A x \in RunsOf(a) \cap Queue(s) : t.runs[x] = s.runs[x]

\* A run in the queue whose entry is not taken still leads, when no entry is pushed.
LEMMA LeadsOn ==
    ASSUME NEW s, NEW t, NEW x \in RunIds, Leads(s, x), t.runs[x] = s.runs[x], Queue(t) \subseteq Queue(s)
    PROVE  Leads(t, x)
  BY DEF Leads, Queue

\* Carries carries the runs of the active agents over.
LEMMA CarriesManned ==
    ASSUME NEW s \in State, AllManned(s), NEW t, Carries(s, t)
    PROVE  AllManned(t)
  <1>1. s.agents \subseteq Agents /\ t.agents \subseteq s.agents
    BY StateParts DEF Carries
  <1>2. SUFFICES ASSUME NEW a \in t.agents PROVE Manned(t, a)
    BY DEF AllManned
  <1>3. a \in Agents /\ Manned(s, a) /\ RunsOf(a) \subseteq RunIds
    BY <1>1 DEF AllManned, RunsOf
  <1>4. ASSUME t.rec[a].status = "running" PROVE \E x \in RunsOf(a) : Works(t, x)
    BY <1>3, <1>4 DEF Carries, Manned
  <1>5. ASSUME t.rec[a].status = "queued" PROVE \E x \in RunsOf(a) : Leads(t, x)
    <2>1. PICK x \in RunsOf(a) : Leads(s, x)
      BY <1>3, <1>5 DEF Carries, Manned
    <2>2. x \in RunIds /\ x \in Queue(s) /\ Queue(t) \subseteq Queue(s)
      BY <1>3, <2>1 DEF Leads, Carries
    <2>3. t.runs[x] = s.runs[x]
      BY <1>3, <1>5, <2>1, <2>2 DEF Carries
    <2>4. QED
      BY <2>1, <2>2, <2>3, LeadsOn
  <1>6. QED
    BY <1>4, <1>5 DEF Manned

\* Carries is transitive.
LEMMA CarriesAgain ==
    ASSUME NEW s, NEW t, NEW u, Carries(s, t), Carries(t, u)
    PROVE  Carries(s, u)
  <1>1. u.agents \subseteq s.agents /\ Queue(u) \subseteq Queue(s)
    BY DEF Carries
  <1>2. ASSUME NEW a \in Agents, u.rec[a].status = "running"
        PROVE  s.rec[a].status = "running" /\ \A x \in RunsOf(a) : Works(s, x) => Works(u, x)
    BY <1>2 DEF Carries
  <1>3. ASSUME NEW a \in Agents, u.rec[a].status = "queued"
        PROVE  s.rec[a].status = "queued" /\ \A x \in RunsOf(a) \cap Queue(s) : u.runs[x] = s.runs[x]
    <2>1. /\ t.rec[a].status = "queued"
          /\ \A x \in RunsOf(a) \cap Queue(t) : u.runs[x] = t.runs[x]
      BY <1>3 DEF Carries
    <2>2. s.rec[a].status = "queued" /\ \A x \in RunsOf(a) \cap Queue(s) : t.runs[x] = s.runs[x]
      BY <2>1 DEF Carries
    <2>3. \A x \in RunsOf(a) \cap Queue(s) : x \in Queue(t)
      BY <2>2 DEF Queue
    <2>4. QED
      BY <2>1, <2>2, <2>3
  <1>4. QED
    BY <1>1, <1>2, <1>3 DEF Carries

\* Giving back a slot touches no run and no record.
LEMMA ReleasedCarries ==
    ASSUME NEW s \in State, NEW pool
    PROVE  Carries(s, Released(s, pool)) /\ Released(s, pool) \in State
  BY ReleasedFacts DEF Carries, Works, Queue

\* Writing a status that is not an active one.
LEMMA WithStatusCarries ==
    ASSUME NEW s \in State, NEW S, NEW status \in Statuses \ Active
    PROVE  Carries(s, WithStatus(s, S, status)) /\ WithStatus(s, S, status) \in State
  <1> DEFINE t == WithStatus(s, S, status)
  <1>1. /\ t \in State /\ t.agents = s.agents /\ t.runs = s.runs
        /\ \A a \in Agents : t.rec[a].status = IF a \in S THEN status ELSE s.rec[a].status
    BY WithStatusFacts
  <1> HIDE DEF t
  <1>2. QED
    BY <1>1 DEF Carries, Works, Queue, Active, t

\* abort: who leaves the queue or is marked is not active any more.
LEMMA AbortedCarries ==
    ASSUME NEW s \in State, NEW S
    PROVE  LET t == Aborted(s, S) IN
           /\ Carries(s, t) /\ t \in State
           /\ \A x \in RunIds \ Queue(s) : t.runs[x] = s.runs[x]
           /\ \A a \in Agents : t.rec[a].status \in Active => s.rec[a].status = t.rec[a].status
  <1> DEFINE hit == {a \in S \cap s.agents : s.rec[a].status \in Active}
             out == {x \in Queue(s) : x[1] \in hit /\ s.rec[x[1]].status = "queued"}
             d == Dropped(s, out, "returned")
             t == WithStatus(d, hit, "stopped")
  <1>1. /\ out \in SUBSET RunIds /\ "returned" \in CallerStates
        /\ "stopped" \in Statuses /\ "stopped" \notin Active
        /\ \A x \in out : x \in Queue(s) /\ s.runs[x].phase = "queued" /\ x[1] \in hit
    BY DEF Queue, CallerStates, Statuses, Active
  <1>2. Aborted(s, S) = t
    BY DEF Aborted
  <1> HIDE DEF hit, out
  <1>3. /\ d \in State /\ d.agents = s.agents /\ d.rec = s.rec
        /\ \A x \in RunIds \ out : d.runs[x] = s.runs[x]
        /\ \A x \in out : d.runs[x].phase = "dropped"
    <2>1. out \in SUBSET RunIds /\ "returned" \in CallerStates
      BY <1>1
    <2>2. QED
      BY <2>1, DroppedFacts
  <1> HIDE DEF d
  <1>4. /\ t \in State /\ t.agents = d.agents /\ t.runs = d.runs
        /\ \A a \in Agents : t.rec[a].status = IF a \in hit THEN "stopped" ELSE d.rec[a].status
    BY <1>1, <1>3, WithStatusFacts
  <1> HIDE DEF t
  <1>5. /\ \A x \in RunIds : x \notin out => t.runs[x] = s.runs[x]
        /\ \A x \in out : t.runs[x].phase = "dropped"
        /\ \A a \in Agents : t.rec[a].status \in Active => a \notin hit /\ s.rec[a].status = t.rec[a].status
    BY <1>1, <1>3, <1>4
  <1>6. Queue(t) \subseteq Queue(s)
    BY <1>5 DEF Queue
  <1>7. ASSUME NEW a \in Agents, NEW x \in RunsOf(a), t.rec[a].status \in Active
        PROVE  t.runs[x] = s.runs[x]
    BY <1>1, <1>5, <1>7 DEF RunsOf
  <1>8. Carries(s, t)
    BY <1>3, <1>4, <1>5, <1>6, <1>7 DEF Carries, Works, Active
  <1>9. QED
    BY <1>1, <1>2, <1>4, <1>5, <1>8

\* A run that is not in the queue moves on, and its agent does not need it any more or
\* keeps it.
LEMMA InPhaseCarries ==
    ASSUME NEW s \in State, NEW x \in RunIds, x \notin Queue(s), NEW phase \in Phases \ {"queued"},
           s.rec[x[1]].status = "running" /\ Works(s, x) => phase \in {"copying", "running"}
    PROVE  Carries(s, InPhase(s, x, phase)) /\ InPhase(s, x, phase) \in State
  <1> DEFINE t == InPhase(s, x, phase)
  <1>1. /\ t \in State /\ t.agents = s.agents /\ t.rec = s.rec
        /\ \A y \in RunIds \ {x} : t.runs[y] = s.runs[y]
        /\ t.runs[x].phase = phase
    BY InPhaseFacts
  <1> HIDE DEF t
  <1>2. Queue(t) \subseteq Queue(s)
    BY <1>1 DEF Queue
  <1>3. \A a \in Agents : \A y \in RunsOf(a) : y \in RunIds /\ y[1] = a
    BY DEF RunsOf
  <1>4. QED
    BY <1>1, <1>2, <1>3 DEF Carries, Works, t

\* A run that is not in the queue is dropped; its agent does not run.
LEMMA DroppedCarries ==
    ASSUME NEW s \in State, NEW x \in RunIds, x \notin Queue(s), ~Works(s, x), NEW result \in CallerStates
    PROVE  Carries(s, Dropped(s, {x}, result)) /\ Dropped(s, {x}, result) \in State
  <1> DEFINE t == Dropped(s, {x}, result)
  <1>1. /\ t \in State /\ t.agents = s.agents /\ t.rec = s.rec
        /\ \A y \in RunIds \ {x} : t.runs[y] = s.runs[y]
        /\ t.runs[x].phase = "dropped"
    <2>1. {x} \in SUBSET RunIds
      OBVIOUS
    <2>2. QED
      BY <2>1, DroppedFacts
  <1> HIDE DEF t
  <1>2. Queue(t) \subseteq Queue(s)
    BY <1>1 DEF Queue
  <1>3. \A a \in Agents : \A y \in RunsOf(a) : y \in RunIds /\ y[1] = a
    BY DEF RunsOf
  <1>4. QED
    BY <1>1, <1>2, <1>3 DEF Carries, Works, t

\* settleRun's tail: the run that ends is not what makes its agent active.
LEMMA SettledCarries ==
    ASSUME NEW s \in State, NEW x \in RunIds, x \notin Queue(s),
           Works(s, x) => s.rec[x[1]].status \notin Active
    PROVE  Carries(s, Settled(s, x)) /\ Settled(s, x) \in State
  <1> DEFINE o == Aborted(s, OwnedChildren(s, x[1]))
             r == Released(o, Refund(o, x))
             f == InPhase(r, x, "settled")
             C == [a \in Agents |-> IF x = <<a, 0>> /\ f.caller[a] = "run" THEN "returned" ELSE f.caller[a]]
             u == [f EXCEPT !.caller = C]
  <1>1. /\ Carries(s, o) /\ o \in State /\ o.runs[x] = s.runs[x]
        /\ o.rec[x[1]].status \in Active => s.rec[x[1]].status \in Active
    BY AbortedCarries, RunIdParts
  <1> HIDE DEF o
  <1>2. Carries(o, r) /\ r \in State /\ r.runs = o.runs /\ r.rec = o.rec
    BY <1>1, ReleasedCarries, ReleasedFacts
  <1> HIDE DEF r
  <1>3. Carries(r, f) /\ f \in State
    <2>1. /\ x \notin Queue(r) /\ "settled" \in Phases \ {"queued"}
          /\ ~(r.rec[x[1]].status = "running" /\ Works(r, x))
      BY <1>1, <1>2 DEF Queue, Works, Phases, Active
    <2>2. QED
      BY <1>2, <2>1, InPhaseCarries
  <1> HIDE DEF f
  <1>4. C \in [Agents -> CallerStates]
    <2>1. f.caller \in [Agents -> CallerStates]
      BY <1>3, StateParts
    <2>2. QED
      BY <2>1 DEF CallerStates
  <1> HIDE DEF C
  <1>5. u \in State /\ u.agents = f.agents /\ u.rec = f.rec /\ u.runs = f.runs
    BY <1>3, <1>4 DEF State
  <1> HIDE DEF u
  <1>6. Carries(f, u)
    BY <1>5 DEF Carries, Works, Queue
  <1>7. Carries(s, u)
    BY <1>1, <1>2, <1>3, <1>6, CarriesAgain
  <1>8. QED
    BY <1>5, <1>7 DEF Settled, u, C, f, r, o

\* drainQueue: the leading entry of a queued agent stays where it is, is started, or
\* fails its start and ends the record; the entries it drops lead nobody.
LEMMA DrainedManned ==
    ASSUME NEW s \in State, AllManned(s), NEW gone \in SUBSET MayBeGone(s)
    PROVE  AllManned(Drained(s, gone))
  <1> DEFINE taken == Reached(s, gone)
             S1 == taken \ Startable(s)
             S2 == taken \cap gone
             S3 == Starting(s, gone)
             ids == {x[1] : x \in S2}
             stale == Dropped(s, S1, "returned")
             unmade == Dropped(stale, S2, "threw")
             failed == WithStatus(unmade, ids, "error")
             t == Started(failed, S3)
  <1>1. /\ S1 \in SUBSET RunIds /\ S2 \in SUBSET RunIds /\ S3 \in SUBSET RunIds
        /\ \A x \in Startable(s) : x \notin S1
        /\ \A x \in S1 \cup S2 \cup S3 : x \in Queue(s) /\ s.runs[x].phase = "queued"
    BY DEF Reached, Startable, MayBeGone, Queue, Starting
  <1>2. "returned" \in CallerStates /\ "threw" \in CallerStates /\ "error" \in Statuses
    BY DEF CallerStates, Statuses
  <1>3. Drained(s, gone) = t
    BY DEF Drained, Starting
  <1>4. \A a : a \in ids <=> \E x \in S2 : x[1] = a
    OBVIOUS
  <1> HIDE DEF S1, S2, S3, ids, taken
  <1>5. /\ stale \in State /\ stale.rec = s.rec /\ stale.agents = s.agents
        /\ \A x \in RunIds \ S1 : stale.runs[x] = s.runs[x]
        /\ \A x \in S1 : stale.runs[x].phase = "dropped"
    <2>1. S1 \in SUBSET RunIds /\ "returned" \in CallerStates
      BY <1>1, <1>2
    <2>2. QED
      BY <2>1, DroppedFacts
  <1> HIDE DEF stale
  <1>6. /\ unmade \in State /\ unmade.rec = s.rec /\ unmade.agents = s.agents
        /\ \A x \in RunIds \ S2 : unmade.runs[x] = stale.runs[x]
        /\ \A x \in S2 : unmade.runs[x].phase = "dropped"
    <2>1. S2 \in SUBSET RunIds /\ "threw" \in CallerStates /\ stale \in State
      BY <1>1, <1>2, <1>5
    <2>2. QED
      BY <1>5, <2>1, DroppedFacts
  <1> HIDE DEF unmade
  <1>7. /\ failed \in State /\ failed.agents = s.agents /\ failed.runs = unmade.runs
        /\ \A a \in Agents : failed.rec[a].status = IF a \in ids THEN "error" ELSE s.rec[a].status
    BY <1>2, <1>6, WithStatusFacts
  <1> HIDE DEF failed
  <1>8. /\ t.agents = s.agents
        /\ \A x \in RunIds \ S3 : t.runs[x] = failed.runs[x]
        /\ \A x \in S3 : Works(t, x)
        /\ \A a \in Agents :
              t.rec[a].status = IF \E x \in S3 : x[1] = a THEN "running" ELSE failed.rec[a].status
    <2>1. failed \in State /\ S3 \in SUBSET RunIds
      BY <1>1, <1>7
    <2>2. /\ t \in State /\ t.agents = failed.agents
          /\ \A a \in Agents :
                /\ t.rec[a].status = IF \E x \in S3 : x[1] = a THEN "running" ELSE failed.rec[a].status
                /\ t.rec[a].owner = failed.rec[a].owner
          /\ \A x \in RunIds \ S3 : t.runs[x] = failed.runs[x]
      BY <2>1, StartedLeaves
    <2>3. \A x \in S3 : t.runs[x].phase \in {"copying", "running"}
      BY <2>1, StartedRuns
    <2>4. QED
      BY <1>7, <2>2, <2>3 DEF Works
  <1> HIDE DEF t
  <1>9. /\ \A x \in RunIds : x \notin S1 /\ x \notin S2 /\ x \notin S3 => t.runs[x] = s.runs[x]
        /\ \A x \in S1 \cup S2 \cup S3 : t.runs[x].phase # "queued"
    BY <1>1, <1>5, <1>6, <1>7, <1>8 DEF Works
  <1>10. Queue(t) \subseteq Queue(s)
    BY <1>1, <1>9 DEF Queue
  <1>11. ASSUME NEW a \in s.agents PROVE Manned(t, a)
    <2>1. a \in Agents /\ Manned(s, a) /\ \A x \in RunsOf(a) : x \in RunIds /\ x[1] = a
      BY <1>11, StateParts DEF AllManned, RunsOf
    <2>2. CASE \E x \in S3 : x[1] = a
      <3>1. PICK x \in S3 : x[1] = a
        BY <2>2
      <3>2. x \in RunsOf(a) /\ Works(t, x)
        BY <1>1, <1>8, <3>1 DEF RunsOf
      <3>3. t.rec[a].status = "running"
        BY <1>8, <2>1, <2>2
      <3>4. QED
        BY <3>2, <3>3 DEF Manned
    <2>3. CASE ~(\E x \in S3 : x[1] = a) /\ a \in ids
      BY <1>7, <1>8, <2>1, <2>3 DEF Manned
    <2>4. CASE ~(\E x \in S3 : x[1] = a) /\ a \notin ids
      <3>1. t.rec[a].status = s.rec[a].status
        BY <1>7, <1>8, <2>1, <2>4
      <3>2. ASSUME NEW x \in RunsOf(a), Works(s, x) PROVE Works(t, x)
        BY <1>1, <1>9, <2>1, <3>2 DEF Works
      <3>3. ASSUME s.rec[a].status = "queued", NEW x \in RunsOf(a), Leads(s, x) PROVE Leads(t, x)
        <4>1. x \in Startable(s)
          BY <1>11, <2>1, <3>3 DEF Startable, Leads
        <4>2. x \notin S1 /\ x \notin S2 /\ x \notin S3
          BY <1>1, <1>4, <2>1, <2>4, <4>1
        <4>3. QED
          BY <1>9, <1>10, <2>1, <3>3, <4>2, LeadsOn
      <3>4. QED
        BY <2>1, <3>1, <3>2, <3>3 DEF Manned
    <2>5. QED
      BY <2>2, <2>3, <2>4
  <1>12. QED
    BY <1>3, <1>8, <1>11 DEF AllManned

\* All agents but one, whose record was just inserted or marked as queued.
MannedBut(s, a) == \A c \in s.agents \ {a} : Manned(s, c)

\* The agent's run is asked for and starts.
LEMMA AskedManned ==
    ASSUME NEW s \in State, NEW a \in Agents, MannedBut(s, a), NEW x \in RunIds, x[1] = a,
           s.runs[x].phase = "idle", NEW kind \in {"spawn", "resume", "inline"}
    PROVE  LET t == Started(Requested(s, x, kind), {x}) IN AllManned(t) /\ t \in State
  <1> DEFINE r == [s.runs[x] EXCEPT !.kind = kind]
             U == [s.runs EXCEPT ![x] = r]
             q == [s EXCEPT !.runs = U]
             t == Started(q, {x})
  <1>1. s.runs \in [RunIds -> Run]
    BY StateParts
  <1>2. r \in Run
    BY <1>1 DEF Run
  <1>3. [s.runs EXCEPT ![x].kind = kind] = U
    BY <1>1
  <1>4. Requested(s, x, kind) = q
    BY <1>3 DEF Requested
  <1> HIDE DEF r
  <1>5. U \in [RunIds -> Run] /\ \A y \in RunIds \ {x} : U[y] = s.runs[y]
    BY <1>1, <1>2
  <1> HIDE DEF U
  <1>6. q \in State /\ q.runs = U /\ q.rec = s.rec /\ q.agents = s.agents
    BY <1>5 DEF State
  <1> HIDE DEF q
  <1>7. /\ t \in State /\ t.agents = s.agents
        /\ \A y \in RunIds \ {x} : t.runs[y] = s.runs[y]
        /\ Works(t, x)
        /\ \A c \in Agents \ {a} : t.rec[c].status = s.rec[c].status
        /\ t.rec[a].status = "running"
    <2>1. {x} \in SUBSET RunIds
      OBVIOUS
    <2>2. /\ t \in State /\ t.agents = q.agents
          /\ \A c \in Agents :
                /\ t.rec[c].status = IF \E y \in {x} : y[1] = c THEN "running" ELSE q.rec[c].status
                /\ t.rec[c].owner = q.rec[c].owner
          /\ \A y \in RunIds \ {x} : t.runs[y] = q.runs[y]
      BY <1>6, <2>1, StartedLeaves
    <2>3. t.runs[x].phase \in {"copying", "running"}
      BY <1>6, <2>1, StartedRuns
    <2>4. QED
      BY <1>5, <1>6, <2>2, <2>3 DEF Works
  <1> HIDE DEF t
  <1>8. Queue(t) \subseteq Queue(s)
    BY <1>7 DEF Queue, Works
  <1>9. ASSUME NEW c \in t.agents, c # a PROVE Manned(t, c)
    <2>1. c \in Agents /\ Manned(s, c) /\ \A y \in RunsOf(c) : y \in RunIds \ {x}
      BY <1>7, <1>9, StateParts DEF MannedBut, RunsOf
    <2>2. t.rec[c].status = s.rec[c].status /\ \A y \in RunsOf(c) : t.runs[y] = s.runs[y]
      BY <1>7, <1>9, <2>1
    <2>3. \A y \in RunsOf(c) : (Works(s, y) => Works(t, y)) /\ (Leads(s, y) => Leads(t, y))
      BY <1>8, <2>1, <2>2, LeadsOn DEF Works
    <2>4. QED
      BY <2>1, <2>2, <2>3 DEF Manned
  <1>10. Manned(t, a)
    BY <1>7 DEF Manned, RunsOf
  <1>11. QED
    BY <1>4, <1>7, <1>9, <1>10 DEF AllManned, t

\* ... or is pushed: behind an older entry of its own, which then leads, or as the first.
LEMMA EnqueuedManned ==
    ASSUME NEW s \in State, NEW a \in Agents, MannedBut(s, a), Ordered(s), NEW x \in RunIds, x[1] = a,
           s.runs[x].phase = "idle", NEW kind \in {"spawn", "resume", "inline"}, NEW pool \in Pools
    PROVE  LET t == Enqueued(s, x, kind, pool) IN AllManned(t) /\ t \in State
  <1> DEFINE r == [phase |-> "queued", pool |-> pool, kind |-> kind, wasQueued |-> TRUE,
                   clash |-> FALSE, ahead |-> Queue(s)]
             U == [s.runs EXCEPT ![x] = r]
             q == [s EXCEPT !.runs = U]
             t == WithStatus(q, {x[1]}, "queued")
             T == {y \in Queue(s) : y[1] = a}
  <1>1. r \in Run /\ r.phase = "queued" /\ r.ahead = Queue(s) /\ "queued" \in Statuses
    BY DEF Run, Phases, Pools, Queue, Statuses
  <1>2. Enqueued(s, x, kind, pool) = t
    BY DEF Enqueued
  <1> HIDE DEF r
  <1>3. U \in [RunIds -> Run] /\ U[x] = r /\ \A y \in RunIds \ {x} : U[y] = s.runs[y]
    BY <1>1, StateParts
  <1> HIDE DEF U
  <1>4. q \in State /\ q.runs = U /\ q.rec = s.rec /\ q.agents = s.agents
    BY <1>3 DEF State
  <1> HIDE DEF q
  <1>5. /\ t \in State /\ t.agents = s.agents /\ t.runs = U
        /\ \A c \in Agents \ {a} : t.rec[c].status = s.rec[c].status
        /\ t.rec[a].status = "queued"
    BY <1>1, <1>4, WithStatusFacts
  <1> HIDE DEF t
  <1>6. /\ Queue(t) = Queue(s) \cup {x} /\ x \notin Queue(s)
        /\ t.runs[x].ahead = Queue(s) /\ \A y \in RunIds \ {x} : t.runs[y] = s.runs[y]
    BY <1>1, <1>3, <1>5 DEF Queue
  <1>7. ASSUME NEW c \in t.agents, c # a PROVE Manned(t, c)
    <2>1. c \in Agents /\ Manned(s, c) /\ \A y \in RunsOf(c) : y \in RunIds \ {x} /\ y[1] = c
      BY <1>5, <1>7, StateParts DEF MannedBut, RunsOf
    <2>2. t.rec[c].status = s.rec[c].status /\ \A y \in RunsOf(c) : t.runs[y] = s.runs[y]
      BY <1>5, <1>6, <1>7, <2>1
    <2>3. ASSUME NEW y \in RunsOf(c), Leads(s, y) PROVE Leads(t, y)
      BY <1>6, <1>7, <2>1, <2>2, <2>3 DEF Leads
    <2>4. QED
      BY <2>1, <2>2, <2>3 DEF Manned, Works
  <1>8. \E y \in RunsOf(a) : Leads(t, y)
    <2>1. CASE T = {}
      <3>1. Leads(t, x)
        BY <1>6, <2>1 DEF Leads
      <3>2. QED
        BY <3>1 DEF RunsOf
    <2>2. CASE T # {}
      <3>1. PICK m \in T : \A y \in T : y \notin s.runs[m].ahead
        <4>1. T \in SUBSET Queue(s)
          OBVIOUS
        <4>2. QED
          BY <2>2, <4>1, FirstInLine
      <3>2. m \in Queue(s) /\ m[1] = a /\ m \in RunIds \ {x} /\ x \notin s.runs[m].ahead
        BY <1>6, <3>1 DEF Ordered, Queue
      <3>3. t.runs[m] = s.runs[m] /\ m \in Queue(t)
        BY <1>6, <3>2
      <3>4. Leads(t, m)
        BY <1>6, <3>1, <3>2, <3>3 DEF Leads
      <3>5. QED
        BY <3>2, <3>4 DEF RunsOf
    <2>3. QED
      BY <2>1, <2>2
  <1>9. Manned(t, a)
    BY <1>5, <1>8 DEF Manned
  <1>10. QED
    BY <1>2, <1>5, <1>7, <1>9 DEF AllManned

\* spawn, from the record it inserted: it starts, waits in the queue, or is refused.
LEMMA SpawnedManned ==
    ASSUME NEW s \in State, NEW a \in Agents, MannedBut(s, a), Ordered(s), NEW o,
           s.runs[<<a, 0>>].phase = "idle"
    PROVE  AllManned(Spawned(s, a, o)) /\ Spawned(s, a, o) \in State
  <1> DEFINE x == <<a, 0>>
             pool == PoolFor(s, s.rec[a])
             queues == pool # "none" /\ ~o.bypassQueue /\ ~PoolHasRoom(s, pool)
             started == Started(Requested(s, x, "spawn"), {x})
             d == Dropped(s, {x}, "returned")
             refused == WithStatus(d, {a}, "stopped")
  <1>1. x \in RunIds /\ x[1] = a
    BY RunIdParts
  <1>2. AllManned(refused) /\ refused \in State
    <2>1. "returned" \in CallerStates /\ "stopped" \in Statuses
      BY DEF CallerStates, Statuses
    <2>2. x \notin Queue(s) /\ ~Works(s, x)
      BY DEF Queue, Works
    <2>3. Carries(s, d) /\ d \in State
      <3> HIDE DEF x
      <3> QED BY <1>1, <2>1, <2>2, DroppedCarries
    <2>4. d.agents = s.agents /\ d.rec = s.rec
      BY DEF Dropped, State
    <2> HIDE DEF d
    <2>5. /\ refused \in State /\ refused.agents = s.agents /\ refused.runs = d.runs
          /\ \A c \in Agents : refused.rec[c].status = IF c \in {a} THEN "stopped" ELSE s.rec[c].status
      BY <2>1, <2>3, <2>4, WithStatusFacts
    <2> HIDE DEF refused
    <2>6. ASSUME NEW c \in s.agents PROVE Manned(refused, c)
      <3>1. c \in Agents /\ \A y \in RunsOf(c) : y \in RunIds
        BY <2>6, StateParts DEF RunsOf
      <3>2. CASE c = a
        BY <2>5, <3>1, <3>2 DEF Manned
      <3>3. CASE c # a
        <4>1. refused.rec[c].status = s.rec[c].status /\ Manned(s, c)
          BY <2>5, <2>6, <3>1, <3>3 DEF MannedBut
        <4>2. s.rec[c].status = d.rec[c].status /\ Queue(refused) \subseteq Queue(s)
          BY <2>3, <2>4, <2>5 DEF Carries, Queue
        <4>3. ASSUME s.rec[c].status = "running", NEW y \in RunsOf(c), Works(s, y) PROVE Works(refused, y)
          BY <2>3, <2>5, <3>1, <4>2, <4>3 DEF Carries, Works
        <4>4. ASSUME s.rec[c].status = "queued", NEW y \in RunsOf(c), Leads(s, y) PROVE Leads(refused, y)
          <5>1. y \in Queue(s)
            BY <4>4 DEF Leads
          <5>2. refused.runs[y] = s.runs[y]
            BY <2>3, <2>5, <3>1, <4>2, <4>4, <5>1 DEF Carries
          <5>3. QED
            BY <3>1, <4>2, <4>4, <5>2, LeadsOn
        <4>5. QED
          BY <4>1, <4>3, <4>4 DEF Manned
      <3>4. QED
        BY <3>2, <3>3
    <2>7. QED
      BY <2>5, <2>6 DEF AllManned
  <1>3. queues => AllManned(Enqueued(s, x, "spawn", pool)) /\ Enqueued(s, x, "spawn", pool) \in State
    <2>1. pool # "none" => pool \in Pools
      BY DEF PoolFor, Pools
    <2>2. QED
      BY <1>1, <2>1, EnqueuedManned
  <1>4. AllManned(started) /\ started \in State
    BY <1>1, AskedManned
  <1> HIDE DEF started
  <1>5. AllManned(Aborted(started, {a})) /\ Aborted(started, {a}) \in State
    BY <1>4, AbortedCarries, CarriesManned
  <1>6. CASE queues /\ o.aborted
    BY <1>2, <1>6 DEF Spawned
  <1>7. CASE queues /\ ~o.aborted
    BY <1>3, <1>7 DEF Spawned
  <1>8. CASE ~queues
    <2>1. Spawned(s, a, o) = IF o.aborted /\ ~o.worktree THEN Aborted(started, {a}) ELSE started
      BY <1>8 DEF Spawned, started
    <2>2. QED
      BY <1>4, <1>5, <2>1
  <1>9. QED
    BY <1>6, <1>7, <1>8

\* An action that takes the manager to a state where what is active has a run.
LEMMA BecomesManned ==
    ASSUME NEW STATE t, t \in State, AllManned(t), Becomes(t)
    PROVE  AllManned(Here')
  BY BecomesHere

\* An action that ends with drainQueue.
LEMMA DrainQueueManned ==
    ASSUME NEW STATE t, t \in State, AllManned(t), DrainQueue(t)
    PROVE  AllManned(Here')
  <1>1. PICK gone \in SUBSET MayBeGone(t) : Becomes(Drained(t, gone))
    BY DEF DrainQueue
  <1>2. Drained(t, gone) \in State
    BY DrainedFates
  <1>3. AllManned(Drained(t, gone))
    BY DrainedManned
  <1>4. QED
    BY <1>1, <1>2, <1>3, BecomesManned

\* An action that ends with settleRun.
LEMMA SettleRunManned ==
    ASSUME NEW STATE t, t \in State, AllManned(t), NEW x \in RunIds, x \notin Queue(t),
           Works(t, x) => t.rec[x[1]].status \notin Active, SettleRun(t, x)
    PROVE  AllManned(Here')
  <1>1. AllManned(Settled(t, x)) /\ Settled(t, x) \in State
    BY SettledCarries, CarriesManned
  <1>2. QED
    BY <1>1, BecomesManned, DrainQueueManned DEF SettleRun

\* spawn and spawnAndWait.
LEMMA SpawnMans ==
    ASSUME IInv(Here), AllManned(Here), Ordered(Here), NEW a \in Agents, NEW o \in SpawnOptions,
           NEW owner \in Agents \cup {NoOwner, Workflow}, Spawn(a, o, owner)
    PROVE  AllManned(Here')
  <1> DEFINE i == Inserted(Here, a, o, owner)
             t == Spawned(i, a, o)
             phase == t.runs[<<a, 0>>].phase
             c == CASE phase \in {"queued", "copying"} -> "start"
                    [] phase = "running" -> "run"
                    [] OTHER -> "returned"
             C == [t.caller EXCEPT ![a] = c]
             w == [t EXCEPT !.caller = C]
             q == [status |-> IF o.mode = "background" THEN "queued" ELSE "running",
                   isBackground |-> o.mode = "background", owner |-> owner,
                   session |-> FALSE, opt |-> o]
             R == [Here.rec EXCEPT ![a] = q]
             A == Here.agents \cup {a}
  <1>1. Here.rec[a].status = "none" /\ Here \in State
    BY HereParts DEF Spawn, IInv
  <1>2. IInv(i) /\ i.runs = Here.runs /\ \A x \in RunIds : x[1] = a => i.runs[x].phase = "idle"
    BY <1>1, InsertedInv
  <1>3. MannedBut(i, a)
    <2>1. R \in [Agents -> AgentRecord] /\ \A b \in Agents \ {a} : R[b] = Here.rec[b]
      <3>1. q \in AgentRecord
        BY DEF AgentRecord, Statuses
      <3> HIDE DEF q
      <3>2. QED
        BY <1>1, <3>1, StateParts
    <2>2. i = [Here EXCEPT !.agents = A, !.rec = R]
      BY DEF Inserted
    <2> HIDE DEF R, A
    <2>3. i.rec = R /\ i.agents = A
      BY <1>1, <2>2 DEF State
    <2> HIDE DEF i
    <2>4. ASSUME NEW b \in i.agents, b # a PROVE Manned(i, b)
      <3>1. b \in Here.agents /\ b \in Agents /\ i.rec[b] = Here.rec[b]
        BY <1>1, <2>1, <2>3, <2>4, StateParts DEF A
      <3>2. QED
        BY <1>2, <3>1 DEF AllManned, Manned, Works, Leads, Queue
    <2>5. QED
      BY <2>4 DEF MannedBut
  <1> HIDE DEF i, q, R, A
  <1>4. i \in State /\ i.runs[<<a, 0>>].phase = "idle" /\ Ordered(i)
    BY <1>2, RunIdParts DEF IInv, Ordered, Queue
  <1>5. AllManned(t) /\ t \in State
    BY <1>3, <1>4, SpawnedManned
  <1> HIDE DEF t
  <1>6. C \in [Agents -> CallerStates]
    <2>1. c \in CallerStates
      BY DEF CallerStates
    <2> HIDE DEF c
    <2>2. QED
      BY <1>5, <2>1, StateParts
  <1> HIDE DEF C
  <1>7. w \in State /\ w.agents = t.agents /\ w.rec = t.rec /\ w.runs = t.runs
    BY <1>5, <1>6 DEF State
  <1>8. Becomes(t) \/ Becomes(w)
    BY DEF Spawn, Awaited, w, C, c, t, i
  <1> HIDE DEF w
  <1>9. AllManned(w)
    BY <1>5, <1>7 DEF AllManned, Manned, Works, Leads, Queue
  <1>10. QED
    BY <1>5, <1>7, <1>8, <1>9, BecomesManned

\* startAgent after createWorktree: the run of a running agent runs, and a copy is only
\* discarded when its agent does not run.
LEMMA CopyDoneMans ==
    ASSUME IInv(Here), AllManned(Here), NEW a \in Agents, NEW esc, CopyDone(a, esc)
    PROVE  AllManned(Here')
  <1> DEFINE x == <<a, 0>>
             p == InPhase(Here, x, "running")
             C == [caller EXCEPT ![a] = IF @ = "start" THEN "run" ELSE @]
             launched == [p EXCEPT !.caller = C]
             g == InPhase(Here, x, "discarding")
             freed == Released(g, runs[x].pool)
  <1>1. /\ Here \in State /\ x \in RunIds /\ x[1] = a /\ x \notin Queue(Here)
        /\ caller \in [Agents -> CallerStates]
        /\ "running" \in Phases \ {"queued"} /\ "discarding" \in Phases \ {"queued"}
    BY RunIdParts, HereParts, StateParts DEF IInv, CopyDone, Phases, Queue
  <1>2. AllManned(launched) /\ launched \in State
    <2>1. Carries(Here, p) /\ p \in State
      <3> HIDE DEF x
      <3> QED BY <1>1, InPhaseCarries
    <2> HIDE DEF p
    <2>2. C \in [Agents -> CallerStates]
      BY <1>1 DEF CallerStates
    <2> HIDE DEF C
    <2>3. launched \in State /\ launched.agents = p.agents /\ launched.rec = p.rec /\ launched.runs = p.runs
      BY <2>1, <2>2 DEF State
    <2> HIDE DEF launched
    <2>4. Carries(p, launched)
      BY <2>3 DEF Carries, Works, Queue
    <2>5. QED
      BY <1>1, <2>1, <2>3, <2>4, CarriesAgain, CarriesManned
  <1>3. rec[a].status # "running" => AllManned(freed) /\ freed \in State
    <2> SUFFICES ASSUME rec[a].status # "running" PROVE AllManned(freed) /\ freed \in State
      OBVIOUS
    <2>1. Carries(Here, g) /\ g \in State
      <3>1. Here.rec[x[1]].status # "running"
        BY <1>1, HereParts
      <3> HIDE DEF x
      <3> QED BY <1>1, <3>1, InPhaseCarries
    <2> HIDE DEF g
    <2>2. Carries(g, freed) /\ freed \in State
      BY <2>1, ReleasedCarries
    <2> HIDE DEF freed
    <2>3. QED
      BY <1>1, <2>1, <2>2, CarriesAgain, CarriesManned
  <1> HIDE DEF launched, freed
  <1>4. AllManned(Aborted(launched, {a})) /\ Aborted(launched, {a}) \in State
    BY <1>2, AbortedCarries, CarriesManned
  <1>5. \/ Becomes(launched) \/ Becomes(Aborted(launched, {a}))
        \/ rec[a].status # "running" /\ Becomes(freed)
    BY DEF CopyDone, launched, p, C, freed, g
  <1>6. QED
    BY <1>2, <1>3, <1>4, <1>5, BecomesManned

\* A failed copy: its agent leaves the map, or ends "error".
LEMMA CopyFailedMans ==
    ASSUME IInv(Here), AllManned(Here), NEW a \in Agents, CopyFailed(a)
    PROVE  AllManned(Here')
  <1> DEFINE x == <<a, 0>>
             d == Dropped(Here, {x}, "threw")
             freed == Released(d, runs[x].pool)
             failed == WithStatus(freed, {a}, "error")
             A == agents \ {a}
             gone == [freed EXCEPT !.agents = A]
  <1>1. /\ Here \in State /\ x \in RunIds /\ x[1] = a /\ {x} \in SUBSET RunIds
        /\ "threw" \in CallerStates /\ "error" \in Statuses
    BY RunIdParts DEF IInv, CallerStates, Statuses
  <1>2. /\ d \in State /\ d.agents = Here.agents /\ d.rec = Here.rec
        /\ \A y \in RunIds \ {x} : d.runs[y] = Here.runs[y]
        /\ d.runs[x].phase = "dropped"
    <2>1. {x} \in SUBSET RunIds /\ "threw" \in CallerStates /\ Here \in State
      BY <1>1
    <2> HIDE DEF x
    <2>2. QED
      BY <2>1, DroppedFacts
  <1> HIDE DEF d
  <1>3. freed \in State /\ freed.agents = d.agents /\ freed.rec = d.rec /\ freed.runs = d.runs
    BY <1>2, ReleasedFacts
  <1> HIDE DEF freed
  <1>4. Queue(freed) \subseteq Queue(Here)
    BY <1>2, <1>3 DEF Queue
  <1>5. ASSUME NEW t, t.runs = freed.runs, NEW c \in Here.agents, c # a, t.rec[c].status = Here.rec[c].status
        PROVE  Manned(t, c)
    <2>1. c \in Agents /\ Manned(Here, c) /\ \A y \in RunsOf(c) : y \in RunIds \ {x}
      BY <1>1, <1>5, StateParts DEF AllManned, RunsOf
    <2>2. Queue(t) \subseteq Queue(Here) /\ \A y \in RunsOf(c) : t.runs[y] = Here.runs[y]
      BY <1>2, <1>3, <1>4, <1>5, <2>1 DEF Queue
    <2>3. \A y \in RunsOf(c) : (Works(Here, y) => Works(t, y)) /\ (Leads(Here, y) => Leads(t, y))
      BY <2>1, <2>2, LeadsOn DEF Works
    <2>4. QED
      BY <1>5, <2>1, <2>3 DEF Manned
  <1>6. AllManned(failed) /\ failed \in State
    <2>1. /\ failed \in State /\ failed.agents = Here.agents /\ failed.runs = freed.runs
          /\ \A c \in Agents : failed.rec[c].status = IF c \in {a} THEN "error" ELSE Here.rec[c].status
      BY <1>1, <1>2, <1>3, WithStatusFacts
    <2> HIDE DEF failed
    <2>2. ASSUME NEW c \in failed.agents PROVE Manned(failed, c)
      <3>1. c \in Agents /\ c \in Here.agents
        BY <1>1, <2>1, StateParts
      <3>2. CASE c = a
        BY <2>1, <3>1, <3>2 DEF Manned
      <3>3. CASE c # a
        BY <1>5, <2>1, <3>1, <3>3
      <3>4. QED
        BY <3>2, <3>3
    <2>3. QED
      BY <2>1, <2>2 DEF AllManned
  <1>7. AllManned(gone) /\ gone \in State
    <2>1. A \subseteq Here.agents \ {a} /\ A \in SUBSET Agents
      BY <1>1, HereParts, StateParts
    <2> HIDE DEF A
    <2>2. gone \in State /\ gone.agents = A /\ gone.rec = Here.rec /\ gone.runs = freed.runs
      BY <1>2, <1>3, <2>1 DEF State
    <2> HIDE DEF gone
    <2>3. QED
      BY <1>5, <2>1, <2>2 DEF AllManned
  <1> HIDE DEF failed, gone
  <1>8. DrainQueue(failed) \/ DrainQueue(gone)
    BY DEF CopyFailed, failed, gone, freed, d
  <1>9. QED
    BY <1>6, <1>7, <1>8, DrainQueueManned

\* The end of a discard.
LEMMA DiscardDoneMans ==
    ASSUME IInv(Here), AllManned(Here), NEW a \in Agents, DiscardDone(a)
    PROVE  AllManned(Here')
  <1> DEFINE x == <<a, 0>>
             d == Dropped(Here, {x}, "returned")
  <1>1. /\ Here \in State /\ x \in RunIds /\ "returned" \in CallerStates
        /\ x \notin Queue(Here) /\ ~Works(Here, x)
    BY RunIdParts, HereParts DEF IInv, DiscardDone, CallerStates, Queue, Works
  <1>2. DrainQueue(d)
    BY DEF DiscardDone
  <1>3. Carries(Here, d) /\ d \in State
    <2> HIDE DEF x
    <2> QED BY <1>1, DroppedCarries
  <1> HIDE DEF d
  <1>4. QED
    BY <1>1, <1>2, <1>3, CarriesManned, DrainQueueManned

\* The session flag of a record.
LEMMA SessionCarries ==
    ASSUME NEW s \in State, NEW a \in Agents, NEW got \in BOOLEAN
    PROVE  LET t == [s EXCEPT !.rec = [s.rec EXCEPT ![a].session = got]] IN
           /\ t \in State /\ Carries(s, t) /\ t.runs = s.runs
           /\ \A b \in Agents : t.rec[b].status = s.rec[b].status
  <1> DEFINE R == [s.rec EXCEPT ![a].session = got]
             u == [s EXCEPT !.rec = R]
  <1>1. R \in [Agents -> AgentRecord] /\ \A b \in Agents : R[b].status = s.rec[b].status
    BY StateParts DEF AgentRecord
  <1> HIDE DEF R
  <1>2. u \in State /\ u.rec = R /\ u.runs = s.runs /\ u.agents = s.agents
    BY <1>1 DEF State
  <1> HIDE DEF u
  <1>3. Carries(s, u)
    BY <1>1, <1>2 DEF Carries, Works, Queue
  <1>4. QED
    BY <1>1, <1>2, <1>3 DEF u, R

\* onSessionCreated.
LEMMA SessionCreatedMans ==
    ASSUME IInv(Here), AllManned(Here), NEW a \in Agents, SessionCreated(a)
    PROVE  AllManned(Here')
  <1> DEFINE t == [Here EXCEPT !.rec = [Here.rec EXCEPT ![a].session = TRUE]]
  <1>1. Here \in State
    BY DEF IInv
  <1>2. t \in State /\ Carries(Here, t)
    BY <1>1, SessionCarries
  <1>3. Becomes(t)
    BY HereParts DEF SessionCreated
  <1> HIDE DEF t
  <1>4. QED
    BY <1>1, <1>2, <1>3, CarriesManned, BecomesManned

\* The end of a run leaves a status that is not an active one.
LEMMA EndedCarries ==
    ASSUME NEW s \in State, NEW x \in RunIds, NEW outcome \in {"completed", "error"}
    PROVE  LET t == Ended(s, x, outcome) IN
           Carries(s, t) /\ t \in State /\ t.runs = s.runs /\ t.rec[x[1]].status \notin Active
  <1> DEFINE a == x[1]
             keeps == s.rec[a].status = "stopped" /\ s.runs[x].kind # "inline"
             got == s.rec[a].session \/ (s.runs[x].kind = "spawn" /\ outcome = "completed")
             S == IF keeps THEN {} ELSE {a}
             w == WithStatus(s, S, outcome)
             t == [w EXCEPT !.rec = [w.rec EXCEPT ![a].session = got]]
  <1>1. a \in Agents /\ got \in BOOLEAN /\ outcome \in Statuses \ Active
    BY RunIdParts DEF Statuses, Active
  <1>2. a \in S \/ s.rec[a].status = "stopped"
    OBVIOUS
  <1>3. Ended(s, x, outcome) = [w EXCEPT !.rec[a].session = got]
    BY DEF Ended, got
  <1> HIDE DEF got, S
  <1>4. /\ Carries(s, w) /\ w \in State /\ w.runs = s.runs
        /\ w.rec[a].status = IF a \in S THEN outcome ELSE s.rec[a].status
    BY <1>1, WithStatusCarries, WithStatusFacts
  <1> HIDE DEF w, a
  <1>5. [w EXCEPT !.rec[a].session = got] = t
    BY <1>4 DEF State
  <1>6. t \in State /\ Carries(w, t) /\ t.runs = w.runs /\ t.rec[a].status = w.rec[a].status
    BY <1>1, <1>4, SessionCarries
  <1> HIDE DEF t
  <1>7. t.rec[a].status \notin Active
    BY <1>1, <1>2, <1>4, <1>6 DEF Active
  <1>8. QED
    BY <1>3, <1>4, <1>5, <1>6, <1>7, CarriesAgain DEF a

\* The end of a run.
LEMMA RunEndsMans ==
    ASSUME IInv(Here), AllManned(Here), NEW x \in RunIds, NEW outcome \in {"completed", "error"},
           RunEnds(x, outcome)
    PROVE  AllManned(Here')
  <1> DEFINE e == Ended(Here, x, outcome)
             t == InPhase(e, x, "cleanup")
  <1>1. Here \in State /\ "cleanup" \in Phases \ {"queued"} /\ Here.runs[x].phase = "running"
    BY HereParts DEF IInv, Phases, RunEnds
  <1>2. e \in State /\ Carries(Here, e) /\ e.runs = Here.runs /\ e.rec[x[1]].status \notin Active
    BY <1>1, EndedCarries
  <1>3. Becomes(t) \/ SettleRun(e, x)
    BY DEF RunEnds
  <1> HIDE DEF e
  <1>4. AllManned(e) /\ x \notin Queue(e) /\ e.rec[x[1]].status # "running"
    BY <1>1, <1>2, CarriesManned DEF Queue, Active
  <1>5. AllManned(t) /\ t \in State
    BY <1>1, <1>2, <1>4, InPhaseCarries, CarriesManned
  <1> HIDE DEF t
  <1>6. QED
    BY <1>2, <1>3, <1>4, <1>5, BecomesManned, SettleRunManned

\* The end of a run's cleanup.
LEMMA CleanupDoneMans ==
    ASSUME IInv(Here), AllManned(Here), NEW a \in Agents, CleanupDone(a)
    PROVE  AllManned(Here')
  <1> DEFINE x == <<a, 0>>
  <1>1. Here \in State /\ x \in RunIds /\ x \notin Queue(Here) /\ ~Works(Here, x)
    BY RunIdParts, HereParts DEF IInv, CleanupDone, Queue, Works
  <1>2. SettleRun(Here, x)
    BY DEF CleanupDone
  <1> HIDE DEF x
  <1>3. QED
    BY <1>1, <1>2, SettleRunManned

\* A background resume starts its run or queues it.
LEMMA ResumeBackgroundMans ==
    ASSUME IInv(Here), AllManned(Here), Ordered(Here), NEW a \in Agents, NEW k \in 1..MaxResumes,
           ResumeBackground(a, k)
    PROVE  AllManned(Here')
  <1> DEFINE x == <<a, k>>
             R == [rec EXCEPT ![a].isBackground = TRUE, ![a].status = "queued"]
             u == [Here EXCEPT !.rec = R]
  <1>1. x \in RunIds /\ x[1] = a /\ Here.runs[x].phase = "idle"
    BY HereParts, ConstantsAssumption DEF ResumeBackground, NextRun, RunIds
  <1>2. Here \in State /\ rec \in [Agents -> AgentRecord]
    BY HereParts, StateParts DEF IInv
  <1>3. R \in [Agents -> AgentRecord] /\ \A b \in Agents \ {a} : R[b] = rec[b]
    BY <1>2, SMTT(30), ZenonT(40) DEF AgentRecord, Statuses
  <1> HIDE DEF R
  <1>4. u \in State /\ u.agents = agents /\ u.rec = R /\ u.runs = Here.runs
    BY <1>2, <1>3, HereParts DEF State
  <1>5. Becomes(Enqueued(u, x, "resume", "background"))
          \/ Becomes(Started(Requested(u, x, "resume"), {x}))
    BY DEF ResumeBackground, u, R
  <1> HIDE DEF u
  <1>6. MannedBut(u, a) /\ Ordered(u)
    <2>1. ASSUME NEW c \in u.agents, c # a PROVE Manned(u, c)
      <3>1. c \in Here.agents /\ u.rec[c] = Here.rec[c]
        BY <1>2, <1>3, <1>4, <2>1, HereParts, StateParts
      <3>2. QED
        BY <1>4, <3>1 DEF AllManned, Manned, Works, Leads, Queue
    <2>2. QED
      BY <1>4, <2>1 DEF MannedBut, Ordered, Queue
  <1>7. /\ AllManned(Enqueued(u, x, "resume", "background"))
        /\ Enqueued(u, x, "resume", "background") \in State
    <2>1. "background" \in Pools /\ u.runs[x].phase = "idle"
      BY <1>1, <1>4 DEF Pools
    <2> HIDE DEF x
    <2>2. QED
      BY <1>1, <1>4, <1>6, <2>1, EnqueuedManned
  <1>8. /\ AllManned(Started(Requested(u, x, "resume"), {x}))
        /\ Started(Requested(u, x, "resume"), {x}) \in State
    BY <1>1, <1>4, <1>6, AskedManned
  <1>9. QED
    BY <1>5, <1>7, <1>8, BecomesManned

\* A foreground resume starts its run.
LEMMA ResumeInlineMans ==
    ASSUME IInv(Here), AllManned(Here), NEW a \in Agents, NEW k \in 1..MaxResumes, ResumeInline(a, k)
    PROVE  AllManned(Here')
  <1> DEFINE x == <<a, k>>
  <1>1. x \in RunIds /\ x[1] = a /\ Here.runs[x].phase = "idle" /\ Here \in State
    BY HereParts, ConstantsAssumption DEF ResumeInline, NextRun, RunIds, IInv
  <1>2. MannedBut(Here, a)
    BY DEF AllManned, MannedBut
  <1>3. /\ AllManned(Started(Requested(Here, x, "inline"), {x}))
        /\ Started(Requested(Here, x, "inline"), {x}) \in State
    BY <1>1, <1>2, AskedManned
  <1>4. QED
    BY <1>3, BecomesManned DEF ResumeInline

\* abort.
LEMMA AbortMans ==
    ASSUME IInv(Here), AllManned(Here), NEW a \in Agents, Abort(a)
    PROVE  AllManned(Here')
  <1>1. Here \in State /\ Becomes(Aborted(Here, {a}))
    BY DEF Abort, IInv
  <1>2. Carries(Here, Aborted(Here, {a})) /\ Aborted(Here, {a}) \in State
    BY <1>1, AbortedCarries
  <1>3. QED
    BY <1>1, <1>2, CarriesManned, BecomesManned

\* Eviction and a change of a limit, with the drain that follows.
LEMMA SettingsMans ==
    ASSUME IInv(Here), AllManned(Here),
           \/ \E S \in SUBSET Agents : Evict(S)
           \/ \E n \in BgLimits : SetMaxConcurrent(n)
           \/ \E n \in FgLimits : SetMaxConcurrentForeground(n)
    PROVE  AllManned(Here')
  <1>1. Here \in State /\ rec \in [Agents -> AgentRecord]
    BY HereParts, StateParts DEF IInv
  <1>2. ASSUME NEW S \in SUBSET Agents, Evict(S) PROVE AllManned(Here')
    <2> DEFINE A == agents \ S
               R == [a \in Agents |-> IF a \in S THEN [rec[a] EXCEPT !.session = FALSE] ELSE rec[a]]
               u == [Here EXCEPT !.agents = A, !.rec = R]
    <2>1. A \in SUBSET Agents /\ A \subseteq Here.agents
      BY <1>1, HereParts, StateParts
    <2>2. R \in [Agents -> AgentRecord] /\ \A b \in Agents : R[b].status = rec[b].status
      <3>1. \A b \in Agents : /\ rec[b] \in AgentRecord /\ [rec[b] EXCEPT !.session = FALSE] \in AgentRecord
                              /\ [rec[b] EXCEPT !.session = FALSE].status = rec[b].status
        BY <1>1 DEF AgentRecord
      <3>2. QED
        BY <3>1
    <2> HIDE DEF A, R
    <2>3. u \in State /\ u.agents = A /\ u.rec = R /\ u.runs = Here.runs
      BY <1>1, <2>1, <2>2 DEF State
    <2>4. Becomes(u)
      BY <1>2 DEF Evict, u, A, R
    <2> HIDE DEF u
    <2>5. Carries(Here, u)
      BY <2>1, <2>2, <2>3, HereParts DEF Carries, Works, Queue
    <2>6. QED
      BY <1>1, <2>3, <2>4, <2>5, CarriesManned, BecomesManned
  <1>3. ASSUME NEW t, t.agents = Here.agents, t.rec = Here.rec, t.runs = Here.runs
        PROVE  AllManned(t)
    BY <1>3 DEF AllManned, Manned, Works, Leads, Queue
  <1>4. ASSUME NEW n \in BgLimits, SetMaxConcurrent(n) PROVE AllManned(Here')
    <2> DEFINE u == [Here EXCEPT !.bgLimit = n]
    <2>1. u \in State /\ u.agents = Here.agents /\ u.rec = Here.rec /\ u.runs = Here.runs
      BY <1>1, ConstantsAssumption DEF State
    <2>2. DrainQueue(u)
      BY <1>4 DEF SetMaxConcurrent
    <2> HIDE DEF u
    <2>3. QED
      BY <1>3, <2>1, <2>2, DrainQueueManned
  <1>5. ASSUME NEW n \in FgLimits, SetMaxConcurrentForeground(n) PROVE AllManned(Here')
    <2> DEFINE u == [Here EXCEPT !.fgLimit = n]
    <2>1. u \in State /\ u.agents = Here.agents /\ u.rec = Here.rec /\ u.runs = Here.runs
      BY <1>1, ConstantsAssumption DEF State
    <2>2. DrainQueue(u)
      BY <1>5 DEF SetMaxConcurrentForeground
    <2> HIDE DEF u
    <2>3. QED
      BY <1>3, <2>1, <2>2, DrainQueueManned
  <1>6. QED
    BY <1>2, <1>4, <1>5

\* After a shutdown there is nobody left.
LEMMA ShutdownMans ==
    ASSUME Shutdown
    PROVE  AllManned(Here')
  <1>1. agents' = {}
    BY DEF Shutdown, Becomes, Here, WithStatus, Dropped
  <1>2. Here'.agents = {}
    BY <1>1 DEF Here
  <1>3. QED
    BY <1>2 DEF AllManned

\* Every step leaves what is active with a run.
LEMMA NextManned ==
    IInv(Here) /\ Ordered(Here) /\ AllManned(Here) /\ [Next]_vars => AllManned(Here')
  <1> SUFFICES ASSUME IInv(Here), Ordered(Here), AllManned(Here), [Next]_vars PROVE AllManned(Here')
    OBVIOUS
  <1>1. ASSUME NEW a \in Agents, NEW o \in Options, NEW owner \in Owners(o), Spawn(a, o, owner)
        PROVE  AllManned(Here')
    <2>1. o \in SpawnOptions
      BY ConstantsAssumption
    <2>2. agents \in SUBSET Agents
      BY HereParts, StateParts DEF IInv
    <2>3. owner \in Agents \cup {NoOwner, Workflow}
      <3>1. CASE o.owner = "none"
        BY <1>1, <3>1 DEF Owners
      <3>2. CASE o.owner # "none" /\ o.owner = "workflow"
        BY <1>1, <3>2 DEF Owners
      <3>3. CASE o.owner # "none" /\ o.owner # "workflow"
        BY <1>1, <2>2, <3>3 DEF Owners
      <3>4. QED
        BY <3>1, <3>2, <3>3
    <2>4. QED
      BY <1>1, <2>1, <2>3, SpawnMans
  <1>2. CASE Request
    BY <1>1, <1>2, ResumeBackgroundMans, ResumeInlineMans, AbortMans, SettingsMans,
       ShutdownMans DEF Request
  <1>3. ASSUME NEW a \in Agents, SessionCreated(a) PROVE AllManned(Here')
    BY <1>3, SessionCreatedMans
  <1>4. ASSUME NEW a \in Agents, Answer(a) PROVE AllManned(Here')
    <2>1. \A x \in RunsOf(a) : x \in RunIds
      BY DEF RunsOf
    <2>2. QED
      BY <1>4, <2>1, CopyDoneMans, CopyFailedMans, DiscardDoneMans, CleanupDoneMans,
         RunEndsMans DEF Answer
  <1>5. CASE UNCHANGED vars
    <2>1. Here' = Here
      BY <1>5 DEF Here, vars
    <2>2. QED
      BY <2>1
  <1>6. QED
    BY <1>2, <1>3, <1>4, <1>5 DEF Next

\* What is active has a run.
AtWork == AllManned(Here)

\* Nobody is active in the beginning.
LEMMA AtWorkFirst == Init => AtWork
  BY HereParts DEF Init, AtWork, AllManned

\* A record never says "running" without a run, nor "queued" without an entry of the
\* queue: whatever is resumed over, stopped, drained or fails in between, no record is
\* left that cleanup skips and resume refuses for ever.
THEOREM NothingImmortal == Spec => []StatusHasRun
  <1>1. Inv /\ Used /\ AtWork /\ [Next]_vars => AtWork'
    BY NextManned DEF Inv, Used, Kept, Lined, AtWork
  <1>2. AtWork => StatusHasRun
    BY HereParts DEF AtWork, AllManned, Manned, Works, Leads, StatusHasRun
  <1>3. QED
    BY <1>1, <1>2, AtWorkFirst, Invariance, UsedAlways, PTL DEF Spec

-----------------------------------------------------------------------------
(***************************************************************************)
(* What waitForAll finds.  The first run of an agent is its spawn, and     *)
(* only a spawn waits for a copy: a resume never does.                     *)
(***************************************************************************)
NamedRun(r, x) ==
    IF x[2] = 0 THEN r.kind = "spawn"
    ELSE (r.phase # "idle" => r.kind # "spawn") /\ r.phase \notin {"copying", "discarding"}

Named(s) == \A x \in RunIds : NamedRun(s.runs[x], x)

\* dequeue keeps what a run is.
LEMMA DroppedNamed ==
    ASSUME NEW s \in State, Named(s), NEW X \in SUBSET RunIds, NEW result \in CallerStates,
           \A x \in X : x[2] = 0 \/ s.runs[x].phase # "idle"
    PROVE  Named(Dropped(s, X, result)) /\ Dropped(s, X, result) \in State
  <1> DEFINE t == Dropped(s, X, result)
  <1>1. /\ t \in State
        /\ \A x \in RunIds \ X : t.runs[x] = s.runs[x]
        /\ \A x \in X : t.runs[x].phase = "dropped" /\ t.runs[x].kind = s.runs[x].kind
    BY DroppedFacts
  <1> HIDE DEF t
  <1>2. ASSUME NEW x \in RunIds PROVE NamedRun(t.runs[x], x)
    BY <1>1 DEF Named, NamedRun
  <1>3. QED
    BY <1>1, <1>2 DEF Named, t

\* abort only drops entries.
LEMMA AbortedNamed ==
    ASSUME NEW s \in State, Named(s), NEW S
    PROVE  Named(Aborted(s, S)) /\ Aborted(s, S) \in State
  <1> DEFINE hit == {a \in S \cap s.agents : s.rec[a].status \in Active}
             out == {x \in Queue(s) : x[1] \in hit /\ s.rec[x[1]].status = "queued"}
             d == Dropped(s, out, "returned")
             t == WithStatus(d, hit, "stopped")
  <1>1. /\ out \in SUBSET RunIds /\ "returned" \in CallerStates /\ "stopped" \in Statuses
        /\ \A x \in out : s.runs[x].phase # "idle"
    BY DEF Queue, CallerStates, Statuses
  <1>2. Aborted(s, S) = t
    BY DEF Aborted
  <1> HIDE DEF hit, out
  <1>3. Named(d) /\ d \in State
    BY <1>1, DroppedNamed
  <1> HIDE DEF d
  <1>4. t \in State /\ t.runs = d.runs
    BY <1>1, <1>3, WithStatusFacts
  <1> HIDE DEF t
  <1>5. QED
    BY <1>2, <1>3, <1>4 DEF Named

\* A requested run moves on, and only a first one to a discard.
LEMMA InPhaseNamed ==
    ASSUME NEW s \in State, Named(s), NEW x \in RunIds, s.runs[x].phase # "idle",
           NEW phase \in Phases \ {"copying"}, phase = "discarding" => x[2] = 0
    PROVE  Named(InPhase(s, x, phase)) /\ InPhase(s, x, phase) \in State
  <1> DEFINE t == InPhase(s, x, phase)
  <1>1. /\ t \in State
        /\ \A y \in RunIds \ {x} : t.runs[y] = s.runs[y]
        /\ t.runs[x].phase = phase /\ t.runs[x].kind = s.runs[x].kind
    BY InPhaseFacts
  <1> HIDE DEF t
  <1>2. ASSUME NEW y \in RunIds PROVE NamedRun(t.runs[y], y)
    BY <1>1 DEF Named, NamedRun
  <1>3. QED
    BY <1>1, <1>2 DEF Named, t

\* startAgent copies for a spawn only.
LEMMA StartedNamed ==
    ASSUME NEW s \in State, Named(s), NEW X \in SUBSET RunIds,
           \A x \in X : x[2] = 0 \/ s.runs[x].kind # "spawn"
    PROVE  Named(Started(s, X)) /\ Started(s, X) \in State
  <1> DEFINE copies(x) == s.runs[x].kind = "spawn" /\ s.rec[x[1]].opt.worktree
             charged(pool) == {x \in X : Charge(s, x) = pool}
             t == Started(s, X)
  <1>1. s \in State /\ X \in SUBSET RunIds
    OBVIOUS
  <1>2. /\ t \in State /\ t.agents = s.agents
        /\ \A a \in Agents :
              /\ t.rec[a].status = IF \E x \in X : x[1] = a THEN "running" ELSE s.rec[a].status
              /\ t.rec[a].isBackground = s.rec[a].isBackground
              /\ t.rec[a].owner = s.rec[a].owner
              /\ t.caller[a] = IF <<a, 0>> \in X /\ ~copies(<<a, 0>>) /\ s.caller[a] = "start"
                               THEN "run" ELSE s.caller[a]
        /\ \A x \in RunIds \ X : t.runs[x] = s.runs[x]
        /\ \A x \in X : /\ t.runs[x].phase = IF copies(x) THEN "copying" ELSE "running"
                        /\ t.runs[x].pool = Charge(s, x)
                        /\ t.runs[x].kind = s.runs[x].kind
        /\ t.bg = s.bg + Cardinality(charged("background"))
        /\ t.fg = s.fg + Cardinality(charged("foreground"))
    BY <1>1, StartedFacts
  <1> HIDE DEF t
  <1>3. ASSUME NEW x \in RunIds PROVE NamedRun(t.runs[x], x)
    BY <1>2 DEF Named, NamedRun
  <1>4. QED
    BY <1>2, <1>3 DEF Named, t

\* drainQueue drops and starts requested runs.
LEMMA DrainedNamed ==
    ASSUME NEW s \in State, Named(s), NEW gone \in SUBSET MayBeGone(s)
    PROVE  Named(Drained(s, gone)) /\ Drained(s, gone) \in State
  <1> DEFINE taken == Reached(s, gone)
             S1 == taken \ Startable(s)
             S2 == taken \cap gone
             S3 == (taken \cap Startable(s)) \ gone
             ids == {x[1] : x \in S2}
             stale == Dropped(s, S1, "returned")
             unmade == Dropped(stale, S2, "threw")
             failed == WithStatus(unmade, ids, "error")
  <1>1. /\ S1 \in SUBSET RunIds /\ S2 \in SUBSET RunIds /\ S3 \in SUBSET RunIds
        /\ S1 \cap S2 = {} /\ S1 \cap S3 = {} /\ S2 \cap S3 = {}
        /\ \A x \in S1 \cup S2 \cup S3 : s.runs[x].phase = "queued"
    BY DEF Reached, Startable, MayBeGone, Queue
  <1>2. "returned" \in CallerStates /\ "threw" \in CallerStates /\ "error" \in Statuses
    BY DEF CallerStates, Statuses
  <1> HIDE DEF S1, S2, S3, ids
  <1>3. /\ Named(stale) /\ stale \in State
        /\ \A x \in S2 \cup S3 : stale.runs[x] = s.runs[x]
    <2>1. S1 \in SUBSET RunIds /\ "returned" \in CallerStates /\ \A x \in S1 : s.runs[x].phase # "idle"
      BY <1>1, <1>2
    <2>2. Named(stale) /\ stale \in State
      BY <2>1, DroppedNamed
    <2>3. \A x \in RunIds \ S1 : stale.runs[x] = s.runs[x]
      BY <2>1, DroppedFacts
    <2>4. QED
      BY <1>1, <2>2, <2>3
  <1> HIDE DEF stale
  <1>4. /\ Named(unmade) /\ unmade \in State
        /\ \A x \in S3 : unmade.runs[x] = s.runs[x]
    <2>1. S2 \in SUBSET RunIds /\ "threw" \in CallerStates /\ \A x \in S2 : stale.runs[x].phase # "idle"
      BY <1>1, <1>2, <1>3
    <2>2. Named(unmade) /\ unmade \in State
      BY <1>3, <2>1, DroppedNamed
    <2>3. \A x \in RunIds \ S2 : unmade.runs[x] = stale.runs[x]
      BY <1>3, <2>1, DroppedFacts
    <2>4. QED
      BY <1>1, <1>3, <2>2, <2>3
  <1> HIDE DEF unmade
  <1>5. failed \in State /\ failed.runs = unmade.runs
    BY <1>2, <1>4, WithStatusFacts
  <1> HIDE DEF failed
  <1>6. Named(failed) /\ \A x \in S3 : x[2] = 0 \/ failed.runs[x].kind # "spawn"
    BY <1>1, <1>4, <1>5 DEF Named, NamedRun
  <1>7. Named(Started(failed, S3)) /\ Started(failed, S3) \in State
    BY <1>1, <1>5, <1>6, StartedNamed
  <1>8. QED
    BY <1>7 DEF Drained, failed, unmade, stale, ids, S1, S2, S3

\* settleRun settles a requested run.
LEMMA SettledNamed ==
    ASSUME NEW s \in State, Named(s), NEW x \in RunIds, s.runs[x].phase \in {"running", "cleanup"}
    PROVE  Named(Settled(s, x)) /\ Settled(s, x) \in State
  <1> DEFINE o == Aborted(s, OwnedChildren(s, x[1]))
             r == Released(o, Refund(o, x))
             f == InPhase(r, x, "settled")
             C == [a \in Agents |-> IF x = <<a, 0>> /\ f.caller[a] = "run" THEN "returned" ELSE f.caller[a]]
             u == [f EXCEPT !.caller = C]
  <1>1. Named(o) /\ o \in State
    BY AbortedNamed
  <1>2. o.runs[x] = s.runs[x]
    BY AbortedCarries DEF Queue
  <1> HIDE DEF o
  <1>3. r \in State /\ r.runs = o.runs
    BY <1>1, ReleasedFacts
  <1> HIDE DEF r
  <1>4. Named(f) /\ f \in State
    <2>1. "settled" \in Phases \ {"copying"} /\ Named(r) /\ r.runs[x].phase # "idle"
      BY <1>1, <1>2, <1>3 DEF Phases, Named
    <2>2. QED
      BY <1>3, <2>1, InPhaseNamed
  <1> HIDE DEF f
  <1>5. C \in [Agents -> CallerStates]
    <2>1. f.caller \in [Agents -> CallerStates]
      BY <1>4, StateParts
    <2>2. QED
      BY <2>1 DEF CallerStates
  <1> HIDE DEF C
  <1>6. u \in State /\ u.runs = f.runs
    BY <1>4, <1>5 DEF State
  <1> HIDE DEF u
  <1>7. Named(u)
    BY <1>4, <1>6 DEF Named
  <1>8. QED
    BY <1>6, <1>7 DEF Settled, u, C, f, r, o

\* A first run is asked for as a spawn, a later one as a resume.
LEMMA AskedNamed ==
    ASSUME NEW s \in State, Named(s), NEW x \in RunIds, NEW kind \in {"spawn", "resume", "inline"},
           x[2] = 0 <=> kind = "spawn", s.runs[x].phase = "idle"
    PROVE  LET t == Started(Requested(s, x, kind), {x}) IN Named(t) /\ t \in State
  <1> DEFINE r == [s.runs[x] EXCEPT !.kind = kind]
             U == [s.runs EXCEPT ![x] = r]
             q == [s EXCEPT !.runs = U]
  <1>1. s.runs \in [RunIds -> Run]
    BY StateParts
  <1>2. r \in Run /\ r.kind = kind /\ r.phase = "idle"
    BY <1>1 DEF Run
  <1>3. [s.runs EXCEPT ![x].kind = kind] = U
    BY <1>1
  <1>4. Requested(s, x, kind) = q
    BY <1>3 DEF Requested
  <1> HIDE DEF r
  <1>5. U \in [RunIds -> Run] /\ U[x] = r /\ \A y \in RunIds \ {x} : U[y] = s.runs[y]
    BY <1>1, <1>2
  <1> HIDE DEF U
  <1>6. q \in State /\ q.runs = U
    BY <1>5 DEF State
  <1> HIDE DEF q
  <1>7. Named(q)
    <2>1. ASSUME NEW y \in RunIds PROVE NamedRun(q.runs[y], y)
      BY <1>2, <1>5, <1>6 DEF Named, NamedRun
    <2>2. QED
      BY <2>1 DEF Named
  <1>8. {x} \in SUBSET RunIds /\ \A y \in {x} : y[2] = 0 \/ q.runs[y].kind # "spawn"
    BY <1>2, <1>5, <1>6
  <1>9. Named(Started(q, {x})) /\ Started(q, {x}) \in State
    BY <1>6, <1>7, <1>8, StartedNamed
  <1>10. QED
    BY <1>4, <1>9

\* ... or is pushed.
LEMMA EnqueuedNamed ==
    ASSUME NEW s \in State, Named(s), NEW x \in RunIds, NEW kind \in {"spawn", "resume", "inline"},
           x[2] = 0 <=> kind = "spawn", NEW pool \in Pools
    PROVE  Named(Enqueued(s, x, kind, pool)) /\ Enqueued(s, x, kind, pool) \in State
  <1> DEFINE r == [phase |-> "queued", pool |-> pool, kind |-> kind, wasQueued |-> TRUE,
                   clash |-> FALSE, ahead |-> Queue(s)]
             U == [s.runs EXCEPT ![x] = r]
             q == [s EXCEPT !.runs = U]
             t == WithStatus(q, {x[1]}, "queued")
  <1>1. r \in Run /\ r.phase = "queued" /\ r.kind = kind /\ "queued" \in Statuses
    BY DEF Run, Phases, Pools, Queue, Statuses
  <1>2. Enqueued(s, x, kind, pool) = t
    BY DEF Enqueued
  <1> HIDE DEF r
  <1>3. U \in [RunIds -> Run] /\ U[x] = r /\ \A y \in RunIds \ {x} : U[y] = s.runs[y]
    BY <1>1, StateParts
  <1> HIDE DEF U
  <1>4. q \in State /\ q.runs = U
    BY <1>3 DEF State
  <1> HIDE DEF q
  <1>5. t \in State /\ t.runs = U
    BY <1>1, <1>4, WithStatusFacts
  <1> HIDE DEF t
  <1>6. ASSUME NEW y \in RunIds PROVE NamedRun(t.runs[y], y)
    BY <1>1, <1>3, <1>5 DEF Named, NamedRun
  <1>7. QED
    BY <1>2, <1>5, <1>6 DEF Named

\* spawn asks for a first run.
LEMMA SpawnedNamed ==
    ASSUME NEW s \in State, NEW a \in Agents, Named(s), NEW o,
           s.runs[<<a, 0>>].phase = "idle"
    PROVE  Named(Spawned(s, a, o)) /\ Spawned(s, a, o) \in State
  <1> DEFINE x == <<a, 0>>
             pool == PoolFor(s, s.rec[a])
             queues == pool # "none" /\ ~o.bypassQueue /\ ~PoolHasRoom(s, pool)
             started == Started(Requested(s, x, "spawn"), {x})
             d == Dropped(s, {x}, "returned")
             refused == WithStatus(d, {a}, "stopped")
  <1>1. x \in RunIds /\ x[2] = 0
    BY RunIdParts
  <1>2. Named(refused) /\ refused \in State
    <2>1. /\ {x} \in SUBSET RunIds /\ "returned" \in CallerStates /\ "stopped" \in Statuses
          /\ \A y \in {x} : y[2] = 0
      BY <1>1 DEF CallerStates, Statuses
    <2>2. Named(d) /\ d \in State
      <3> HIDE DEF x
      <3> QED BY <2>1, DroppedNamed
    <2> HIDE DEF d
    <2>3. refused \in State /\ refused.runs = d.runs
      BY <2>1, <2>2, WithStatusFacts
    <2> HIDE DEF refused
    <2>4. QED
      BY <2>2, <2>3 DEF Named
  <1>3. queues => Named(Enqueued(s, x, "spawn", pool)) /\ Enqueued(s, x, "spawn", pool) \in State
    <2>1. pool # "none" => pool \in Pools
      BY DEF PoolFor, Pools
    <2>2. QED
      BY <1>1, <2>1, EnqueuedNamed
  <1>4. Named(started) /\ started \in State
    BY <1>1, AskedNamed
  <1> HIDE DEF started
  <1>5. Named(Aborted(started, {a})) /\ Aborted(started, {a}) \in State
    BY <1>4, AbortedNamed
  <1>6. CASE queues /\ o.aborted
    BY <1>2, <1>6 DEF Spawned
  <1>7. CASE queues /\ ~o.aborted
    BY <1>3, <1>7 DEF Spawned
  <1>8. CASE ~queues
    <2>1. Spawned(s, a, o) = IF o.aborted /\ ~o.worktree THEN Aborted(started, {a}) ELSE started
      BY <1>8 DEF Spawned, started
    <2>2. QED
      BY <1>4, <1>5, <2>1
  <1>9. QED
    BY <1>6, <1>7, <1>8

\* An action that takes the manager to a state with such runs.
LEMMA BecomesNamed ==
    ASSUME NEW STATE t, t \in State, Named(t), Becomes(t)
    PROVE  Named(Here')
  BY BecomesHere

\* An action that ends with drainQueue.
LEMMA DrainQueueNamed ==
    ASSUME NEW STATE t, t \in State, Named(t), DrainQueue(t)
    PROVE  Named(Here')
  <1>1. PICK gone \in SUBSET MayBeGone(t) : Becomes(Drained(t, gone))
    BY DEF DrainQueue
  <1>2. Named(Drained(t, gone)) /\ Drained(t, gone) \in State
    BY DrainedNamed
  <1>3. QED
    BY <1>1, <1>2, BecomesNamed

\* An action that ends with settleRun.
LEMMA SettleRunNamed ==
    ASSUME NEW STATE t, t \in State, Named(t), NEW x \in RunIds,
           t.runs[x].phase \in {"running", "cleanup"}, SettleRun(t, x)
    PROVE  Named(Here')
  <1>1. Named(Settled(t, x)) /\ Settled(t, x) \in State
    BY SettledNamed
  <1>2. QED
    BY <1>1, BecomesNamed, DrainQueueNamed DEF SettleRun

\* spawn and spawnAndWait.
LEMMA SpawnNames ==
    ASSUME IInv(Here), Named(Here), NEW a \in Agents, NEW o \in SpawnOptions,
           NEW owner \in Agents \cup {NoOwner, Workflow}, Spawn(a, o, owner)
    PROVE  Named(Here')
  <1> DEFINE i == Inserted(Here, a, o, owner)
             t == Spawned(i, a, o)
             phase == t.runs[<<a, 0>>].phase
             c == CASE phase \in {"queued", "copying"} -> "start"
                    [] phase = "running" -> "run"
                    [] OTHER -> "returned"
             C == [t.caller EXCEPT ![a] = c]
             w == [t EXCEPT !.caller = C]
  <1>1. Here.rec[a].status = "none" /\ Here \in State
    BY HereParts DEF Spawn, IInv
  <1>2. IInv(i) /\ i.runs = Here.runs /\ \A x \in RunIds : x[1] = a => i.runs[x].phase = "idle"
    BY <1>1, InsertedInv
  <1> HIDE DEF i
  <1>3. i \in State /\ Named(i) /\ i.runs[<<a, 0>>].phase = "idle"
    BY <1>2, RunIdParts DEF IInv, Named
  <1>4. Named(t) /\ t \in State
    BY <1>3, SpawnedNamed
  <1> HIDE DEF t
  <1>5. C \in [Agents -> CallerStates]
    <2>1. c \in CallerStates
      BY DEF CallerStates
    <2> HIDE DEF c
    <2>2. QED
      BY <1>4, <2>1, StateParts
  <1> HIDE DEF C
  <1>6. w \in State /\ w.runs = t.runs
    BY <1>4, <1>5 DEF State
  <1>7. Becomes(t) \/ Becomes(w)
    BY DEF Spawn, Awaited, w, C, c, t, i
  <1> HIDE DEF w
  <1>8. Named(w)
    BY <1>4, <1>6 DEF Named
  <1>9. QED
    BY <1>4, <1>6, <1>7, <1>8, BecomesNamed

\* startAgent after createWorktree: only a spawn got there.
LEMMA CopyDoneNames ==
    ASSUME IInv(Here), Named(Here), NEW a \in Agents, NEW esc, CopyDone(a, esc)
    PROVE  Named(Here')
  <1> DEFINE x == <<a, 0>>
             p == InPhase(Here, x, "running")
             C == [caller EXCEPT ![a] = IF @ = "start" THEN "run" ELSE @]
             launched == [p EXCEPT !.caller = C]
             g == InPhase(Here, x, "discarding")
             freed == Released(g, runs[x].pool)
  <1>1. /\ Here \in State /\ x \in RunIds /\ x[2] = 0 /\ Here.runs[x].phase # "idle"
        /\ caller \in [Agents -> CallerStates]
        /\ "running" \in Phases \ {"copying"} /\ "discarding" \in Phases \ {"copying"}
    BY RunIdParts, HereParts, StateParts DEF IInv, CopyDone, Phases
  <1>2. Named(launched) /\ launched \in State
    <2>1. Named(p) /\ p \in State
      <3> HIDE DEF x
      <3> QED BY <1>1, InPhaseNamed
    <2> HIDE DEF p
    <2>2. C \in [Agents -> CallerStates]
      BY <1>1 DEF CallerStates
    <2> HIDE DEF C
    <2>3. launched \in State /\ launched.runs = p.runs
      BY <2>1, <2>2 DEF State
    <2> HIDE DEF launched
    <2>4. QED
      BY <2>1, <2>3 DEF Named
  <1>3. Named(freed) /\ freed \in State
    <2>1. Named(g) /\ g \in State
      <3> HIDE DEF x
      <3> QED BY <1>1, InPhaseNamed
    <2> HIDE DEF g
    <2>2. freed \in State /\ freed.runs = g.runs
      BY <2>1, ReleasedFacts
    <2> HIDE DEF freed
    <2>3. QED
      BY <2>1, <2>2 DEF Named
  <1> HIDE DEF launched, freed
  <1>4. Named(Aborted(launched, {a})) /\ Aborted(launched, {a}) \in State
    BY <1>2, AbortedNamed
  <1>5. Becomes(launched) \/ Becomes(Aborted(launched, {a})) \/ Becomes(freed)
    BY DEF CopyDone, launched, p, C, freed, g
  <1>6. QED
    BY <1>2, <1>3, <1>4, <1>5, BecomesNamed

\* A failed copy, and the end of a discard.
LEMMA CopyEndNames ==
    ASSUME IInv(Here), Named(Here), NEW a \in Agents, CopyFailed(a) \/ DiscardDone(a)
    PROVE  Named(Here')
  <1> DEFINE x == <<a, 0>>
             d(result) == Dropped(Here, {x}, result)
             freed == Released(d("threw"), runs[x].pool)
             failed == WithStatus(freed, {a}, "error")
             A == agents \ {a}
             gone == [freed EXCEPT !.agents = A]
  <1>1. /\ Here \in State /\ {x} \in SUBSET RunIds /\ \A y \in {x} : y[2] = 0
        /\ "threw" \in CallerStates /\ "returned" \in CallerStates /\ "error" \in Statuses
    BY RunIdParts DEF IInv, CallerStates, Statuses
  <1>2. ASSUME NEW result \in CallerStates
        PROVE  Named(d(result)) /\ d(result) \in State /\ d(result).agents = Here.agents
    <2> HIDE DEF x
    <2>1. QED
      BY <1>1, DroppedNamed, DroppedFacts
  <1>3. /\ Named(d("threw")) /\ d("threw") \in State /\ d("threw").agents = Here.agents
        /\ Named(d("returned")) /\ d("returned") \in State
    BY <1>1, <1>2
  <1>4. \/ DrainQueue(failed) \/ DrainQueue(gone)
        \/ DrainQueue(d("returned"))
    BY DEF CopyFailed, DiscardDone
  <1> HIDE DEF d
  <1>5. freed \in State /\ freed.agents = Here.agents /\ freed.runs = d("threw").runs
    BY <1>3, ReleasedFacts
  <1> HIDE DEF freed
  <1>6. failed \in State /\ failed.runs = freed.runs
    BY <1>1, <1>5, WithStatusFacts
  <1>7. gone \in State /\ gone.runs = freed.runs
    <2>1. A \in SUBSET Agents
      BY <1>1, HereParts, StateParts
    <2> HIDE DEF A
    <2>2. QED
      BY <1>5, <2>1 DEF State
  <1> HIDE DEF failed, gone
  <1>8. Named(failed) /\ Named(gone)
    BY <1>3, <1>5, <1>6, <1>7 DEF Named
  <1>9. QED
    BY <1>3, <1>4, <1>6, <1>7, <1>8, DrainQueueNamed

\* onSessionCreated.
LEMMA SessionCreatedNames ==
    ASSUME IInv(Here), Named(Here), NEW a \in Agents, SessionCreated(a)
    PROVE  Named(Here')
  <1>1. Here.runs' = Here.runs
    BY DEF SessionCreated, Becomes, Here
  <1>2. QED
    BY <1>1 DEF Named

\* The end of a run.
LEMMA RunEndsNames ==
    ASSUME IInv(Here), Named(Here), NEW x \in RunIds, NEW outcome \in {"completed", "error"},
           RunEnds(x, outcome)
    PROVE  Named(Here')
  <1> DEFINE e == Ended(Here, x, outcome)
             t == InPhase(e, x, "cleanup")
  <1>1. Here \in State /\ "cleanup" \in Phases \ {"copying"} /\ Here.runs[x].phase = "running"
    BY HereParts DEF IInv, Phases, RunEnds
  <1>2. e \in State /\ e.runs = Here.runs
    BY <1>1, EndedCarries
  <1>3. Becomes(t) \/ SettleRun(e, x)
    BY DEF RunEnds
  <1> HIDE DEF e
  <1>4. Named(e) /\ e.runs[x].phase = "running"
    BY <1>1, <1>2 DEF Named
  <1>5. Named(t) /\ t \in State
    BY <1>1, <1>2, <1>4, InPhaseNamed
  <1> HIDE DEF t
  <1>6. QED
    BY <1>2, <1>3, <1>4, <1>5, BecomesNamed, SettleRunNamed

\* The end of a run's cleanup.
LEMMA CleanupDoneNames ==
    ASSUME IInv(Here), Named(Here), NEW a \in Agents, CleanupDone(a)
    PROVE  Named(Here')
  <1> DEFINE x == <<a, 0>>
  <1>1. Here \in State /\ x \in RunIds /\ Here.runs[x].phase \in {"running", "cleanup"}
    BY RunIdParts, HereParts DEF IInv, CleanupDone
  <1>2. SettleRun(Here, x)
    BY DEF CleanupDone
  <1> HIDE DEF x
  <1>3. QED
    BY <1>1, <1>2, SettleRunNamed

\* A resume asks for a later run.
LEMMA ResumeNames ==
    ASSUME IInv(Here), Named(Here), NEW a \in Agents, NEW k \in 1..MaxResumes,
           ResumeBackground(a, k) \/ ResumeInline(a, k)
    PROVE  Named(Here')
  <1> DEFINE x == <<a, k>>
             R == [rec EXCEPT ![a].isBackground = TRUE, ![a].status = "queued"]
             u == [Here EXCEPT !.rec = R]
  <1>1. x \in RunIds /\ x[2] # 0 /\ Here.runs[x].phase = "idle"
    BY HereParts, ConstantsAssumption DEF ResumeBackground, ResumeInline, NextRun, RunIds
  <1>2. Here \in State /\ rec \in [Agents -> AgentRecord]
    BY HereParts, StateParts DEF IInv
  <1>3. R \in [Agents -> AgentRecord]
    BY <1>2, SMTT(30), ZenonT(40) DEF AgentRecord, Statuses
  <1>4. \/ Becomes(Enqueued(u, x, "resume", "background"))
        \/ Becomes(Started(Requested(u, x, "resume"), {x}))
        \/ Becomes(Started(Requested(Here, x, "inline"), {x}))
    BY DEF ResumeBackground, ResumeInline
  <1> HIDE DEF R, x
  <1>5. u \in State /\ u.runs = Here.runs
    BY <1>2, <1>3 DEF State
  <1> HIDE DEF u
  <1>6. Named(u)
    BY <1>5 DEF Named
  <1>7. /\ Named(Enqueued(u, x, "resume", "background"))
        /\ Enqueued(u, x, "resume", "background") \in State
    <2>1. "background" \in Pools
      BY DEF Pools
    <2>2. QED
      BY <1>1, <1>5, <1>6, <2>1, EnqueuedNamed
  <1>8. /\ Named(Started(Requested(u, x, "resume"), {x}))
        /\ Started(Requested(u, x, "resume"), {x}) \in State
    BY <1>1, <1>5, <1>6, AskedNamed
  <1>9. /\ Named(Started(Requested(Here, x, "inline"), {x}))
        /\ Started(Requested(Here, x, "inline"), {x}) \in State
    BY <1>1, <1>2, AskedNamed
  <1>10. QED
    BY <1>4, <1>7, <1>8, <1>9, BecomesNamed

\* The limits, and what ends agents: abort, eviction, shutdown.
LEMMA SettingsNames ==
    ASSUME IInv(Here), Named(Here),
           \/ \E a \in Agents : Abort(a)
           \/ \E S \in SUBSET Agents : Evict(S)
           \/ \E n \in BgLimits : SetMaxConcurrent(n)
           \/ \E n \in FgLimits : SetMaxConcurrentForeground(n)
           \/ Shutdown
    PROVE  Named(Here')
  <1>1. Here \in State
    BY DEF IInv
  <1>2. ASSUME NEW a \in Agents, Abort(a) PROVE Named(Here')
    BY <1>1, <1>2, AbortedNamed, BecomesNamed DEF Abort
  <1>3. ASSUME NEW S \in SUBSET Agents, Evict(S) PROVE Named(Here')
    <2>1. Here.runs' = Here.runs
      BY <1>3 DEF Evict, Becomes, Here
    <2>2. QED
      BY <2>1 DEF Named
  <1>4. ASSUME NEW n \in BgLimits, SetMaxConcurrent(n) PROVE Named(Here')
    <2> DEFINE u == [Here EXCEPT !.bgLimit = n]
    <2>1. u \in State /\ u.runs = Here.runs
      BY <1>1, ConstantsAssumption DEF State
    <2>2. DrainQueue(u)
      BY <1>4 DEF SetMaxConcurrent
    <2> HIDE DEF u
    <2>3. QED
      BY <2>1, <2>2, DrainQueueNamed DEF Named
  <1>5. ASSUME NEW n \in FgLimits, SetMaxConcurrentForeground(n) PROVE Named(Here')
    <2> DEFINE u == [Here EXCEPT !.fgLimit = n]
    <2>1. u \in State /\ u.runs = Here.runs
      BY <1>1, ConstantsAssumption DEF State
    <2>2. DrainQueue(u)
      BY <1>5 DEF SetMaxConcurrentForeground
    <2> HIDE DEF u
    <2>3. QED
      BY <2>1, <2>2, DrainQueueNamed DEF Named
  <1>6. ASSUME Shutdown PROVE Named(Here')
    <2> DEFINE d == Dropped(Here, Queue(Here), "returned")
    <2>1. /\ Queue(Here) \in SUBSET RunIds /\ "returned" \in CallerStates
          /\ \A x \in Queue(Here) : Here.runs[x].phase # "idle"
      BY DEF Queue, CallerStates
    <2>2. Named(d) /\ d \in State
      BY <1>1, <2>1, DroppedNamed
    <2>3. Here.runs' = d.runs
      BY <1>6 DEF Shutdown, Becomes, Here, WithStatus, Dropped
    <2> HIDE DEF d
    <2>4. QED
      BY <2>2, <2>3 DEF Named
  <1>7. QED
    BY <1>2, <1>3, <1>4, <1>5, <1>6

\* Every step keeps it.
LEMMA NextNamed == IInv(Here) /\ Named(Here) /\ [Next]_vars => Named(Here')
  <1> SUFFICES ASSUME IInv(Here), Named(Here), [Next]_vars PROVE Named(Here')
    OBVIOUS
  <1>1. ASSUME NEW a \in Agents, NEW o \in Options, NEW owner \in Owners(o), Spawn(a, o, owner)
        PROVE  Named(Here')
    <2>1. o \in SpawnOptions
      BY ConstantsAssumption
    <2>2. agents \in SUBSET Agents
      BY HereParts, StateParts DEF IInv
    <2>3. owner \in Agents \cup {NoOwner, Workflow}
      <3>1. CASE o.owner = "none"
        BY <1>1, <3>1 DEF Owners
      <3>2. CASE o.owner # "none" /\ o.owner = "workflow"
        BY <1>1, <3>2 DEF Owners
      <3>3. CASE o.owner # "none" /\ o.owner # "workflow"
        BY <1>1, <2>2, <3>3 DEF Owners
      <3>4. QED
        BY <3>1, <3>2, <3>3
    <2>4. QED
      BY <1>1, <2>1, <2>3, SpawnNames
  <1>2. CASE Request
    BY <1>1, <1>2, ResumeNames, SettingsNames DEF Request
  <1>3. ASSUME NEW a \in Agents, SessionCreated(a) PROVE Named(Here')
    BY <1>3, SessionCreatedNames
  <1>4. ASSUME NEW a \in Agents, Answer(a) PROVE Named(Here')
    <2>1. \A x \in RunsOf(a) : x \in RunIds
      BY DEF RunsOf
    <2>2. QED
      BY <1>4, <2>1, CopyDoneNames, CopyEndNames, CleanupDoneNames, RunEndsNames DEF Answer
  <1>5. CASE UNCHANGED vars
    <2>1. Here' = Here
      BY <1>5 DEF Here, vars
    <2>2. QED
      BY <2>1
  <1>6. QED
    BY <1>2, <1>3, <1>4, <1>5 DEF Next

\* What the proof about waitForAll uses of the agents.
Known == Inv /\ Used /\ Concluding /\ AtWork /\ Named(Here)

\* It holds from the start.
LEMMA KnownFirst == Init => Known
  <1> SUFFICES ASSUME Init PROVE Known
    OBVIOUS
  <1>1. Inv /\ Used /\ Concluding /\ AtWork
    BY InitInv, UsedFirst, ConcludingFirst, AtWorkFirst DEF Inv
  <1>2. Named(Here)
    <2>1. \A x \in RunIds : Here.runs[x].kind = "spawn" /\ Here.runs[x].phase = "idle"
      BY HereParts DEF Init
    <2>2. QED
      BY <2>1 DEF Named, NamedRun
  <1>3. QED
    BY <1>1, <1>2 DEF Known

\* The steps of the agents keep it.
LEMMA KnownNext == Known /\ [Next]_vars => Known'
  <1> SUFFICES ASSUME Known, [Next]_vars PROVE Known'
    OBVIOUS
  <1>1. IInv(Here) /\ Kept(Here) /\ Conclusive(Here) /\ AllManned(Here) /\ Named(Here)
    BY DEF Known, Inv, Used, Concluding, AtWork
  <1>2. IInv(Here')
    BY <1>1, NextInv
  <1>3. Used'
    BY UsedNext DEF Known
  <1>4. Conclusive(Here')
    BY <1>1, NextConcludes
  <1>5. AllManned(Here')
    BY <1>1, NextManned DEF Kept, Lined
  <1>6. Named(Here')
    BY <1>1, NextNamed
  <1>7. QED
    BY <1>2, <1>3, <1>4, <1>5, <1>6 DEF Known, Inv, Concluding, AtWork

\* ... and the drain a turn of waitForAll begins with.
LEMMA KnownTurn == Known /\ DrainQueue(Here) => Known'
  <1> SUFFICES ASSUME Known, DrainQueue(Here) PROVE Known'
    OBVIOUS
  <1>1. /\ IInv(Here) /\ Kept(Here) /\ Conclusive(Here) /\ AllManned(Here) /\ Named(Here)
        /\ Here \in State
    BY DEF Known, Inv, Used, Concluding, AtWork, IInv
  <1>2. IInv(Here')
    BY <1>1, DrainQueueInv
  <1>3. Kept(Here')
    <2>1. Here.bg <= Here.bg /\ Here.fg <= Here.fg /\ Lined(Here)
      BY <1>1, StateParts DEF Kept
    <2>2. QED
      BY <1>1, <2>1, DrainStep
  <1>4. Conclusive(Here')
    <2>1. PICK gone \in SUBSET MayBeGone(Here) : Becomes(Drained(Here, gone))
      BY DEF DrainQueue
    <2>2. Drained(Here, gone) \in State
      BY <1>1, DrainedFates
    <2>3. Conclusive(Drained(Here, gone))
      BY <1>1, DrainedConcludes
    <2>4. QED
      BY <2>1, <2>2, <2>3, BecomesConcludes
  <1>5. AllManned(Here')
    BY <1>1, DrainQueueManned
  <1>6. Named(Here')
    BY <1>1, DrainQueueNamed
  <1>7. QED
    BY <1>2, <1>3, <1>4, <1>5, <1>6 DEF Known, Inv, Used, Concluding, AtWork

\* Of a nonempty set of runs of an agent one is the last.
LEMMA LastRun ==
    ASSUME NEW a, NEW W \in SUBSET RunsOf(a), W # {}
    PROVE  \E m \in W : \A y \in W : y[2] <= m[2]
  <1> DEFINE N == {MaxResumes - y[2] : y \in W}
  <1>1. \A y \in W : y[2] \in 0..MaxResumes
    BY DEF RunsOf, RunIds
  <1>2. N \subseteq Nat /\ N # {}
    BY <1>1, ConstantsAssumption
  <1>3. PICK n \in N : \A k \in N : n <= k
    <2> HIDE DEF N
    <2>1. QED
      BY <1>2, LeastNat
  <1>4. PICK m \in W : n = MaxResumes - m[2]
    OBVIOUS
  <1>5. ASSUME NEW y \in W PROVE y[2] <= m[2]
    <2>1. n <= MaxResumes - y[2]
      BY <1>3
    <2>2. QED
      BY <1>1, <1>4, <2>1, ConstantsAssumption
  <1>6. QED
    BY <1>5

\* waitForAll finds a running agent: its startup, or a promise.
LEMMA RunningIsFound ==
    ASSUME Known', NEW a \in agents', rec'[a].status = "running"
    PROVE  Pending # {}
  <1> DEFINE s == Here'
             W == {y \in RunsOf(a) : s.runs[y].kind # "inline"
                                       /\ s.runs[y].phase \in {"running", "cleanup", "settled"}}
  <1>1. /\ s \in State /\ AllManned(s) /\ Conclusive(s) /\ Named(s)
        /\ s.agents = agents' /\ s.rec = rec' /\ s.runs = runs'
    BY DEF Known, Inv, IInv, AtWork, Concluding, Here
  <1> HIDE DEF s
  <1>2. a \in Agents /\ <<a, 0>> \in RunIds /\ \A y \in RunsOf(a) : y \in RunIds /\ y[1] = a
    BY <1>1, StateParts, RunIdParts DEF RunsOf
  <1>3. PICK x \in RunsOf(a) : Works(s, x)
    BY <1>1 DEF AllManned, Manned
  <1>4. \A y \in RunIds : y[2] = 0 => y = <<y[1], 0>>
    BY DEF RunIds
  <1>5. rec'[a].status \in Active
    BY DEF Active
  <1>6. CASE s.runs[x].phase = "copying"
    <2>1. x = <<a, 0>>
      BY <1>1, <1>2, <1>4, <1>6 DEF Named, NamedRun
    <2>2. <<"startup", a>> \in Pending
      BY <1>1, <1>5, <1>6, <2>1 DEF Pending
    <2>3. QED
      BY <2>2
  <1>7. CASE s.runs[x].phase = "running"
    <2>1. s.runs[<<a, 0>>].phase \in {"running", "cleanup", "settled"}
      <3>1. CASE x = <<a, 0>>
        BY <1>7, <3>1
      <3>2. CASE x # <<a, 0>>
        <4>1. ReEntered(s, a)
          BY <1>7, <3>2 DEF ReEntered
        <4>2. s.runs[<<a, 0>>].phase \notin Early \cup {"dropped"}
          BY <1>1, <1>2, <4>1 DEF Conclusive, Concludes
        <4>3. s.runs[<<a, 0>>].phase \in Phases
          BY <1>1, <1>2, StateParts DEF Run
        <4>4. QED
          BY <4>2, <4>3 DEF Phases, Early
      <3>3. QED
        BY <3>1, <3>2
    <2>2. <<a, 0>> \in W
      BY <1>1, <1>2, <2>1 DEF Named, NamedRun, RunsOf
    <2>3. PICK m \in W : \A y \in W : y[2] <= m[2]
      <3>1. W \in SUBSET RunsOf(a) /\ W # {}
        BY <2>2
      <3> HIDE DEF W
      <3>2. QED
        BY <3>1, LastRun
    <2>4. ASSUME NEW y \in RunsOf(a), y[2] > m[2], s.runs[y].kind # "inline"
          PROVE  s.runs[y].phase \in {"idle", "queued", "dropped"}
      <3>1. y \in RunIds /\ m \in RunIds /\ y[2] \in Nat /\ m[2] \in Nat
        BY <1>2, <2>3 DEF RunIds
      <3>2. y \notin W /\ y[2] # 0
        BY <2>3, <2>4, <3>1
      <3>3. s.runs[y].phase \notin {"running", "cleanup", "settled"}
        BY <2>4, <3>2
      <3>4. s.runs[y].phase \notin {"copying", "discarding"}
        BY <1>1, <3>1, <3>2 DEF Named, NamedRun
      <3>5. s.runs[y].phase \in Phases
        BY <1>1, <3>1, StateParts DEF Run
      <3>6. QED
        BY <3>3, <3>4, <3>5 DEF Phases
    <2>5. m \in PromiseOf(a)
      BY <1>1, <2>3, <2>4 DEF PromiseOf
    <2>6. <<"promise", m>> \in Pending
      BY <1>5, <2>5 DEF Pending
    <2>7. QED
      BY <2>6
  <1>8. QED
    BY <1>3, <1>6, <1>7 DEF Works

\* waitForAll returns only when no agent runs: it misses neither one whose copy is still
\* being made, nor one that a foreground resume, which leaves no promise of its own,
\* has set running again.
THEOREM NoRunMissed == WaitSpec => RunningAwaited
  <1>1. WaitInit => Known
    BY KnownFirst DEF WaitInit
  <1>2. Known /\ [WaitNext]_allVars => Known'
    <2> SUFFICES ASSUME Known, [WaitNext]_allVars PROVE Known'
      OBVIOUS
    <2>1. CASE Next
      BY <2>1, KnownNext
    <2>2. CASE Turn
      BY <2>2, KnownTurn DEF Turn
    <2>3. CASE UNCHANGED allVars
      BY <2>3, KnownNext DEF allVars
    <2>4. QED
      BY <2>1, <2>2, <2>3 DEF WaitNext, WaitForAllCalled, WaitForAllWakes
  <1>3. Known /\ Known' /\ [WaitNext]_allVars =>
          [waiter # "returned" /\ waiter' = "returned" =>
              \A a \in agents' : rec'[a].status # "running"]_allVars
    <2> SUFFICES ASSUME Known', [WaitNext]_allVars, waiter # "returned", waiter' = "returned",
                        NEW a \in agents', rec'[a].status = "running"
                 PROVE  FALSE
      OBVIOUS
    <2>1. waiter' # waiter
      OBVIOUS
    <2>2. Turn
      BY <2>1 DEF WaitNext, WaitForAllCalled, WaitForAllWakes, waitVars, allVars
    <2>3. pending' = Pending /\ pending' = {}
      BY <2>2 DEF Turn
    <2>4. QED
      BY <2>3, RunningIsFound
  <1>4. QED
    BY <1>1, <1>2, <1>3, PTL DEF WaitSpec, RunningAwaited
=============================================================================
