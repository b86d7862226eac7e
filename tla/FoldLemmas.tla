----------------------------- MODULE FoldLemmas -----------------------------
(***************************************************************************)
(* Induction and recursion as facts about sets, for the proofs about       *)
(* operators that fold over a sequence or a set.  A property of numbers or *)
(* of sets is the set of those that have it, and the step of a fold is a   *)
(* function, so that every fact below is one the provers can instantiate.  *)
(***************************************************************************)
EXTENDS Integers, Sequences, FiniteSets, FiniteSetsExt, FiniteSetTheorems, FunctionTheorems, TLAPS

-----------------------------------------------------------------------------
(* Numbers.                                                                *)

\* Every nonempty set of natural numbers has a least element.
LEMMA LeastOf ==
  ASSUME NEW T, T \subseteq Nat, T # {} PROVE \E m \in T : \A k \in T : m <= k
<1> DEFINE R == {ss \in Nat \X Nat : ss[1] < ss[2]}
<1>0. IsWellFoundedOn(R, Nat)
  BY NatLessThanWellFounded DEF OpToRel
<1>1. PICK m \in T : \A k \in T : <<k, m>> \notin R
  <2> HIDE DEF R
  <2> QED BY <1>0, WFMin
<1>2. ASSUME NEW k \in T PROVE m <= k
  <2>1. k \in Nat /\ m \in Nat /\ <<k, m>> \in Nat \X Nat
    OBVIOUS
  <2>2. ~(k < m)
    BY <1>1, <2>1
  <2> QED BY <2>1, <2>2
<1> QED BY <1>2

\* Induction: a set that holds zero and the successor of each number in it.
LEMMA NatSetInduction ==
  ASSUME NEW B, 0 \in B, \A n \in Nat : n \in B => n + 1 \in B PROVE Nat \subseteq B
<1> SUFFICES ASSUME Nat \ B # {} PROVE FALSE
  OBVIOUS
<1>1. PICK m \in Nat \ B : \A k \in Nat \ B : m <= k
  BY LeastOf
<1>2. m # 0 /\ m - 1 \in Nat /\ (m - 1) + 1 = m /\ ~(m <= m - 1)
  BY <1>1
<1>3. m - 1 \in B
  BY <1>1, <1>2
<1> QED BY <1>1, <1>2, <1>3

\* Every nonempty set of naturals with an upper bound, and every nonempty finite set
\* of integers, has a greatest element: Max of it.
LEMMA MaxOf ==
  ASSUME NEW n \in Nat, NEW T, T \subseteq 0..n, T # {}
  PROVE  Max(T) \in T /\ \A k \in T : k <= Max(T)
<1> DEFINE U == {n - k : k \in T}
<1>1. U \subseteq Nat /\ U # {}
  <2>1. \A k \in T : n - k \in Nat
    OBVIOUS
  <2> QED BY <2>1
<1>2. PICK m \in U : \A k \in U : m <= k
  BY <1>1, LeastOf
<1>3. PICK x \in T : m = n - x
  BY <1>2
<1>4. ASSUME NEW k \in T PROVE x >= k
  <2>1. n - k \in U
    OBVIOUS
  <2>2. n - x <= n - k
    BY <1>2, <1>3, <2>1
  <2>3. x \in 0..n /\ k \in 0..n
    OBVIOUS
  <2> HIDE DEF U
  <2> QED BY <2>2, <2>3
<1> QED BY <1>4 DEF Max

LEMMA MinOf ==
  ASSUME NEW T, T \subseteq Nat, T # {}
  PROVE  Min(T) \in T /\ \A k \in T : Min(T) <= k
<1>1. PICK x \in T : \A k \in T : x <= k
  BY LeastOf
<1> QED BY <1>1 DEF Min

\* In a finite set of integers, an element's rank is the number of elements up to it:
\* the ranks are 1, 2, ... in the order of the elements.
LEMMA Ranks ==
  ASSUME NEW S, S \subseteq Int, IsFiniteSet(S)
  PROVE  /\ \A k \in 1..Cardinality(S) : \E x \in S : Cardinality({y \in S : y <= x}) = k
         /\ \A x \in S : Cardinality({y \in S : y <= x}) \in 1..Cardinality(S)
         /\ \A x, y \in S : x < y => Cardinality({z \in S : z <= x}) < Cardinality({z \in S : z <= y})
<1> DEFINE upTo(x) == {y \in S : y <= x}
           n == Cardinality(S)
           rank == [x \in S |-> Cardinality(upTo(x))]
<1>1. n \in Nat /\ IsFiniteSet(1..n) /\ Cardinality(1..n) = n
  BY FS_CardinalityType, FS_Interval
<1>2. \A x \in S : /\ IsFiniteSet(upTo(x)) /\ Cardinality(upTo(x)) \in 1..n
  <2> SUFFICES ASSUME NEW x \in S PROVE IsFiniteSet(upTo(x)) /\ Cardinality(upTo(x)) \in 1..n
    OBVIOUS
  <2>1. upTo(x) \in SUBSET S /\ x \in upTo(x)
    OBVIOUS
  <2> HIDE DEF upTo
  <2>2. IsFiniteSet(upTo(x)) /\ Cardinality(upTo(x)) <= n
    BY <2>1, FS_Subset
  <2>3. Cardinality(upTo(x)) \in Nat /\ Cardinality(upTo(x)) # 0
    BY <2>1, <2>2, FS_CardinalityType, FS_EmptySet
  <2> QED BY <1>1, <2>2, <2>3
<1>3. ASSUME NEW x \in S, NEW y \in S, x < y PROVE Cardinality(upTo(x)) < Cardinality(upTo(y))
  <2>0. x \in Int /\ y \in Int /\ \A z \in S : z \in Int
    OBVIOUS
  <2>1. upTo(x) \subseteq upTo(y) /\ y \in upTo(y) /\ y \notin upTo(x)
    <3>1. ASSUME NEW z \in upTo(x) PROVE z \in upTo(y)
      <4>1. z \in S /\ z \in Int /\ z <= x
        BY <2>0, <3>1
      <4>2. z <= y
        BY <1>3, <2>0, <4>1
      <4> QED BY <4>1, <4>2
    <3>2. y \in upTo(y)
      BY <2>0
    <3>3. ~(y <= x)
      BY <1>3, <2>0
    <3> QED BY <3>1, <3>2, <3>3
  <2> HIDE DEF upTo
  <2>2. Cardinality(upTo(x)) <= Cardinality(upTo(y)) /\ Cardinality(upTo(x)) # Cardinality(upTo(y))
    BY <1>2, <2>1, FS_Subset
  <2>3. Cardinality(upTo(x)) \in Int /\ Cardinality(upTo(y)) \in Int
    BY <1>1, <1>2
  <2> QED BY <2>2, <2>3
<1> HIDE DEF upTo
<1>4. rank \in [S -> 1..n]
  BY <1>2
<1>5. rank \in Injection(S, 1..n)
  <2>1. \A x, y \in S : rank[x] = rank[y] => x = y
    <3> SUFFICES ASSUME NEW x \in S, NEW y \in S, Cardinality(upTo(x)) = Cardinality(upTo(y)) PROVE x = y
      OBVIOUS
    <3>1. ~(x < y) /\ ~(y < x)
      BY <1>1, <1>2, <1>3
    <3> QED BY <3>1
  <2> QED BY <1>4, <2>1, Fun_IsInj
<1>6. rank \in Surjection(S, 1..n)
  BY <1>1, <1>5, FS_Injection
<1>7. \A k \in 1..n : \E x \in S : Cardinality(upTo(x)) = k
  BY <1>6 DEF Surjection
<1> QED BY <1>2, <1>3, <1>7 DEF upTo

-----------------------------------------------------------------------------
(* Finite sets.                                                            *)

\* A choice function for the nonempty subsets of D.
Chooses(c, D) == \A t \in SUBSET D : t # {} => c[t] \in t

\* Induction over the subsets of a finite set, an element at a time.
LEMMA SubsetInduction ==
  ASSUME NEW D, IsFiniteSet(D), NEW c, Chooses(c, D), NEW B, {} \in B,
         \A t \in SUBSET D : t # {} /\ t \ {c[t]} \in B => t \in B
  PROVE  SUBSET D \subseteq B
<1> DEFINE N == {n \in Nat : \A t \in SUBSET D : Cardinality(t) = n => t \in B}
<1>1. 0 \in N
  BY FS_Subset, FS_EmptySet
<1>2. ASSUME NEW n \in Nat, n \in N PROVE n + 1 \in N
  <2> SUFFICES ASSUME NEW t \in SUBSET D, Cardinality(t) = n + 1 PROVE t \in B
    OBVIOUS
  <2>1. IsFiniteSet(t) /\ t # {}
    BY FS_Subset, FS_EmptySet
  <2>2. c[t] \in t /\ t \ {c[t]} \in SUBSET D
    BY <2>1 DEF Chooses
  <2>3. Cardinality(t \ {c[t]}) = n
    <3>1. Cardinality(t \ {c[t]}) = Cardinality(t) - 1
      BY <2>1, <2>2, FS_RemoveElement
    <3> QED BY <3>1
  <2> QED BY <1>2, <2>1, <2>2, <2>3
<1>3. Nat \subseteq N
  <2> HIDE DEF N
  <2> QED BY <1>1, <1>2, NatSetInduction
<1>4. ASSUME NEW t \in SUBSET D PROVE t \in B
  BY <1>3, FS_Subset, FS_CardinalityType
<1> QED BY <1>4

\* What g computes: F applied to base and the elements of a set, in the order of c.
Folds(g, D, c, base, F) ==
  \A t \in SUBSET D : g[t] = IF t = {} THEN base ELSE F[<<g[t \ {c[t]}], c[t]>>]

\* The recursion of a fold has a solution, with values in any set closed under the step.
LEMMA FoldExists ==
  ASSUME NEW D, IsFiniteSet(D), NEW c, Chooses(c, D),
         NEW A, NEW base \in A, NEW F \in [A \X D -> A]
  PROVE  \E g \in [SUBSET D -> A] : Folds(g, D, c, base, F)
<1> DEFINE Small(n) == {t \in SUBSET D : Cardinality(t) <= n}
           Solves(g, n) == \A t \in Small(n) : g[t] = IF t = {} THEN base ELSE F[<<g[t \ {c[t]}], c[t]>>]
           N == {n \in Nat : \E g \in [Small(n) -> A] : Solves(g, n)}
<1>0. \A t \in SUBSET D : IsFiniteSet(t) /\ Cardinality(t) \in Nat /\ (Cardinality(t) = 0 <=> t = {})
  BY FS_Subset, FS_CardinalityType, FS_EmptySet
<1>1. 0 \in N
  <2> DEFINE g == [t \in Small(0) |-> base]
  <2>1. g \in [Small(0) -> A] /\ \A t \in Small(0) : t = {}
    BY <1>0
  <2>2. Solves(g, 0)
    BY <2>1
  <2> QED BY <2>1, <2>2
<1>2. ASSUME NEW n \in Nat, n \in N PROVE n + 1 \in N
  <2>1. PICK g \in [Small(n) -> A] : Solves(g, n)
    BY <1>2
  <2> DEFINE h == [t \in Small(n + 1) |-> IF t = {} THEN base ELSE F[<<g[t \ {c[t]}], c[t]>>]]
  <2>2. ASSUME NEW t \in Small(n + 1), t # {}
        PROVE  c[t] \in D /\ t \ {c[t]} \in Small(n) /\ t \ {c[t]} \in Small(n + 1)
    <3>1. c[t] \in t /\ c[t] \in D /\ t \ {c[t]} \in SUBSET D
      BY <2>2 DEF Chooses
    <3>2. Cardinality(t \ {c[t]}) = Cardinality(t) - 1 /\ Cardinality(t) \in Nat /\ Cardinality(t) <= n + 1
      BY <1>0, <2>2, <3>1, FS_RemoveElement
    <3> QED BY <3>1, <3>2
  <2>3. h \in [Small(n + 1) -> A]
    <3> SUFFICES ASSUME NEW t \in Small(n + 1), t # {} PROVE F[<<g[t \ {c[t]}], c[t]>>] \in A
      OBVIOUS
    <3>1. g[t \ {c[t]}] \in A /\ c[t] \in D
      BY <2>1, <2>2
    <3> QED BY <3>1
  <2>4. \A t \in Small(n) : t \in Small(n + 1) /\ h[t] = g[t]
    <3> SUFFICES ASSUME NEW t \in Small(n) PROVE t \in Small(n + 1) /\ h[t] = g[t]
      OBVIOUS
    <3>1. t \in Small(n + 1)
      BY <1>0
    <3>2. h[t] = IF t = {} THEN base ELSE F[<<g[t \ {c[t]}], c[t]>>]
      BY <3>1
    <3> QED BY <2>1, <3>1, <3>2
  <2>5. Solves(h, n + 1)
    <3> SUFFICES ASSUME NEW t \in Small(n + 1)
                 PROVE  h[t] = IF t = {} THEN base ELSE F[<<h[t \ {c[t]}], c[t]>>]
      OBVIOUS
    <3>1. h[t] = IF t = {} THEN base ELSE F[<<g[t \ {c[t]}], c[t]>>]
      OBVIOUS
    <3>2. t # {} => h[t \ {c[t]}] = g[t \ {c[t]}]
      BY <2>2, <2>4
    <3> QED BY <3>1, <3>2
  <2> HIDE DEF h, Solves, Small
  <2> QED BY <2>3, <2>5
<1>3. Nat \subseteq N
  <2> HIDE DEF N
  <2> QED BY <1>1, <1>2, NatSetInduction
<1>4. Cardinality(D) \in N /\ SUBSET D = Small(Cardinality(D))
  <2>1. \A t \in SUBSET D : Cardinality(t) <= Cardinality(D)
    BY FS_Subset
  <2> QED BY <1>3, <2>1, FS_CardinalityType
<1> QED BY <1>4 DEF Folds

\* The recursion of FoldLeft over a sequence has a solution ...
SeqFolds(g, q, base, F) ==
  \A t \in SUBSET DOMAIN q : g[t] = IF t = {} THEN base ELSE F[<<g[t \ {Max(t)}], q[Max(t)]>>]

LEMMA SeqFoldExists ==
  ASSUME NEW E, NEW q \in Seq(E), NEW A, NEW base \in A, NEW F \in [A \X E -> A]
  PROVE  \E g \in [SUBSET DOMAIN q -> A] : SeqFolds(g, q, base, F)
<1> DEFINE D == DOMAIN q
           c == [t \in SUBSET D |-> Max(t)]
           G == [p \in A \X D |-> F[<<p[1], q[p[2]]>>]]
<1>1. D = 1..Len(q) /\ Len(q) \in Nat /\ IsFiniteSet(D) /\ D \subseteq 0..Len(q)
  BY FS_Interval
<1>2. Chooses(c, D)
  <2> SUFFICES ASSUME NEW t \in SUBSET D, t # {} PROVE Max(t) \in t
    BY DEF Chooses
  <2>1. t \subseteq 0..Len(q)
    BY <1>1
  <2> QED BY <1>1, <2>1, MaxOf
<1>3. G \in [A \X D -> A]
  <2>1. ASSUME NEW p \in A \X D PROVE F[<<p[1], q[p[2]]>>] \in A
    <3>1. p[1] \in A /\ q[p[2]] \in E
      OBVIOUS
    <3> QED BY <3>1
  <2> QED BY <2>1
<1> HIDE DEF D, c, G
<1>4. PICK g \in [SUBSET D -> A] : Folds(g, D, c, base, G)
  BY <1>1, <1>2, <1>3, FoldExists
<1>5. ASSUME NEW t \in SUBSET D, t # {} PROVE G[<<g[t \ {c[t]}], c[t]>>] = F[<<g[t \ {Max(t)}], q[Max(t)]>>]
  <2>1. c[t] = Max(t) /\ c[t] \in D /\ t \ {c[t]} \in SUBSET D
    BY <1>2, <1>5 DEF c, Chooses
  <2>2. <<g[t \ {c[t]}], c[t]>> \in A \X D
    BY <2>1
  <2> QED BY <2>1, <2>2 DEF G
<1> QED BY <1>4, <1>5 DEF D, Folds, SeqFolds

\* ... and visits the elements in their order.
LEMMA SeqFoldOrder ==
  ASSUME NEW E, NEW q \in Seq(E), NEW k \in 1..Len(q)
  PROVE  /\ 1..k \in SUBSET DOMAIN q /\ 1..k # {} /\ 1..(k - 1) \in SUBSET DOMAIN q
         /\ Max(1..k) = k /\ (1..k) \ {Max(1..k)} = 1..(k - 1)
<1>1. Len(q) \in Nat /\ DOMAIN q = 1..Len(q) /\ k \in 1..k /\ 1..k \subseteq 0..Len(q)
  OBVIOUS
<1>2. Max(1..k) \in 1..k /\ \A j \in 1..k : j <= Max(1..k)
  <2> HIDE <1>1
  <2> QED BY <1>1, MaxOf
<1>3. Max(1..k) = k
  BY <1>1, <1>2
<1>4. (1..k) \ {k} = 1..(k - 1) /\ 1..k \subseteq 1..Len(q) /\ 1..(k - 1) \subseteq 1..Len(q)
  BY <1>1
<1> QED BY <1>1, <1>3, <1>4

\* Induction over the sets of positions of a sequence, the last position first.
Descends(D, B) == \A u \in SUBSET D : u # {} /\ u \ {Max(u)} \in B => u \in B

LEMMA PositionsInduction ==
  ASSUME NEW E, NEW q \in Seq(E), NEW B, {} \in B, Descends(DOMAIN q, B)
  PROVE  SUBSET DOMAIN q \subseteq B
<1> DEFINE D == DOMAIN q
           c == [u \in SUBSET D |-> Max(u)]
<1>1. D = 1..Len(q) /\ Len(q) \in Nat /\ D \subseteq 0..Len(q)
  OBVIOUS
<1>2. IsFiniteSet(D)
  BY <1>1, FS_Interval
<1>3. \A u \in SUBSET D : u # {} => Max(u) \in u
  <2> SUFFICES ASSUME NEW u \in SUBSET D, u # {} PROVE Max(u) \in u
    OBVIOUS
  <2>1. u \subseteq 0..Len(q)
    BY <1>1
  <2> HIDE DEF D
  <2> QED BY <1>1, <2>1, MaxOf
<1>4. Chooses(c, D) /\ \A u \in SUBSET D : c[u] = Max(u)
  BY <1>3 DEF Chooses
<1>5. ASSUME NEW u \in SUBSET D, u # {}, u \ {c[u]} \in B PROVE u \in B
  <2>1. c[u] = Max(u)
    BY <1>4
  <2> HIDE DEF c
  <2> QED BY <1>5, <2>1 DEF Descends
<1>6. {} \in B
  OBVIOUS
<1>7. SUBSET D \subseteq B
  <2> HIDE DEF c, D
  <2> QED BY <1>2, <1>4, <1>5, <1>6, SubsetInduction
<1> QED BY <1>7

\* Induction along a sequence.
LEMMA UpToInduction ==
  ASSUME NEW n \in Nat, NEW B, 0 \in B, \A k \in 1..n : k - 1 \in B => k \in B PROVE 0..n \subseteq B
<1> DEFINE C == {k \in Nat : k <= n => k \in B}
<1>1. 0 \in C
  OBVIOUS
<1>2. ASSUME NEW k \in Nat, k \in C PROVE k + 1 \in C
  <2> SUFFICES ASSUME k + 1 <= n PROVE k + 1 \in B
    OBVIOUS
  <2>1. k + 1 \in 1..n /\ (k + 1) - 1 = k /\ k \in B
    BY <1>2
  <2> QED BY <2>1
<1> HIDE DEF C
<1>3. Nat \subseteq C
  BY <1>1, <1>2, NatSetInduction
<1> QED BY <1>3 DEF C

\* A recursion along 1..n has a solution, with values in any set closed under the step.
StepOf(F, n, A) == F \in [A \X (1..n) -> A]
Stepwise(f, n, base, F) == f[0] = base /\ \A k \in 1..n : f[k] = F[<<f[k - 1], k>>]
LEMMA StepsExist ==
  ASSUME NEW n \in Nat, NEW A, NEW base \in A, NEW F, StepOf(F, n, A)
  PROVE  \E f \in [0..n -> A] : Stepwise(f, n, base, F)
<1> DEFINE Solves(f, m) == f[0] = base /\ \A k \in 1..m : f[k] = F[<<f[k - 1], k>>]
           B == {m \in 0..n : \E f \in [0..m -> A] : Solves(f, m)}
<1>0. F \in [A \X (1..n) -> A]
  BY DEF StepOf
<1>1. 0 \in B
  <2> DEFINE f == [k \in 0..0 |-> base]
  <2>1. f \in [0..0 -> A] /\ Solves(f, 0) /\ 0 \in 0..n
    OBVIOUS
  <2> HIDE DEF f, Solves
  <2> QED BY <2>1
<1>2. ASSUME NEW m \in 1..n, m - 1 \in B PROVE m \in B
  <2>1. PICK f \in [0..(m - 1) -> A] : Solves(f, m - 1)
    BY <1>2
  <2> DEFINE h == [k \in 0..m |-> IF k = m THEN F[<<f[m - 1], m>>] ELSE f[k]]
  <2>2. f[m - 1] \in A /\ F[<<f[m - 1], m>>] \in A
    BY <1>0
  <2>3. h \in [0..m -> A]
    BY <2>2
  <2>4. Solves(h, m)
    <3>1. h[0] = base
      BY <2>1
    <3>2. ASSUME NEW k \in 1..m PROVE h[k] = F[<<h[k - 1], k>>]
      <4>1. k - 1 \in 0..m /\ k - 1 # m /\ h[k - 1] = f[k - 1]
        OBVIOUS
      <4>2. CASE k = m
        BY <4>1, <4>2
      <4>3. CASE k # m
        <5>1. k \in 1..(m - 1) /\ h[k] = f[k]
          BY <4>3
        <5> QED BY <2>1, <4>1, <5>1
      <4> QED BY <4>2, <4>3
    <3> HIDE DEF h
    <3> QED BY <3>1, <3>2
  <2> HIDE DEF h, Solves
  <2> QED BY <2>3, <2>4
<1>3. 0..n \subseteq B
  <2> HIDE DEF B
  <2> QED BY <1>1, <1>2, UpToInduction
<1>4. n \in B
  BY <1>3
<1> QED BY <1>4 DEF Stepwise

-----------------------------------------------------------------------------
(* Sums.                                                                   *)

\* The sum of numbers over a finite set.  As g it adds up f over each subset of D,
\* whichever element comes last.
SumOf(f, S) == MapThenSumSet(LAMBDA x : f[x], S)
AddsUp(g, D, f) == g[{}] = 0 /\ \A t \in SUBSET D : \A x \in t : g[t] = g[t \ {x}] + f[x]
Sums(g, D, f) == g \in [SUBSET D -> Int] /\ AddsUp(g, D, f) /\ \A t \in SUBSET D : SumOf(f, t) = g[t]

\* The order in which the elements are chosen does not matter ...
LEMMA SumInAnyOrder ==
  ASSUME NEW D, IsFiniteSet(D), NEW f \in [D -> Int]
  PROVE  \E g \in [SUBSET D -> Int] :
            /\ AddsUp(g, D, f)
            /\ \A t \in SUBSET D : t # {} => g[t] = f[CHOOSE x \in t : TRUE] + g[t \ {CHOOSE x \in t : TRUE}]
<1> DEFINE c == [t \in SUBSET D |-> CHOOSE x \in t : TRUE]
           F == [p \in Int \X D |-> f[p[2]] + p[1]]
<1>1. Chooses(c, D)
  BY DEF Chooses
<1>2. F \in [Int \X D -> Int] /\ 0 \in Int
  OBVIOUS
<1>3. PICK g \in [SUBSET D -> Int] : Folds(g, D, c, 0, F)
  <2> HIDE DEF c, F
  <2> QED BY <1>1, <1>2, FoldExists
<1>4. g[{}] = 0
  BY <1>3 DEF Folds
<1>5. ASSUME NEW t \in SUBSET D, t # {}
      PROVE  c[t] \in t /\ g[t] = f[c[t]] + g[t \ {c[t]}]
  <2>1. c[t] \in t /\ t \ {c[t]} \in SUBSET D
    BY <1>1, <1>5 DEF Chooses
  <2>2. g[t] = F[<<g[t \ {c[t]}], c[t]>>]
    BY <1>3, <1>5 DEF Folds
  <2> HIDE DEF c
  <2>3. <<g[t \ {c[t]}], c[t]>> \in Int \X D
    BY <1>3, <2>1
  <2> QED BY <2>1, <2>2, <2>3
<1> DEFINE N == {n \in Nat : \A t \in SUBSET D : Cardinality(t) = n => \A x \in t : g[t] = g[t \ {x}] + f[x]}
<1>6. 0 \in N
  BY FS_Subset, FS_EmptySet
<1>7. ASSUME NEW n \in Nat, n \in N PROVE n + 1 \in N
  <2> SUFFICES ASSUME NEW t \in SUBSET D, Cardinality(t) = n + 1, NEW x \in t PROVE g[t] = g[t \ {x}] + f[x]
    OBVIOUS
  <2>1. PICK y \in t : g[t] = f[y] + g[t \ {y}]
    BY <1>5
  <2>2. \A z \in t : t \ {z} \in SUBSET D /\ Cardinality(t \ {z}) = n /\ g[t \ {z}] \in Int /\ f[z] \in Int
    <3> SUFFICES ASSUME NEW z \in t PROVE Cardinality(t \ {z}) = n
      BY <1>3
    <3>1. IsFiniteSet(t)
      BY FS_Subset
    <3>2. Cardinality(t \ {z}) = Cardinality(t) - 1
      BY <3>1, FS_RemoveElement
    <3> QED BY <3>2
  <2>3. CASE x = y
    BY <2>1, <2>2, <2>3
  <2>4. CASE x # y
    <3>1. x \in t \ {y} /\ y \in t \ {x} /\ (t \ {y}) \ {x} = (t \ {x}) \ {y} /\ (t \ {x}) \ {y} \in SUBSET D
      BY <2>4
    <3>2. g[t \ {y}] = g[(t \ {y}) \ {x}] + f[x] /\ g[t \ {x}] = g[(t \ {x}) \ {y}] + f[y]
      BY <1>7, <2>2, <3>1
    <3>3. g[(t \ {x}) \ {y}] \in Int /\ f[x] \in Int /\ f[y] \in Int
      BY <1>3, <3>1
    <3>4. g[t] = f[y] + (g[(t \ {x}) \ {y}] + f[x]) /\ g[t \ {x}] = g[(t \ {x}) \ {y}] + f[y]
      BY <2>1, <3>1, <3>2
    <3> HIDE <2>1, <2>2, <3>2
    <3> QED BY <3>3, <3>4
  <2> QED BY <2>3, <2>4
<1>8. Nat \subseteq N
  <2> HIDE DEF N
  <2> QED BY <1>6, <1>7, NatSetInduction
<1>9. \A t \in SUBSET D : Cardinality(t) \in Nat
  BY FS_Subset, FS_CardinalityType
<1>10. AddsUp(g, D, f)
  BY <1>4, <1>8, <1>9 DEF AddsUp
<1>11. \A t \in SUBSET D : t # {} => g[t] = f[CHOOSE x \in t : TRUE] + g[t \ {CHOOSE x \in t : TRUE}]
  BY <1>5
<1> HIDE DEF c, F
<1> QED BY <1>3, <1>10, <1>11

\* ... so MapThenSumSet is one.
LEMMA SumExists ==
  ASSUME NEW D, IsFiniteSet(D), NEW f \in [D -> Int]
  PROVE  \E g : Sums(g, D, f)
<1>1. PICK g \in [SUBSET D -> Int] :
            /\ AddsUp(g, D, f)
            /\ \A t \in SUBSET D : t # {} => g[t] = f[CHOOSE x \in t : TRUE] + g[t \ {CHOOSE x \in t : TRUE}]
  BY SumInAnyOrder
<1>2. ASSUME NEW S \in SUBSET D PROVE SumOf(f, S) = g[S]
  <2> DEFINE Solved(i) == [s \in SUBSET S |-> IF s = {} THEN 0 ELSE f[CHOOSE x \in s : TRUE] + i[s \ {CHOOSE x \in s : TRUE}]]
             iter == CHOOSE i : i = Solved(i)
             h == [s \in SUBSET S |-> g[s]]
             c == [s \in SUBSET S |-> CHOOSE x \in s : TRUE]
             B == {s \in SUBSET S : iter[s] = g[s]}
  <2>1. ASSUME NEW s \in SUBSET S, s # {} PROVE (CHOOSE x \in s : TRUE) \in s /\ s \ {CHOOSE x \in s : TRUE} \in SUBSET S
    BY <2>1
  <2>2. h = Solved(h)
    BY <1>1, <2>1 DEF AddsUp
  <2>3. iter = Solved(iter)
    <3> HIDE DEF Solved
    <3> QED BY <2>2
  <2>4. SumOf(f, S) = iter[S]
    BY DEF SumOf, MapThenSumSet, MapThenFoldSet
  <2> HIDE DEF iter, h
  <2>5. {} \in B
    BY <1>1, <2>3 DEF AddsUp
  <2>6. ASSUME NEW s \in SUBSET S, s # {}, s \ {c[s]} \in B PROVE s \in B
    <3>1. PICK x : x = CHOOSE z \in s : TRUE
      OBVIOUS
    <3>2. x \in s /\ s \ {x} \in SUBSET S /\ c[s] = x
      BY <2>1, <2>6, <3>1
    <3>3. iter[s] = f[x] + iter[s \ {x}]
      BY <2>3, <2>6, <3>1
    <3>4. iter[s \ {x}] = g[s \ {x}]
      BY <2>6, <3>2
    <3>5. s \in SUBSET D /\ g[s] = f[x] + g[s \ {x}]
      BY <1>1, <2>6, <3>1
    <3> QED BY <3>3, <3>4, <3>5
  <2>7. Chooses(c, S) /\ IsFiniteSet(S)
    BY FS_Subset DEF Chooses
  <2>8. SUBSET S \subseteq B
    <3> HIDE DEF B, c
    <3> QED BY <2>5, <2>6, <2>7, SubsetInduction
  <2> QED BY <2>4, <2>8
<1> QED BY <1>1, <1>2 DEF Sums

\* Sums of functions that agree on a set are the same ...
LEMMA SumOfEqual ==
  ASSUME NEW D, IsFiniteSet(D), NEW f \in [D -> Int], NEW h \in [D -> Int],
         NEW S \in SUBSET D, \A x \in S : h[x] = f[x]
  PROVE  SumOf(h, S) = SumOf(f, S) /\ SumOf(f, S) \in Int
<1>1. PICK g : Sums(g, D, f)
  BY SumExists
<1>2. PICK k : Sums(k, D, h)
  BY SumExists
<1> DEFINE c == [t \in SUBSET S |-> CHOOSE x \in t : TRUE]
           B == {t \in SUBSET S : g[t] = k[t]}
<1>3. Chooses(c, S) /\ IsFiniteSet(S)
  BY FS_Subset DEF Chooses
<1>4. {} \in B
  BY <1>1, <1>2 DEF Sums, AddsUp
<1>5. ASSUME NEW t \in SUBSET S, t # {}, t \ {c[t]} \in B PROVE t \in B
  <2>1. c[t] \in t /\ c[t] \in S /\ t \in SUBSET D
    BY <1>3, <1>5 DEF Chooses
  <2>2. g[t] = g[t \ {c[t]}] + f[c[t]] /\ k[t] = k[t \ {c[t]}] + h[c[t]]
    <3> HIDE DEF c, B
    <3> QED BY <1>1, <1>2, <2>1 DEF Sums, AddsUp
  <2> HIDE DEF c
  <2> QED BY <1>5, <2>1, <2>2
<1>6. SUBSET S \subseteq B
  <2> HIDE DEF B, c
  <2> QED BY <1>3, <1>4, <1>5, SubsetInduction
<1>7. S \in B
  <2> HIDE DEF B
  <2> QED BY <1>6
<1> QED BY <1>1, <1>2, <1>7 DEF Sums

\* ... a sum of zeros is zero ...
LEMMA SumOfZeros ==
  ASSUME NEW D, IsFiniteSet(D), NEW f \in [D -> Int], NEW S \in SUBSET D, \A x \in S : f[x] = 0
  PROVE  SumOf(f, S) = 0
<1>1. PICK g : Sums(g, D, f)
  BY SumExists
<1> DEFINE c == [t \in SUBSET S |-> CHOOSE x \in t : TRUE]
           B == {t \in SUBSET S : g[t] = 0}
<1>2. Chooses(c, S) /\ IsFiniteSet(S)
  BY FS_Subset DEF Chooses
<1>3. {} \in B
  BY <1>1 DEF Sums, AddsUp
<1>4. ASSUME NEW t \in SUBSET S, t # {}, t \ {c[t]} \in B PROVE t \in B
  <2>1. c[t] \in t /\ c[t] \in S /\ t \in SUBSET D
    BY <1>2, <1>4 DEF Chooses
  <2>2. g[t] = g[t \ {c[t]}] + f[c[t]]
    <3> HIDE DEF c, B
    <3> QED BY <1>1, <2>1 DEF Sums, AddsUp
  <2> HIDE DEF c
  <2> QED BY <1>4, <2>1, <2>2
<1>5. S \in B
  <2> HIDE DEF B, c
  <2>1. SUBSET S \subseteq B
    BY <1>2, <1>3, <1>4, SubsetInduction
  <2> QED BY <2>1
<1> QED BY <1>1, <1>5 DEF Sums

\* ... and a change at one element changes every sum it is in by as much.
LEMMA SumChanges ==
  ASSUME NEW D, IsFiniteSet(D), NEW f \in [D -> Int], NEW h \in [D -> Int], NEW x \in D,
         \A y \in D \ {x} : h[y] = f[y], NEW S \in SUBSET D
  PROVE  SumOf(h, S) = SumOf(f, S) + (IF x \in S THEN h[x] - f[x] ELSE 0) /\ SumOf(f, S) \in Int
<1>1. PICK g : Sums(g, D, f)
  BY SumExists
<1>2. PICK k : Sums(k, D, h)
  BY SumExists
<1>3. S \ {x} \in SUBSET D /\ \A y \in S \ {x} : h[y] = f[y]
  OBVIOUS
<1>4. SumOf(h, S \ {x}) = SumOf(f, S \ {x})
  BY <1>3, SumOfEqual
<1>5. g[S \ {x}] = k[S \ {x}] /\ g[S \ {x}] \in Int /\ f[x] \in Int /\ h[x] \in Int /\ g[S] \in Int
  BY <1>1, <1>2, <1>3, <1>4 DEF Sums
<1>6. CASE x \in S
  <2>1. g[S] = g[S \ {x}] + f[x] /\ k[S] = k[S \ {x}] + h[x]
    BY <1>1, <1>2, <1>6 DEF Sums, AddsUp
  <2>2. SumOf(f, S) = g[S] /\ SumOf(h, S) = k[S]
    BY <1>1, <1>2 DEF Sums
  <2> QED BY <1>5, <1>6, <2>1, <2>2
<1>7. CASE x \notin S
  <2>1. S \ {x} = S
    BY <1>7
  <2>2. SumOf(f, S) = g[S] /\ SumOf(h, S) = k[S]
    BY <1>1, <1>2 DEF Sums
  <2>3. SumOf(h, S) = SumOf(f, S) /\ SumOf(f, S) \in Int
    BY <1>5, <2>1, <2>2
  <2> QED BY <1>7, <2>3
<1> QED BY <1>6, <1>7
=============================================================================
