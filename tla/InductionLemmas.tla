--------------------------- MODULE InductionLemmas ---------------------------
(***************************************************************************)
(* Induction and recursion without operator parameters, which the provers  *)
(* cannot instantiate: a property of numbers is the set of those that have *)
(* it, and a recursive definition is a function of steps.                  *)
(***************************************************************************)
EXTENDS FiniteSetTheorems, FiniteSetsExt, TLAPS

LEMMA IntervalIsFinite ==
  ASSUME NEW n \in Nat
  PROVE  IsFiniteSet(1..n)
  <1>1. 1 \in Int /\ n \in Int
    OBVIOUS
  <1>2. QED
    BY <1>1, FS_Interval, Zenon

(* A set of numbers has a least one: of the intervals from zero to each of *)
(* them, one is in no other.                                               *)
LEMMA LeastNumber ==
  ASSUME NEW T \in SUBSET Nat, T # {}
  PROVE  \E m \in T : \A k \in T : m <= k
  <1> DEFINE U == {0..n : n \in T}
  <1>1. U \subseteq FiniteSubsetsOf(Nat)
    <2>1. ASSUME NEW n \in T PROVE IsFiniteSet(0..n) /\ 0..n \in SUBSET Nat
      BY FS_Interval
    <2>2. QED
      BY <2>1 DEF FiniteSubsetsOf
  <1>2. IsWellFoundedOn(StrictSubsetOrdering(Nat), FiniteSubsetsOf(Nat))
    BY FS_StrictSubsetOrderingWellFounded
  <1>3. U # {}
    OBVIOUS
  <1> HIDE DEF U
  <1>4. PICK x \in U : \A y \in U : ~(<<y, x>> \in StrictSubsetOrdering(Nat))
    BY <1>1, <1>2, <1>3, WFMin
  <1>5. PICK m \in T : x = 0..m
    BY DEF U
  <1>6. ASSUME NEW k \in T, k < m PROVE FALSE
    <2>1. 0..k \in U /\ 0..k \subseteq 0..m /\ m \in 0..m /\ m \notin 0..k
      BY <1>6 DEF U
    <2>2. 0..k \in SUBSET Nat /\ 0..m \in SUBSET Nat
      OBVIOUS
    <2>3. <<0..k, 0..m>> \in StrictSubsetOrdering(Nat)
      BY <2>1, <2>2 DEF StrictSubsetOrdering
    <2>4. QED
      BY <1>4, <1>5, <2>1, <2>3
  <1>7. QED
    BY <1>6

(* Induction: a set with zero and the successor of each of its numbers.    *)
LEMMA InductionOnNumbers ==
  ASSUME NEW S \in SUBSET Nat, 0 \in S, \A n \in Nat : n \in S => n + 1 \in S
  PROVE  S = Nat
  <1> SUFFICES ASSUME Nat \ S # {} PROVE FALSE
    OBVIOUS
  <1>1. PICK m \in Nat \ S : \A k \in Nat \ S : m <= k
    BY LeastNumber
  <1>2. m # 0 /\ m - 1 \in Nat
    BY <1>1
  <1>3. m - 1 \in S
    BY <1>1, <1>2
  <1>4. QED
    BY <1>1, <1>2, <1>3

(* Complete induction: a set with each number that all smaller ones are in.*)
LEMMA CompleteInduction ==
  ASSUME NEW S \in SUBSET Nat, \A n \in Nat : (\A m \in 0..n - 1 : m \in S) => n \in S
  PROVE  S = Nat
  <1> SUFFICES ASSUME Nat \ S # {} PROVE FALSE
    OBVIOUS
  <1>1. PICK m \in Nat \ S : \A k \in Nat \ S : m <= k
    BY LeastNumber
  <1>2. \A k \in 0..m - 1 : k \in S
    BY <1>1
  <1>3. QED
    BY <1>1, <1>2

(* Induction over the subsets of a finite set, by their size.              *)
LEMMA InductionOnSubsets ==
  ASSUME NEW S, IsFiniteSet(S), NEW P \in SUBSET SUBSET S, {} \in P,
         \A T \in SUBSET S : T # {} /\ (\A x \in T : T \ {x} \in P) => T \in P
  PROVE  S \in P
  <1> DEFINE Q == {n \in Nat : \A T \in SUBSET S : Cardinality(T) = n => T \in P}
  <1>1. \A T \in SUBSET S : IsFiniteSet(T) /\ Cardinality(T) \in Nat
    BY FS_Subset, FS_CardinalityType
  <1>2. 0 \in Q
    BY <1>1, FS_EmptySet
  <1>3. ASSUME NEW n \in Nat, n \in Q PROVE n + 1 \in Q
    <2>1. ASSUME NEW T \in SUBSET S, Cardinality(T) = n + 1 PROVE T \in P
      <3>1. T # {}
        BY <2>1, FS_EmptySet
      <3>2. ASSUME NEW x \in T PROVE T \ {x} \in P
        <4>1. Cardinality(T \ {x}) = n
          BY <1>1, <2>1, FS_RemoveElement
        <4>2. QED
          BY <1>3, <4>1
      <3>3. QED
        BY <3>1, <3>2
    <2>2. QED
      BY <2>1
  <1>4. Q = Nat
    <2> HIDE DEF Q
    <2>1. Q \in SUBSET Nat
      BY DEF Q
    <2>2. QED
      BY <1>2, <1>3, <2>1, InductionOnNumbers
  <1>5. QED
    BY <1>1, <1>4

(* The equation of a fold over a set, which takes out an element at a time.*)
IsFold(g, S, base, pick, step) ==
  \A T \in SUBSET S : g[T] = IF T = {} THEN base ELSE step[<<pick[T], g[T \ {pick[T]}]>>]

(* A fold over a finite set, which takes out an element at a time, has the *)
(* values it should: one function on all subsets satisfies its equation.   *)
LEMMA FoldOverSubsets ==
  ASSUME NEW S, IsFiniteSet(S), NEW V, NEW base \in V,
         NEW pick, \A T \in SUBSET S : T # {} => pick[T] \in T,
         NEW step, \A x \in S, v \in V : step[<<x, v>>] \in V
  PROVE  \E g \in [SUBSET S -> V] : IsFold(g, S, base, pick, step)
  <1> DEFINE Small(n) == {T \in SUBSET S : Cardinality(T) <= n}
             Is(g, n) == \A T \in Small(n) :
                           g[T] = IF T = {} THEN base ELSE step[<<pick[T], g[T \ {pick[T]}]>>]
             Q == {n \in Nat : \E g \in [Small(n) -> V] : Is(g, n)}
  <1>1. \A T \in SUBSET S : IsFiniteSet(T) /\ Cardinality(T) \in Nat /\ Cardinality(T) <= Cardinality(S)
    BY FS_Subset, FS_CardinalityType
  <1>2. 0 \in Q
    <2>1. \A T \in Small(0) : T = {}
      BY <1>1, FS_EmptySet
    <2>2. [T \in Small(0) |-> base] \in [Small(0) -> V] /\ Is([T \in Small(0) |-> base], 0)
      BY <2>1
    <2>3. QED
      BY <2>2
  <1>3. ASSUME NEW n \in Nat, n \in Q PROVE n + 1 \in Q
    <2>1. PICK g \in [Small(n) -> V] : Is(g, n)
      BY <1>3
    <2> DEFINE value(T) == IF T = {} THEN base ELSE step[<<pick[T], g[T \ {pick[T]}]>>]
               h == [T \in Small(n + 1) |-> value(T)]
    <2>2. ASSUME NEW T \in Small(n + 1), T # {} PROVE pick[T] \in S /\ T \ {pick[T]} \in Small(n)
      <3>1. pick[T] \in T /\ T \in SUBSET S
        BY <2>2
      <3>2. Cardinality(T \ {pick[T]}) = Cardinality(T) - 1
        BY <1>1, <3>1, FS_RemoveElement
      <3>3. QED
        BY <1>1, <3>1, <3>2
    <2>3. \A T \in Small(n) : T \in Small(n + 1) /\ value(T) = g[T]
      BY <1>1, <2>1
    <2>4. \A T \in Small(n + 1) : value(T) \in V
      BY <2>1, <2>2
    <2>5. h \in [Small(n + 1) -> V]
      BY <2>4
    <2>6. Is(h, n + 1)
      BY <2>2, <2>3
    <2> HIDE DEF Small, Is, h
    <2>7. \E some \in [Small(n + 1) -> V] : Is(some, n + 1)
      BY <2>5, <2>6
    <2>8. QED
      BY <2>7
  <1>4. Cardinality(S) \in Q
    <2> HIDE DEF Q
    <2>1. Q \in SUBSET Nat
      BY DEF Q
    <2>2. QED
      BY <1>1, <1>2, <1>3, <2>1, InductionOnNumbers
  <1>5. Small(Cardinality(S)) = SUBSET S
    BY <1>1
  <1>6. QED
    BY <1>4, <1>5 DEF IsFold

LEMMA MaxIsLargest ==
  ASSUME NEW n \in Nat, NEW T \in SUBSET (1..n), T # {}
  PROVE  Max(T) \in T /\ \A k \in T : k <= Max(T)
  <1> DEFINE below == {n - k : k \in T}
  <1>1. \A k \in T : k \in 1..n /\ n - k \in Nat
    OBVIOUS
  <1>2. below \in SUBSET Nat /\ below # {}
    BY <1>1
  <1> HIDE DEF below
  <1>3. PICK m \in below : \A x \in below : m <= x
    BY <1>2, LeastNumber
  <1>4. PICK k \in T : m = n - k
    BY DEF below
  <1>5. \A y \in T : n - k <= n - y
    BY <1>3, <1>4 DEF below
  <1>6. \A y \in T : k >= y
    BY <1>1, <1>5
  <1>7. Max(T) \in T /\ \A y \in T : Max(T) >= y
    BY <1>6 DEF Max
  <1>8. QED
    BY <1>1, <1>7

LEMMA MaxOfFirst ==
  ASSUME NEW k \in Nat, k # 0
  PROVE  1..k # {} /\ Max(1..k) = k /\ (1..k) \ {k} = 1..k - 1
  <1>1. Max(1..k) \in 1..k /\ \A j \in 1..k : j <= Max(1..k)
    <2>1. 1..k \in SUBSET (1..k) /\ 1..k # {}
      OBVIOUS
    <2>2. QED
      BY <2>1, MaxIsLargest
  <1>2. Max(1..k) <= k /\ k <= Max(1..k) /\ Max(1..k) \in Nat
    BY <1>1
  <1>3. Max(1..k) = k
    BY <1>2
  <1>4. QED
    BY <1>3

(* A fold over the positions of a sequence, the last one outermost.        *)
IsFoldOfPositions(g, n, base, step) ==
  \A T \in SUBSET (1..n) : g[T] = IF T = {} THEN base ELSE step[<<Max(T), g[T \ {Max(T)}]>>]

LEMMA FoldOverPositions ==
  ASSUME NEW n \in Nat, NEW V, NEW base \in V,
         NEW step, \A k \in 1..n, v \in V : step[<<k, v>>] \in V
  PROVE  \E g \in [SUBSET (1..n) -> V] : IsFoldOfPositions(g, n, base, step)
  <1>1. PICK S : S = 1..n
    OBVIOUS
  <1>2. IsFiniteSet(S)
    BY <1>1, IntervalIsFinite, Zenon
  <1>3. PICK pick : pick = [T \in SUBSET S |-> Max(T)]
    OBVIOUS
  <1>4. \A T \in SUBSET S : pick[T] = Max(T)
    BY <1>3
  <1>5. \A T \in SUBSET S : T # {} => pick[T] \in T
    BY <1>1, <1>4, MaxIsLargest
  <1>6. \A x \in S, v \in V : step[<<x, v>>] \in V
    BY <1>1
  <1>7. PICK g \in [SUBSET S -> V] : IsFold(g, S, base, pick, step)
    BY <1>2, <1>5, <1>6, FoldOverSubsets, Zenon
  <1>8. \A T \in SUBSET S : g[T] = IF T = {} THEN base ELSE step[<<Max(T), g[T \ {Max(T)}]>>]
    BY <1>4, <1>7 DEF IsFold
  <1>9. QED
    BY <1>1, <1>8 DEF IsFoldOfPositions

(* What it gives for the first positions, one more at a time.              *)
LEMMA FoldStepByStep ==
  ASSUME NEW n \in Nat, NEW V, NEW step, \A k \in 1..n, v \in V : step[<<k, v>>] \in V,
         NEW fold, fold[{}] \in V,
         \A k \in 1..n : fold[1..k - 1] \in V => fold[1..k] = step[<<k, fold[1..k - 1]>>],
         NEW m \in 0..n
  PROVE  fold[1..m] \in V
  <1> DEFINE S == {k \in Nat : k <= n => fold[1..k] \in V}
  <1>1. 0 \in S
    <2>1. 1..0 = {}
      OBVIOUS
    <2>2. QED
      BY <2>1
  <1>2. ASSUME NEW k \in Nat, k \in S PROVE k + 1 \in S
    <2>1. SUFFICES ASSUME k + 1 <= n PROVE fold[1..k + 1] \in V
      OBVIOUS
    <2>2. k + 1 \in 1..n /\ (k + 1) - 1 = k /\ fold[1..k] \in V
      BY <1>2, <2>1
    <2>3. QED
      BY <2>2
  <1>3. S = Nat
    <2> HIDE DEF S
    <2>1. S \in SUBSET Nat
      BY DEF S
    <2>2. QED
      BY <1>1, <1>2, <2>1, InductionOnNumbers
  <1>4. QED
    BY <1>3

(* A recursion on numbers, each of which refers to a smaller one, or to    *)
(* none.                                                                   *)
IsDescent(g, N, first, base, smaller, step) ==
  \A n \in N : g[n] = IF n \in first THEN base[n] ELSE step[<<n, g[smaller[n]]>>]

(* A recursive function on numbers has the values its definition says.     *)
LEMMA DescentIsDefined ==
  ASSUME NEW V, NEW first, NEW base, \A n \in Nat : n \in first => base[n] \in V,
         NEW smaller, \A n \in Nat : n \notin first => smaller[n] \in 0..n - 1,
         NEW step, \A n \in Nat, v \in V : n \notin first => step[<<n, v>>] \in V
  PROVE  \E g \in [Nat -> V] : IsDescent(g, Nat, first, base, smaller, step)
  <1> DEFINE Is(g, m) == IsDescent(g, 0..m, first, base, smaller, step)
             Q == {m \in Nat : \E g \in [0..m -> V] : Is(g, m)}
             G(n) == CHOOSE g \in [0..n -> V] : Is(g, n)
             h == [n \in Nat |-> G(n)[n]]
  <1>1. ASSUME NEW n \in Nat, NEW m \in Nat, NEW k \in Nat, n <= m, n <= k,
               NEW f \in [0..m -> V], NEW g \in [0..k -> V], Is(f, m), Is(g, k)
        PROVE  f[n] = g[n]
    <2> DEFINE S == {i \in Nat : i <= m /\ i <= k => f[i] = g[i]}
    <2>1. ASSUME NEW i \in Nat, \A j \in 0..i - 1 : j \in S PROVE i \in S
      <3> SUFFICES ASSUME i <= m, i <= k PROVE f[i] = g[i]
        OBVIOUS
      <3>1. /\ f[i] = IF i \in first THEN base[i] ELSE step[<<i, f[smaller[i]]>>]
            /\ g[i] = IF i \in first THEN base[i] ELSE step[<<i, g[smaller[i]]>>]
        BY <1>1 DEF IsDescent
      <3>2. i \notin first => f[smaller[i]] = g[smaller[i]]
        BY <2>1
      <3>3. QED
        BY <3>1, <3>2
    <2>2. S = Nat
      <3> HIDE DEF S
      <3>1. S \in SUBSET Nat
        BY DEF S
      <3>2. QED
        BY <2>1, <3>1, CompleteInduction
    <2>3. QED
      BY <1>1, <2>2
  <1>2. Q = Nat
    <2>1. 0 \in Q
      <3>1. 0 \in first
        OBVIOUS
      <3>2. [i \in 0..0 |-> base[0]] \in [0..0 -> V] /\ Is([i \in 0..0 |-> base[0]], 0)
        BY <3>1 DEF IsDescent
      <3>3. QED
        BY <3>2
    <2>2. ASSUME NEW m \in Nat, m \in Q PROVE m + 1 \in Q
      <3>1. PICK g \in [0..m -> V] : Is(g, m)
        BY <2>2
      <3> DEFINE value(i) == IF i \in first THEN base[i] ELSE step[<<i, g[smaller[i]]>>]
                 f == [i \in 0..m + 1 |-> value(i)]
      <3>2. \A i \in 0..m + 1 : i \notin first => smaller[i] \in 0..m /\ smaller[i] \in 0..i - 1
        OBVIOUS
      <3>3. \A i \in 0..m + 1 : value(i) \in V
        <4>1. \A i \in 0..m + 1 : i \notin first => g[smaller[i]] \in V
          BY <3>2
        <4>2. QED
          BY <4>1
      <3>4. \A i \in 0..m : value(i) = g[i]
        BY <3>1 DEF IsDescent
      <3>5. f \in [0..m + 1 -> V] /\ Is(f, m + 1)
        <4>1. f \in [0..m + 1 -> V]
          BY <3>3
        <4>2. \A i \in 0..m : f[i] = g[i]
          BY <3>4
        <4>3. \A i \in 0..m + 1 : f[i] = IF i \in first THEN base[i] ELSE step[<<i, f[smaller[i]]>>]
          BY <3>2, <4>2
        <4> HIDE DEF f
        <4>4. QED
          BY <4>1, <4>3 DEF IsDescent
      <3> HIDE DEF f, value, Is
      <3>6. QED
        BY <3>5
    <2> HIDE DEF Q
    <2>3. Q \in SUBSET Nat
      BY DEF Q
    <2>4. QED
      BY <2>1, <2>2, <2>3, InductionOnNumbers
  <1>3. ASSUME NEW n \in Nat PROVE G(n) \in [0..n -> V] /\ Is(G(n), n)
    <2>1. \E g \in [0..n -> V] : Is(g, n)
      BY <1>2
    <2> HIDE DEF Is
    <2>2. QED
      BY <2>1
  <1> HIDE DEF G
  <1>4. h \in [Nat -> V]
    BY <1>3
  <1>5. ASSUME NEW n \in Nat PROVE h[n] = IF n \in first THEN base[n] ELSE step[<<n, h[smaller[n]]>>]
    <2>1. G(n)[n] = IF n \in first THEN base[n] ELSE step[<<n, G(n)[smaller[n]]>>]
      BY <1>3 DEF IsDescent
    <2>2. CASE n \in first
      BY <2>1, <2>2
    <2>3. CASE n \notin first
      <3>1. PICK k \in Nat : k = smaller[n] /\ k <= n
        BY <2>3
      <3>2. G(n)[k] = G(k)[k]
        BY <1>1, <1>3, <3>1
      <3>3. QED
        BY <2>1, <2>3, <3>1, <3>2
    <2>4. QED
      BY <2>2, <2>3
  <1> HIDE DEF h
  <1>6. QED
    BY <1>4, <1>5 DEF IsDescent

(* One that refers to the number before.                                   *)
GoesBySteps(g, base, step) == g[0] = base /\ \A n \in Nat : g[n + 1] = step[g[n]]

LEMMA StepsAreDefined ==
  ASSUME NEW V, NEW base \in V, NEW step, \A v \in V : step[v] \in V
  PROVE  \E g \in [Nat -> V] : GoesBySteps(g, base, step)
  <1>1. PICK first, bases, smaller, steps :
          /\ first = {0} /\ bases = [n \in {0} |-> base] /\ smaller = [n \in Nat |-> n - 1]
          /\ steps = [x \in Nat \X V |-> step[x[2]]]
    OBVIOUS
  <1>2. \A n \in Nat, v \in V : steps[<<n, v>>] = step[v] /\ steps[<<n, v>>] \in V
    BY <1>1
  <1>3. PICK g \in [Nat -> V] : IsDescent(g, Nat, first, bases, smaller, steps)
    <2>1. \A n \in Nat : n \in first => bases[n] \in V
      BY <1>1
    <2>2. \A n \in Nat : n \notin first => smaller[n] \in 0..n - 1
      BY <1>1
    <2>3. \A n \in Nat, v \in V : n \notin first => steps[<<n, v>>] \in V
      BY <1>2
    <2>4. QED
      BY <2>1, <2>2, <2>3, DescentIsDefined, Zenon
  <1>4. g[0] = base
    BY <1>1, <1>3 DEF IsDescent
  <1>5. ASSUME NEW n \in Nat PROVE g[n + 1] = step[g[n]]
    <2>1. n + 1 \in Nat /\ n + 1 \notin first /\ smaller[n + 1] = n
      BY <1>1
    <2>2. g[n + 1] = steps[<<n + 1, g[n]>>]
      BY <1>3, <2>1, Zenon DEF IsDescent
    <2>3. QED
      BY <1>2, <2>1, <2>2
  <1>6. QED
    BY <1>3, <1>4, <1>5 DEF GoesBySteps
=============================================================================
