---------------------------- MODULE ListsProofs ----------------------------
(***************************************************************************)
(* What is left of a list from which entries were removed, and what a walk *)
(* over a list computes.  The induction theorems of the library take an    *)
(* operator as a parameter; WalkInduction is the same principle about a    *)
(* set, from the well-foundedness of inclusion between finite sets.        *)
(***************************************************************************)
EXTENDS Lists, FiniteSetTheorems, WellFoundedInduction, TLAPS

\* The positions up to i are at most n, and no more than up to a later one.
LEMMA RankProperties ==
    ASSUME NEW n \in Nat, NEW S \in SUBSET (1 .. n)
    PROVE  /\ Cardinality(S) \in Nat
           /\ \A i \in S : Rank(S, i) \in 1 .. Cardinality(S)
           /\ \A i, j \in S : i < j <=> Rank(S, i) < Rank(S, j)
           /\ \A k \in 1 .. Cardinality(S) : \E i \in S : Rank(S, i) = k
<1> DEFINE U(i) == {j \in S : j <= i}
<1>1. IsFiniteSet(S) /\ Cardinality(S) \in Nat
  <2>1. IsFiniteSet(1 .. n)
    BY FS_Interval
  <2>2. IsFiniteSet(S)
    BY <2>1, FS_Subset
  <2> QED
    BY <2>2, FS_CardinalityType
<1>2. \A i \in S : IsFiniteSet(U(i)) /\ Cardinality(U(i)) \in Nat /\ Rank(S, i) = Cardinality(U(i))
  <2> SUFFICES ASSUME NEW i \in S
               PROVE  IsFiniteSet(U(i)) /\ Cardinality(U(i)) \in Nat /\ Rank(S, i) = Cardinality(U(i))
    OBVIOUS
  <2>1. U(i) \subseteq S
    OBVIOUS
  <2>2. IsFiniteSet(U(i))
    BY <1>1, <2>1, FS_Subset
  <2> QED
    BY <2>2, FS_CardinalityType DEF Rank
<1>3. \A i \in S : Rank(S, i) \in 1 .. Cardinality(S)
  <2> SUFFICES ASSUME NEW i \in S PROVE Rank(S, i) \in 1 .. Cardinality(S)
    OBVIOUS
  <2>1. U(i) \subseteq S /\ i \in U(i)
    OBVIOUS
  <2>2. Cardinality(U(i)) <= Cardinality(S)
    BY <1>1, <2>1, FS_Subset
  <2>3. Cardinality(U(i)) # 0
    BY <1>2, <2>1, FS_EmptySet
  <2> HIDE DEF U
  <2> QED
    BY <1>1, <1>2, <2>2, <2>3
<1>4. \A i, j \in S : i < j => Rank(S, i) < Rank(S, j)
  <2> SUFFICES ASSUME NEW i \in S, NEW j \in S, i < j
               PROVE  Rank(S, i) < Rank(S, j)
    OBVIOUS
  <2>1. U(i) \subseteq U(j) /\ U(i) # U(j)
    <3>1. \A k \in S : k \in 1 .. n
      OBVIOUS
    <3>2. U(i) \subseteq U(j)
      <4> SUFFICES ASSUME NEW k \in S, k <= i PROVE k <= j
        OBVIOUS
      <4>1. k \in Int /\ i \in Int /\ j \in Int
        BY <3>1
      <4> QED
        BY <4>1
    <3>3. j \in U(j) /\ j \notin U(i)
      BY <3>1
    <3> QED
      BY <3>2, <3>3
  <2>2. Cardinality(U(i)) < Cardinality(U(j))
    <3>1. Cardinality(U(i)) <= Cardinality(U(j))
      BY <1>2, <2>1, FS_Subset
    <3>2. Cardinality(U(i)) # Cardinality(U(j))
      BY <1>2, <2>1, FS_Subset
    <3> HIDE DEF U
    <3> QED
      BY <1>2, <3>1, <3>2
  <2> HIDE DEF U
  <2> QED
    BY <1>2, <2>2
<1> HIDE DEF U
<1>5. \A i, j \in S : i < j <=> Rank(S, i) < Rank(S, j)
  <2> SUFFICES ASSUME NEW i \in S, NEW j \in S
               PROVE  i < j <=> Rank(S, i) < Rank(S, j)
    OBVIOUS
  <2>1. i \in Int /\ j \in Int /\ Rank(S, i) \in Int /\ Rank(S, j) \in Int
    BY <1>1, <1>3
  <2>2. CASE i < j
    BY <1>4, <2>2
  <2>3. CASE i = j
    BY <2>1, <2>3
  <2>4. CASE j < i
    BY <1>4, <2>1, <2>4
  <2> QED
    BY <2>1, <2>2, <2>3, <2>4
<1>6. \A k \in 1 .. Cardinality(S) : \E i \in S : Rank(S, i) = k
  <2> DEFINE r == [i \in S |-> Rank(S, i)]
             T == 1 .. Cardinality(S)
  <2>1. r \in Injection(S, T)
    <3>1. r \in [S -> T]
      BY <1>3
    <3>2. \A i, j \in S : r[i] = r[j] => i = j
      <4> SUFFICES ASSUME NEW i \in S, NEW j \in S, Rank(S, i) = Rank(S, j)
                   PROVE  i = j
        OBVIOUS
      <4>1. i \in Int /\ j \in Int /\ Rank(S, i) \in Int
        BY <1>1, <1>3
      <4>2. ~(i < j) /\ ~(j < i)
        BY <1>4, <4>1
      <4> QED
        BY <4>1, <4>2
    <3> HIDE DEF r
    <3> QED
      BY <3>1, <3>2 DEF Injection, IsInjective
  <2>2. IsFiniteSet(T) /\ Cardinality(T) = Cardinality(S)
    BY <1>1, FS_Interval
  <2>3. r \in Surjection(S, T)
    <3> HIDE DEF r, T
    <3> QED
      BY <1>1, <2>1, <2>2, FS_Injection
  <2>4. \A k \in T : \E i \in S : r[i] = k
    <3> HIDE DEF r, T
    <3> QED
      BY <2>3 DEF Surjection
  <2> QED
    BY <2>4
<1> QED
  BY <1>1, <1>3, <1>5, <1>6

\* A listing names each kept position once, in order, in a list as long as
\* they are many (check_neighbors_alive, check_topology_age, clear_routes).
LEMMA ListingProperties ==
    ASSUME NEW n \in Nat, NEW S \in SUBSET (1 .. n)
    PROVE  LET f == Listing(S) IN
           /\ Cardinality(S) \in Nat /\ DOMAIN f = 1 .. Cardinality(S)
           /\ \A i \in DOMAIN f : f[i] \in S /\ Rank(S, f[i]) = i
           /\ \A i, j \in DOMAIN f : i < j => f[i] < f[j]
           /\ \A i, j \in DOMAIN f : f[i] = f[j] => i = j
           /\ \A k \in S : Rank(S, k) \in DOMAIN f /\ f[Rank(S, k)] = k
<1> DEFINE f == Listing(S)
<1>1. Cardinality(S) \in Nat /\ DOMAIN f = 1 .. Cardinality(S)
  BY RankProperties DEF Listing
<1>2. \A i \in DOMAIN f : f[i] \in S /\ Rank(S, f[i]) = i
  BY <1>1, RankProperties DEF Listing
<1>3. \A i, j \in DOMAIN f : i < j => f[i] < f[j]
  <2> SUFFICES ASSUME NEW i \in DOMAIN f, NEW j \in DOMAIN f, i < j
               PROVE  f[i] < f[j]
    OBVIOUS
  <2> HIDE DEF f
  <2>1. f[i] \in S /\ f[j] \in S /\ Rank(S, f[i]) < Rank(S, f[j])
    BY <1>2
  <2>2. \A a, c \in S : a < c <=> Rank(S, a) < Rank(S, c)
    BY RankProperties
  <2> QED
    BY <2>1, <2>2
<1>4. \A i, j \in DOMAIN f : f[i] = f[j] => i = j
  <2> HIDE DEF f
  <2> QED
    BY <1>2
<1>5. \A k \in S : Rank(S, k) \in DOMAIN f /\ f[Rank(S, k)] = k
  <2> SUFFICES ASSUME NEW k \in S PROVE Rank(S, k) \in DOMAIN f /\ f[Rank(S, k)] = k
    OBVIOUS
  <2>1. Rank(S, k) \in DOMAIN f
    BY <1>1, RankProperties
  <2> HIDE DEF f
  <2>2. f[Rank(S, k)] \in S /\ Rank(S, f[Rank(S, k)]) = Rank(S, k)
    BY <1>2, <2>1
  <2>3. f[Rank(S, k)] \in Int /\ k \in Int /\ Rank(S, k) \in Int
    <3>1. \A j \in S : j \in Int
      OBVIOUS
    <3>2. Rank(S, k) \in Int
      BY <1>1, <2>1
    <3> QED
      BY <2>2, <3>1, <3>2
  <2>4. ~(f[Rank(S, k)] < k) /\ ~(k < f[Rank(S, k)])
    <3>1. \A a, c \in S : a < c <=> Rank(S, a) < Rank(S, c)
      BY RankProperties
    <3> QED
      BY <2>2, <2>3, <3>1
  <2> QED
    BY <2>1, <2>3, <2>4
<1> QED
  BY <1>1, <1>2, <1>3, <1>4, <1>5

\* Every set of numbers that is not empty has a least element.
LEMMA LeastNumber ==
    ASSUME NEW T \in SUBSET Nat, T # {}
    PROVE  \E m \in T : \A k \in T : m <= k
<1>1. PICK n \in T : TRUE
  OBVIOUS
<1> DEFINE S == 0 .. n
           F == {0 .. k : k \in T \cap S}
<1>2. IsWellFoundedOn(StrictSubsetOrdering(S), FiniteSubsetsOf(S))
  BY FS_StrictSubsetOrderingWellFounded
<1>3. F \subseteq FiniteSubsetsOf(S) /\ F # {}
  <2>1. \A k \in T \cap S : 0 .. k \in SUBSET S /\ IsFiniteSet(0 .. k)
    BY FS_Interval
  <2>2. \A k \in T \cap S : 0 .. k \in FiniteSubsetsOf(S)
    BY <2>1 DEF FiniteSubsetsOf
  <2>3. n \in T \cap S
    OBVIOUS
  <2> QED
    BY <2>2, <2>3
<1>4. PICK I \in F : \A J \in F : <<J, I>> \notin StrictSubsetOrdering(S)
  <2> HIDE DEF S, F
  <2> QED
    BY <1>2, <1>3, WFMin
<1>5. PICK m \in T \cap S : I = 0 .. m
  OBVIOUS
<1>6. ASSUME NEW k \in T \cap S, k < m PROVE FALSE
  <2>1. <<0 .. k, 0 .. m>> \in StrictSubsetOrdering(S)
    BY <1>6 DEF StrictSubsetOrdering
  <2> QED
    BY <1>4, <1>5, <2>1
<1>7. \A k \in T : m <= k
  BY <1>5, <1>6
<1> QED
  BY <1>5, <1>7

\* What holds before a walk of n steps and is kept by each of them holds
\* throughout: S is the set of the positions at which it holds.
LEMMA WalkInduction ==
    ASSUME NEW n \in Nat, NEW S, 0 \in S, \A k \in 0 .. n - 1 : k \in S => k + 1 \in S
    PROVE  0 .. n \subseteq S
<1> DEFINE T == {k \in 0 .. n : k \notin S}
<1> SUFFICES ASSUME T # {} PROVE FALSE
  OBVIOUS
<1>1. PICK m \in T : \A k \in T : m <= k
  <2>1. T \in SUBSET Nat
    OBVIOUS
  <2> HIDE DEF T
  <2> QED
    BY <2>1, LeastNumber
<1>2. m - 1 \in 0 .. n - 1 /\ m - 1 \notin T
  BY <1>1
<1> QED
  BY <1>1, <1>2

\* w is a walk of n steps from x0.
IsWalk(w, X, x0, n, step) ==
    /\ w \in [0 .. n -> X] /\ w[0] = x0
    /\ \A k \in 1 .. n : w[k] = step[<<w[k - 1], k>>]

\* A walk that takes x to step[<<x, k>>] at position k has a result at each one.
LEMMA WalkExists ==
    ASSUME NEW X, NEW x0 \in X, NEW n \in Nat, NEW step \in [X \X (1 .. n) -> X]
    PROVE  \E w : IsWalk(w, X, x0, n, step)
<1> DEFINE S == {m \in 0 .. n : \E w : IsWalk(w, X, x0, m, step)}
<1>1. 0 \in S
  <2>1. IsWalk([k \in 0 .. 0 |-> x0], X, x0, 0, step)
    BY DEF IsWalk
  <2> QED
    BY <2>1
<1>2. ASSUME NEW m \in 0 .. n - 1, m \in S PROVE m + 1 \in S
  <2>1. PICK w : IsWalk(w, X, x0, m, step)
    BY <1>2
  <2> DEFINE v == [k \in 0 .. m + 1 |-> IF k = m + 1 THEN step[<<w[m], m + 1>>] ELSE w[k]]
  <2>2. w[m] \in X /\ m + 1 \in 1 .. n
    BY <2>1 DEF IsWalk
  <2>3. step[<<w[m], m + 1>>] \in X
    BY <2>2
  <2>4. v \in [0 .. m + 1 -> X] /\ v[0] = x0
    BY <2>1, <2>3 DEF IsWalk
  <2>5. ASSUME NEW k \in 1 .. m + 1 PROVE v[k] = step[<<v[k - 1], k>>]
    <3>1. CASE k = m + 1
      <4>1. k - 1 = m /\ k - 1 \in 0 .. m + 1
        BY <3>1
      <4>2. v[k - 1] = w[m]
        BY <4>1
      <4>3. v[m + 1] = step[<<w[m], m + 1>>]
        BY <3>1
      <4> HIDE DEF v
      <4> QED
        BY <3>1, <4>2, <4>3
    <3>2. CASE k # m + 1
      BY <2>1, <3>2 DEF IsWalk
    <3> QED
      BY <3>1, <3>2
  <2>6. IsWalk(v, X, x0, m + 1, step)
    BY <2>4, <2>5 DEF IsWalk
  <2> QED
    BY <2>2, <2>6
<1> HIDE DEF S
<1>3. 0 .. n \subseteq S
  BY <1>1, <1>2, WalkInduction
<1> QED
  BY <1>3 DEF S
=============================================================================
