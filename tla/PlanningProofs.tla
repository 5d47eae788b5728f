---------------------------- MODULE PlanningProofs ----------------------------
(***************************************************************************)
(* The safety theorems of Planning, for every mapping, policy, beam width  *)
(* and scale.                                                              *)
(*                                                                         *)
(* The planner is a search, so most of what follows is about data: sums    *)
(* over sets, sorting, and the states of the search by depth.  The library *)
(* states induction with operators as parameters; here it is an argument   *)
(* about a set T instead: the least element that is not in T leads to a    *)
(* contradiction (UpTo, SubsetsByElement).  What is defined by recursion   *)
(* is unfolded by showing that its equation has a solution (SumsUnfold,    *)
(* StatesUnfold).                                                          *)
(*                                                                         *)
(* Every state of the search keeps the constraints, its minutes and its    *)
(* score are those of its set (StatesPicked), and if the beam has room for *)
(* all selections of a size it holds all of them (StatesComplete).  With   *)
(* what the reserve holds (ReserveIs) this says what a plan is             *)
(* (ReadyPlan), and the inductive invariant of the loop (LoopInv) says     *)
(* what becomes of it.                                                     *)
(***************************************************************************)
EXTENDS Planning, FiniteSetTheorems, SequenceTheorems, TLAPS

-----------------------------------------------------------------------------
(***************************************************************************)
(* Induction, as an argument about a set.                                  *)
(***************************************************************************)
\* A set of naturals has a least one.
LEMMA LeastNatural ==
    ASSUME NEW T \in SUBSET Nat, T # {}
    PROVE  \E x \in T : \A y \in T : x <= y
<1> DEFINE R == {ss \in Nat \X Nat : ss[1] < ss[2]}
<1>1. OpToRel(<, Nat) = R
  BY Zenon DEF OpToRel
<1>2. IsWellFoundedOn(R, Nat)
  BY <1>1, NatLessThanWellFounded
<1>3. PICK x \in T : \A y \in T : ~ (<<y, x>> \in R)
  <2> HIDE DEF R
  <2> QED
    BY <1>2, WFMin, Zenon
<1>4. ASSUME NEW y \in T PROVE x <= y
  <2>1. x \in Nat /\ y \in Nat
    OBVIOUS
  <2>2. y < x => <<y, x>> \in R
    BY <2>1
  <2> QED
    BY <2>1, <2>2, <1>3
<1> QED
  BY <1>4

\* What holds of 0, and of n + 1 if of n, holds up to N.
LEMMA UpTo ==
    ASSUME NEW N \in Nat, NEW T, 0 \in T,
           \A n \in 0 .. N - 1 : n \in T => n + 1 \in T
    PROVE  0 .. N \subseteq T
<1>1. SUFFICES ASSUME (0 .. N) \ T # {} PROVE FALSE
  OBVIOUS
<1>2. PICK n \in (0 .. N) \ T : \A m \in (0 .. N) \ T : n <= m
  <2>1. (0 .. N) \ T \in SUBSET Nat
    OBVIOUS
  <2> QED
    BY <1>1, <2>1, LeastNatural
<1>3. n # 0 /\ n \in Nat /\ n <= N
  BY <1>2
<1>4. n - 1 \in 0 .. N - 1 /\ n - 1 \in 0 .. N
  BY <1>3
<1>5. n - 1 \in T
  BY <1>2, <1>3, <1>4
<1>6. (n - 1) + 1 \in T
  BY <1>4, <1>5
<1> QED
  BY <1>2, <1>3, <1>6

\* What holds of a set if it does of the set less any element holds of all
\* subsets of a finite set.
LEMMA SubsetsByElement ==
    ASSUME NEW S, IsFiniteSet(S), NEW T,
           \A s \in SUBSET S : (\A x \in s : s \ {x} \in T) => s \in T
    PROVE  SUBSET S \subseteq T
<1> DEFINE U == {n \in 0 .. Cardinality(S) :
                   \A s \in SUBSET S : Cardinality(s) = n => s \in T}
<1>1. Cardinality(S) \in Nat
  BY FS_CardinalityType
<1>2. ASSUME NEW s \in SUBSET S
      PROVE  /\ IsFiniteSet(s) /\ Cardinality(s) \in Nat
             /\ Cardinality(s) <= Cardinality(S)
             /\ (Cardinality(s) = 0) = (s = {})
  BY FS_Subset, FS_EmptySet, FS_CardinalityType
<1>3. 0 \in U
  <2>1. ASSUME NEW s \in SUBSET S, Cardinality(s) = 0 PROVE s \in T
    BY <1>2, <2>1
  <2>2. 0 \in 0 .. Cardinality(S)
    BY <1>1
  <2> QED
    BY <2>1, <2>2
<1>4. ASSUME NEW n \in 0 .. Cardinality(S) - 1, n \in U PROVE n + 1 \in U
  <2>1. n + 1 \in 0 .. Cardinality(S)
    BY <1>1
  <2>2. ASSUME NEW s \in SUBSET S, Cardinality(s) = n + 1 PROVE s \in T
    <3>1. ASSUME NEW x \in s PROVE s \ {x} \in T
      <4>1. IsFiniteSet(s) /\ n \in Int
        BY <1>1, <1>2
      <4>2. Cardinality(s \ {x}) = Cardinality(s) - 1
        BY <4>1, FS_RemoveElement
      <4>3. Cardinality(s \ {x}) = n /\ s \ {x} \in SUBSET S
        BY <2>2, <4>1, <4>2
      <4> QED
        BY <1>4, <4>3
    <3> QED
      BY <3>1
  <2> QED
    BY <2>1, <2>2
<1>5. 0 .. Cardinality(S) \subseteq U
  <2> HIDE DEF U
  <2> QED
    BY <1>1, <1>3, <1>4, UpTo
<1>6. ASSUME NEW s \in SUBSET S PROVE s \in T
  <2>1. Cardinality(s) \in 0 .. Cardinality(S)
    BY <1>1, <1>2
  <2> QED
    BY <2>1, <1>5
<1> QED
  BY <1>6

-----------------------------------------------------------------------------
(***************************************************************************)
(* Sorting.                                                                *)
(***************************************************************************)
\* What Before orders: distinct naturals with integer scores.
LEMMA BeforeIsOrder ==
    ASSUME NEW S \in SUBSET Nat, NEW score, \A o \in S : score[o] \in Int
    PROVE  \A a, b, c \in S :
             /\ ~ Before(score, a, a)
             /\ a # b => Before(score, a, b) \/ Before(score, b, a)
             /\ Before(score, a, b) /\ Before(score, b, c) => Before(score, a, c)
BY DEF Before

\* Sorted lists the elements of a set in order, each once.
LEMMA SortedEnumerates ==
    ASSUME NEW S \in SUBSET Nat, IsFiniteSet(S),
           NEW score, \A o \in S : score[o] \in Int
    PROVE  LET n == Cardinality(S)
               q == Sorted(S, score)
           IN  /\ n \in Nat
               /\ q \in [1 .. n -> S]
               /\ \A i, j \in 1 .. n : i < j => Before(score, q[i], q[j])
               /\ \A i, j \in 1 .. n : q[i] = q[j] => i = j
               /\ \A o \in S : \E i \in 1 .. n : q[i] = o
<1> DEFINE n == Cardinality(S)
           q == Sorted(S, score)
           L(o) == {x \in S : Before(score, x, o)}
           r == [o \in S |-> Cardinality(L(o))]
<1>1. n \in Nat
  BY FS_CardinalityType
<1>2. ASSUME NEW o \in S
      PROVE  /\ L(o) \subseteq S /\ L(o) # S /\ IsFiniteSet(L(o))
             /\ Cardinality(L(o)) \in Nat /\ Cardinality(L(o)) < n
  <2>1. o \notin L(o)
    BY BeforeIsOrder
  <2>2. L(o) \subseteq S /\ L(o) # S
    BY <2>1
  <2> HIDE DEF L
  <2> QED
    BY <2>2, FS_Subset, FS_CardinalityType
<1>3. ASSUME NEW a \in S, NEW b \in S, Before(score, a, b) PROVE r[a] < r[b]
  <2>1. a \notin L(a) /\ a \in L(b)
    BY <1>3, BeforeIsOrder
  <2>2. L(a) \subseteq L(b)
    BY <1>3, BeforeIsOrder
  <2> HIDE DEF L
  <2>3. L(a) # L(b)
    BY <2>1
  <2>4. Cardinality(L(a)) < Cardinality(L(b))
    BY <1>2, <2>2, <2>3, FS_Subset
  <2> QED
    BY <2>4
<1>4. r \in [S -> 0 .. n - 1]
  <2> HIDE DEF L
  <2> QED
    BY <1>1, <1>2
<1>5. ASSUME NEW a \in S, NEW b \in S, r[a] = r[b] PROVE a = b
  <2>1. r[a] \in Int /\ r[b] \in Int
    <3> HIDE DEF r
    <3> QED
      BY <1>4
  <2> HIDE DEF r
  <2> QED
    BY <1>3, <1>5, <2>1, BeforeIsOrder
<1>6. \A k \in 0 .. n - 1 : \E o \in S : r[o] = k
  <2> HIDE DEF r
  <2>1. r \in Injection(S, 0 .. n - 1)
    BY <1>4, <1>5 DEF Injection, IsInjective
  <2>2. IsFiniteSet(0 .. n - 1) /\ Cardinality(0 .. n - 1) = n
    <3>1. n - 1 \in Int /\ 0 \in Int
      BY <1>1
    <3>2. /\ IsFiniteSet(0 .. n - 1)
          /\ Cardinality(0 .. n - 1) = IF 0 > n - 1 THEN 0 ELSE (n - 1) - 0 + 1
      BY <3>1, FS_Interval
    <3> QED
      BY <1>1, <3>2
  <2>3. r \in Surjection(S, 0 .. n - 1)
    BY <2>1, <2>2, FS_Injection
  <2> QED
    BY <2>3 DEF Surjection
<1>7. q = [k \in 1 .. n |-> CHOOSE o \in S : Cardinality(L(o)) = k - 1]
  BY Zenon DEF Sorted
<1>8. ASSUME NEW k \in 1 .. n PROVE q[k] \in S /\ r[q[k]] = k - 1
  <2>1. k - 1 \in 0 .. n - 1
    BY <1>1
  <2>2. \E o \in S : Cardinality(L(o)) = k - 1
    <3>1. PICK o \in S : r[o] = k - 1
      <4> HIDE DEF r
      <4> QED
        BY <1>6, <2>1
    <3> HIDE DEF L
    <3> QED
      BY <3>1
  <2>3. q[k] \in S /\ Cardinality(L(q[k])) = k - 1
    <3> HIDE DEF L, q
    <3> QED
      BY <1>7, <2>2
  <2> HIDE DEF L, q
  <2> QED
    BY <2>3
<1>9. q \in [1 .. n -> S]
  <2> HIDE DEF r, q
  <2>1. q = [k \in 1 .. n |-> q[k]]
    BY <1>7
  <2> QED
    BY <1>8, <2>1
<1> HIDE DEF r, q
<1>10. ASSUME NEW i \in 1 .. n, NEW j \in 1 .. n, i < j
       PROVE  Before(score, q[i], q[j])
  <2>1. /\ q[i] \in S /\ q[j] \in S
        /\ r[q[i]] = i - 1 /\ r[q[j]] = j - 1
    BY <1>8
  <2>2. i \in Int /\ j \in Int
    BY <1>1
  <2>3. ~ Before(score, q[j], q[i])
    <3>1. Before(score, q[j], q[i]) => r[q[j]] < r[q[i]]
      BY <1>3, <2>1
    <3> QED
      BY <1>10, <2>1, <2>2, <3>1
  <2>4. q[i] # q[j]
    BY <1>10, <2>1, <2>2
  <2> QED
    BY <2>1, <2>3, <2>4, BeforeIsOrder
<1>11. ASSUME NEW i \in 1 .. n, NEW j \in 1 .. n, q[i] = q[j] PROVE i = j
  BY <1>1, <1>8, <1>11
<1>12. ASSUME NEW o \in S PROVE \E i \in 1 .. n : q[i] = o
  <2>1. r[o] \in 0 .. n - 1
    BY <1>4
  <2>2. r[o] + 1 \in 1 .. n
    BY <1>1, <2>1
  <2>3. r[q[r[o] + 1]] = r[o] /\ q[r[o] + 1] \in S
    BY <1>8, <2>1, <2>2
  <2> QED
    BY <1>5, <2>2, <2>3
<1> QED
  BY <1>1, <1>9, <1>10, <1>11, <1>12 DEF q

-----------------------------------------------------------------------------
(***************************************************************************)
(* Sums over finite sets.                                                  *)
(***************************************************************************)
\* The element a sum takes first, and the sums over the subsets of S.
First(s) == CHOOSE x \in s : TRUE
Sums(v, S) ==
    LET iter[s \in SUBSET S] ==
          IF s = {} THEN 0 ELSE v[First(s)] + iter[s \ {First(s)}]
    IN  iter

IsSums(h, v, S) ==
    h = [s \in SUBSET S |->
           IF s = {} THEN 0 ELSE v[First(s)] + h[s \ {First(s)}]]

\* The fold of the library as that function.
LEMMA SumIsSums ==
    ASSUME NEW v, NEW S
    PROVE  SumFunctionOnSet(v, S) = Sums(v, S)[S]
BY DEF SumFunctionOnSet, FoldFunctionOnSet, MapThenFoldSet, Sums, First

LEMMA FirstIn ==
    ASSUME NEW s, s # {}
    PROVE  First(s) \in s
BY DEF First

LEMMA SubsetSizes ==
    ASSUME NEW S, IsFiniteSet(S)
    PROVE  /\ Cardinality(S) \in Nat
           /\ \A s \in SUBSET S :
                /\ IsFiniteSet(s) /\ Cardinality(s) \in Nat
                /\ Cardinality(s) <= Cardinality(S)
                /\ (Cardinality(s) = 0) = (s = {})
                /\ \A x \in s : Cardinality(s \ {x}) = Cardinality(s) - 1
                /\ \A x \in S \ s : Cardinality(s \cup {x}) = Cardinality(s) + 1
<1>1. Cardinality(S) \in Nat
  BY FS_CardinalityType
<1>2. ASSUME NEW s \in SUBSET S
      PROVE  /\ IsFiniteSet(s) /\ Cardinality(s) \in Nat
             /\ Cardinality(s) <= Cardinality(S)
             /\ (Cardinality(s) = 0) = (s = {})
             /\ \A x \in s : Cardinality(s \ {x}) = Cardinality(s) - 1
             /\ \A x \in S \ s : Cardinality(s \cup {x}) = Cardinality(s) + 1
  <2>1. IsFiniteSet(s) /\ Cardinality(s) <= Cardinality(S)
    BY FS_Subset
  <2>2. Cardinality(s) \in Nat
    BY <2>1, FS_CardinalityType
  <2>3. (Cardinality(s) = 0) = (s = {})
    BY <2>1, FS_EmptySet
  <2>4. ASSUME NEW x \in s PROVE Cardinality(s \ {x}) = Cardinality(s) - 1
    BY <2>1, FS_RemoveElement
  <2>5. ASSUME NEW x \in S \ s PROVE Cardinality(s \cup {x}) = Cardinality(s) + 1
    BY <2>1, FS_AddElement
  <2> QED
    BY <2>1, <2>2, <2>3, <2>4, <2>5
<1> QED
  BY <1>1, <1>2

LEMMA SumsExist ==
    ASSUME NEW v, NEW S, IsFiniteSet(S)
    PROVE  \E h : IsSums(h, v, S)
<1> DEFINE Ok(h, n) ==
             \A s \in SUBSET S : Cardinality(s) <= n =>
               h[s] = IF s = {} THEN 0 ELSE v[First(s)] + h[s \ {First(s)}]
           N == Cardinality(S)
           T == {n \in 0 .. N : \E h : Ok(h, n)}
<1>1. 0 \in T
  <2>1. Ok([s \in SUBSET S |-> 0], 0)
    BY SubsetSizes
  <2>2. 0 \in 0 .. N
    BY SubsetSizes
  <2> HIDE DEF Ok
  <2> QED
    BY <2>1, <2>2
<1>2. ASSUME NEW n \in 0 .. N - 1, n \in T PROVE n + 1 \in T
  <2>1. PICK h : Ok(h, n)
    <3> HIDE DEF Ok
    <3> QED
      BY <1>2
  <2> DEFINE g == [s \in SUBSET S |->
                     IF Cardinality(s) <= n THEN h[s]
                     ELSE v[First(s)] + h[s \ {First(s)}]]
  <2>2. Ok(g, n + 1)
    <3>1. SUFFICES ASSUME NEW s \in SUBSET S, Cardinality(s) <= n + 1
                   PROVE  g[s] = IF s = {} THEN 0
                                 ELSE v[First(s)] + g[s \ {First(s)}]
      OBVIOUS
    <3>2. CASE s = {}
      <4>1. Cardinality(s) <= n
        BY <3>2, SubsetSizes
      <4> QED
        BY <2>1, <3>2, <4>1
    <3>3. CASE s # {}
      <4>1. First(s) \in s
        BY <3>3, FirstIn
      <4> DEFINE t == s \ {First(s)}
      <4>2. t \in SUBSET S /\ Cardinality(t) <= n
        BY <3>1, <4>1, SubsetSizes
      <4>3. g[t] = h[t]
        BY <4>2
      <4>4. g[s] = v[First(s)] + h[t]
        <5>1. CASE Cardinality(s) <= n
          BY <2>1, <3>3, <5>1
        <5>2. CASE ~ (Cardinality(s) <= n)
          BY <5>2
        <5> QED
          BY <5>1, <5>2
      <4> QED
        BY <3>3, <4>3, <4>4
    <3> QED
      BY <3>2, <3>3
  <2>3. n + 1 \in 0 .. N
    BY SubsetSizes
  <2> HIDE DEF Ok
  <2> QED
    BY <2>2, <2>3
<1>3. N \in T
  <2>1. N \in Nat
    BY SubsetSizes
  <2>2. 0 .. N \subseteq T
    <3> HIDE DEF N, T
    <3> QED
      BY <1>1, <1>2, <2>1, UpTo
  <2>3. N \in 0 .. N
    BY <2>1
  <2> HIDE DEF N, T
  <2> QED
    BY <2>2, <2>3
<1>4. PICK h : Ok(h, N)
  <2> HIDE DEF Ok
  <2> QED
    BY <1>3
<1> DEFINE g == [s \in SUBSET S |-> h[s]]
<1>5. ASSUME NEW s \in SUBSET S
      PROVE  g[s] = IF s = {} THEN 0 ELSE v[First(s)] + g[s \ {First(s)}]
  <2>1. Cardinality(s) <= N /\ s \ {First(s)} \in SUBSET S
    BY SubsetSizes
  <2> QED
    BY <1>4, <2>1
<1>6. IsSums(g, v, S)
  BY <1>5 DEF IsSums
<1> QED
  BY <1>6

LEMMA SumsDefined ==
    ASSUME NEW v, NEW S, IsFiniteSet(S)
    PROVE  IsSums(Sums(v, S), v, S)
<1>1. PICK h : IsSums(h, v, S)
  BY SumsExist, Zenon
<1> QED
  BY <1>1 DEF Sums, IsSums

LEMMA SumsUnfold ==
    ASSUME NEW v, NEW S, IsFiniteSet(S), NEW t \in SUBSET S
    PROVE  Sums(v, S)[t] = IF t = {} THEN 0
                           ELSE v[First(t)] + Sums(v, S)[t \ {First(t)}]
<1>1. PICK h : h = Sums(v, S)
  OBVIOUS
<1>2. IsSums(h, v, S)
  BY <1>1, SumsDefined, Zenon
<1>3. h[t] = IF t = {} THEN 0 ELSE v[First(t)] + h[t \ {First(t)}]
  BY <1>2 DEF IsSums
<1> QED
  BY <1>1, <1>3

\* A sum takes its elements in an order of its own, and does not depend on the
\* set it is computed in.
LEMMA SumTakesFirst ==
    ASSUME NEW v, NEW S, IsFiniteSet(S)
    PROVE  /\ SumFunctionOnSet(v, {}) = 0
           /\ S # {} => SumFunctionOnSet(v, S)
                          = v[First(S)] + SumFunctionOnSet(v, S \ {First(S)})
<1>1. SumFunctionOnSet(v, {}) = 0
  <2>1. IsFiniteSet({})
    BY FS_EmptySet
  <2> QED
    BY <2>1, SumIsSums, SumsUnfold
<1>2. ASSUME S # {}
      PROVE  SumFunctionOnSet(v, S)
               = v[First(S)] + SumFunctionOnSet(v, S \ {First(S)})
  <2> DEFINE U == S \ {First(S)}
             T == {t \in SUBSET U : Sums(v, S)[t] = Sums(v, U)[t]}
  <2>1. IsFiniteSet(U)
    BY FS_Subset
  <2>2. ASSUME NEW t \in SUBSET U, \A x \in t : t \ {x} \in T PROVE t \in T
    <3>1. t \in SUBSET S
      OBVIOUS
    <3>2. CASE t = {}
      BY <2>1, <3>1, <3>2, SumsUnfold
    <3>3. CASE t # {}
      <4>1. t \ {First(t)} \in T
        BY <2>2, <3>3, FirstIn
      <4> QED
        BY <2>1, <3>1, <3>3, <4>1, SumsUnfold
    <3> QED
      BY <3>2, <3>3
  <2>3. SUBSET U \subseteq T
    <3> HIDE DEF U, T
    <3> QED
      BY <2>1, <2>2, SubsetsByElement
  <2>4. Sums(v, S)[U] = Sums(v, U)[U]
    BY <2>3
  <2>5. Sums(v, S)[S] = v[First(S)] + Sums(v, S)[U]
    BY <1>2, SumsUnfold
  <2> QED
    BY <2>4, <2>5, SumIsSums
<1> QED
  BY <1>1, <1>2

LEMMA SumEmpty ==
    ASSUME NEW v
    PROVE  SumFunctionOnSet(v, {}) = 0
<1>1. IsFiniteSet({})
  BY FS_EmptySet
<1> QED
  BY <1>1, SumTakesFirst

LEMMA SumType ==
    ASSUME NEW v, NEW S, IsFiniteSet(S), \A o \in S : v[o] \in Int
    PROVE  \A s \in SUBSET S : SumFunctionOnSet(v, s) \in Int
<1> DEFINE T == {s \in SUBSET S : SumFunctionOnSet(v, s) \in Int}
<1>1. ASSUME NEW s \in SUBSET S, \A x \in s : s \ {x} \in T PROVE s \in T
  <2>1. IsFiniteSet(s)
    BY FS_Subset
  <2>2. CASE s = {}
    BY <2>2, SumEmpty
  <2>3. CASE s # {}
    <3>1. PICK c \in s : c = First(s)
      BY <2>3, FirstIn
    <3>2. SumFunctionOnSet(v, s) = v[c] + SumFunctionOnSet(v, s \ {c})
      BY <2>1, <2>3, <3>1, SumTakesFirst
    <3>3. SumFunctionOnSet(v, s \ {c}) \in Int /\ v[c] \in Int
      BY <1>1, <3>1
    <3> QED
      BY <3>1, <3>2, <3>3
  <2> QED
    BY <2>2, <2>3
<1>2. SUBSET S \subseteq T
  <2> HIDE DEF T
  <2> QED
    BY <1>1, SubsetsByElement
<1> QED
  BY <1>2

\* Any of its elements can be taken out of a sum.
LEMMA SumTakes ==
    ASSUME NEW v, NEW S, IsFiniteSet(S), \A o \in S : v[o] \in Int
    PROVE  \A s \in SUBSET S : \A x \in s :
             SumFunctionOnSet(v, s) = v[x] + SumFunctionOnSet(v, s \ {x})
<1> DEFINE Z(s) == SumFunctionOnSet(v, s)
           T == {s \in SUBSET S : \A x \in s : Z(s) = v[x] + Z(s \ {x})}
<1>1. ASSUME NEW s \in SUBSET S, \A x \in s : s \ {x} \in T PROVE s \in T
  <2>1. SUFFICES ASSUME NEW x \in s PROVE Z(s) = v[x] + Z(s \ {x})
    OBVIOUS
  <2>2. IsFiniteSet(s) /\ IsFiniteSet(s \ {x})
    BY FS_Subset
  <2> DEFINE c == First(s)
  <2>3. c \in s /\ Z(s) = v[c] + Z(s \ {c})
    BY <2>1, <2>2, FirstIn, SumTakesFirst
  <2>4. CASE x = c
    BY <2>3, <2>4
  <2>5. CASE x # c
    <3> HIDE DEF c, Z
    <3>1. Z(s \ {c}) = v[x] + Z((s \ {c}) \ {x})
      BY <1>1, <2>3, <2>5
    <3>2. Z(s \ {x}) = v[c] + Z((s \ {x}) \ {c})
      BY <1>1, <2>1, <2>3, <2>5
    <3>3. (s \ {c}) \ {x} = (s \ {x}) \ {c}
      OBVIOUS
    <3>4. Z((s \ {x}) \ {c}) \in Int
      BY SumType DEF Z
    <3>5. v[x] \in Int /\ v[c] \in Int
      BY <2>3
    <3>6. PICK z \in Int : z = Z((s \ {x}) \ {c})
      BY <3>4
    <3>7. Z(s \ {c}) = v[x] + z /\ Z(s \ {x}) = v[c] + z
      BY <3>1, <3>2, <3>3, <3>6, Zenon
    <3> QED
      BY <2>3, <3>5, <3>7
  <2> QED
    BY <2>4, <2>5
<1>2. SUBSET S \subseteq T
  <2> HIDE DEF T
  <2> QED
    BY <1>1, SubsetsByElement
<1> QED
  BY <1>2

\* Sums of a difference, of equal functions, and of naturals.
LEMMA SumDifference ==
    ASSUME NEW u, NEW v, NEW w, NEW S, IsFiniteSet(S),
           \A o \in S : v[o] \in Int /\ w[o] \in Int /\ u[o] = v[o] - w[o]
    PROVE  SumFunctionOnSet(u, S) = SumFunctionOnSet(v, S) - SumFunctionOnSet(w, S)
<1> DEFINE Z(f, s) == SumFunctionOnSet(f, s)
           T == {s \in SUBSET S : Z(u, s) = Z(v, s) - Z(w, s)}
<1>1. ASSUME NEW s \in SUBSET S, \A x \in s : s \ {x} \in T PROVE s \in T
  <2>1. IsFiniteSet(s)
    BY FS_Subset
  <2>2. CASE s = {}
    BY <2>2, SumEmpty
  <2>3. CASE s # {}
    <3> DEFINE c == First(s)
               t == s \ {c}
    <3>1. c \in s
      BY <2>3, FirstIn
    <3>2. Z(v, t) \in Int /\ Z(w, t) \in Int
      BY SumType
    <3>3. /\ Z(u, s) = u[c] + Z(u, t)
          /\ Z(v, s) = v[c] + Z(v, t)
          /\ Z(w, s) = w[c] + Z(w, t)
      BY <2>1, <2>3, SumTakesFirst
    <3>4. Z(u, t) = Z(v, t) - Z(w, t)
      BY <1>1, <3>1
    <3>5. v[c] \in Int /\ w[c] \in Int /\ u[c] = v[c] - w[c]
      BY <3>1
    <3> HIDE DEF Z, c, t
    <3>6. Z(u, s) = Z(v, s) - Z(w, s)
      BY <3>2, <3>3, <3>4, <3>5
    <3> QED
      BY <3>6
  <2> QED
    BY <2>2, <2>3
<1>2. SUBSET S \subseteq T
  <2> HIDE DEF T
  <2> QED
    BY <1>1, SubsetsByElement
<1> QED
  BY <1>2

LEMMA SumSame ==
    ASSUME NEW u, NEW v, NEW S, IsFiniteSet(S), \A o \in S : u[o] = v[o]
    PROVE  SumFunctionOnSet(u, S) = SumFunctionOnSet(v, S)
<1> DEFINE T == {s \in SUBSET S : SumFunctionOnSet(u, s) = SumFunctionOnSet(v, s)}
<1>1. ASSUME NEW s \in SUBSET S, \A x \in s : s \ {x} \in T PROVE s \in T
  <2>1. IsFiniteSet(s)
    BY FS_Subset
  <2>2. CASE s = {}
    BY <2>2, SumEmpty
  <2>3. CASE s # {}
    <3>1. PICK c \in s : c = First(s)
      BY <2>3, FirstIn
    <3>2. /\ SumFunctionOnSet(u, s) = u[c] + SumFunctionOnSet(u, s \ {c})
          /\ SumFunctionOnSet(v, s) = v[c] + SumFunctionOnSet(v, s \ {c})
      BY <2>1, <2>3, <3>1, SumTakesFirst
    <3>3. SumFunctionOnSet(u, s \ {c}) = SumFunctionOnSet(v, s \ {c}) /\ u[c] = v[c]
      BY <1>1, <3>1
    <3> QED
      BY <3>1, <3>2, <3>3
  <2> QED
    BY <2>2, <2>3
<1>2. SUBSET S \subseteq T
  <2> HIDE DEF T
  <2> QED
    BY <1>1, SubsetsByElement
<1> QED
  BY <1>2

LEMMA SumOfNaturals ==
    ASSUME NEW v, NEW S, IsFiniteSet(S), \A o \in S : v[o] \in Nat
    PROVE  SumFunctionOnSet(v, S) \in Nat
<1> DEFINE T == {s \in SUBSET S : SumFunctionOnSet(v, s) \in Nat}
<1>1. ASSUME NEW s \in SUBSET S, \A x \in s : s \ {x} \in T PROVE s \in T
  <2>1. IsFiniteSet(s)
    BY FS_Subset
  <2>2. CASE s = {}
    BY <2>2, SumEmpty
  <2>3. CASE s # {}
    <3>1. PICK c \in s : c = First(s)
      BY <2>3, FirstIn
    <3>2. SumFunctionOnSet(v, s) = v[c] + SumFunctionOnSet(v, s \ {c})
      BY <2>1, <2>3, <3>1, SumTakesFirst
    <3>3. SumFunctionOnSet(v, s \ {c}) \in Nat /\ v[c] \in Nat
      BY <1>1, <3>1
    <3> QED
      BY <3>1, <3>2, <3>3
  <2> QED
    BY <2>2, <2>3
<1>2. SUBSET S \subseteq T
  <2> HIDE DEF T
  <2> QED
    BY <1>1, SubsetsByElement
<1> QED
  BY <1>2

-----------------------------------------------------------------------------
(***************************************************************************)
(* The types of scores and minutes.                                        *)
(***************************************************************************)
Base(f, p) == [o \in Opportunities |-> _base_score(f, p, o)]

\* An overlap is an integer, the same from either side.
LEMMA Overlaps ==
    ASSUME NEW f \in Mappings, NEW a \in Opportunities, NEW b \in Opportunities
    PROVE  /\ evidence_overlap(f, a, b) \in Int
           /\ evidence_overlap(f, a, b) = evidence_overlap(f, b, a)
<1> DEFINE A == f[a].evidence
           B == f[b].evidence
<1>1. IsFiniteSet(A) /\ IsFiniteSet(B) /\ A # {} /\ Scale \in Nat
  BY PlanningConstants
<1>2. A \cap B = B \cap A /\ A \cup B = B \cup A
  OBVIOUS
<1>3. IsFiniteSet(A \cap B) /\ IsFiniteSet(A \cup B) /\ A \cup B # {}
  <2> HIDE DEF A, B
  <2> QED
    BY <1>1, FS_Intersection, FS_Union
<1>4. Cardinality(A \cap B) \in Nat /\ Cardinality(A \cup B) \in Nat \ {0}
  <2> HIDE DEF A, B
  <2> QED
    BY <1>3, FS_CardinalityType, FS_EmptySet
<1>5. PICK m \in Nat, n \in Nat \ {0} :
        m = Cardinality(A \cap B) /\ n = Cardinality(A \cup B)
  BY <1>4
<1>6. (Scale * m) \div n \in Int
  BY <1>1
<1> QED
  BY <1>2, <1>5, <1>6 DEF evidence_overlap

\* What the constants are.
LEMMA Parameters ==
    ASSUME NEW f \in Mappings, NEW p \in Policies
    PROVE  /\ Opportunities \in SUBSET Nat /\ IsFiniteSet(Opportunities)
           /\ DOMAIN f = Opportunities
           /\ \A o \in Opportunities :
                /\ f[o].priority \in Nat /\ f[o].fit \in Nat /\ f[o].quality \in Nat
                /\ f[o].minutes \in 1 .. 60 /\ f[o].justification \in BOOLEAN
           /\ p.count \in 1 .. 20 /\ p.maxMinutes \in 3 .. 120
           /\ p.maxOverlap \in Nat /\ p.maxReserve \in 0 .. 10
           /\ p.selectedMode \in BOOLEAN
           /\ p.weights[1] \in Nat /\ p.weights[2] \in Nat /\ p.weights[3] \in Nat
           /\ p.dimensionPenalty \in Nat /\ p.variantPenalty \in Nat
           /\ p.overlapPenalty \in Nat
           /\ Scale \in Nat \ {0} /\ BeamWidth \in Nat \ {0}
<1>1. f \in [Opportunities -> Opportunity] /\ p \in Policy
  BY PlanningConstants
<1>2. ASSUME NEW o \in Opportunities
      PROVE  /\ f[o].priority \in Nat /\ f[o].fit \in Nat /\ f[o].quality \in Nat
             /\ f[o].minutes \in 1 .. 60 /\ f[o].justification \in BOOLEAN
  BY <1>1 DEF Opportunity
<1>3. /\ p.count \in 1 .. 20 /\ p.maxMinutes \in 3 .. 120
      /\ p.maxOverlap \in Nat /\ p.maxReserve \in 0 .. 10
      /\ p.selectedMode \in BOOLEAN
      /\ p.weights \in [1 .. 3 -> Nat]
      /\ p.dimensionPenalty \in Nat /\ p.variantPenalty \in Nat
      /\ p.overlapPenalty \in Nat
  BY <1>1 DEF Policy
<1> QED
  BY <1>1, <1>2, <1>3, PlanningConstants

LEMMA ScoreTypes ==
    ASSUME NEW f \in Mappings, NEW p \in Policies
    PROVE  /\ \A o \in Opportunities :
                _base_score(f, p, o) \in Int /\ Base(f, p)[o] = _base_score(f, p, o)
           /\ \A a, b \in Opportunities :
                /\ PenaltyOf(f, p, a, b) \in Int
                /\ PenaltyOf(f, p, a, b) = PenaltyOf(f, p, b, a)
<1>1. ASSUME NEW o \in Opportunities
      PROVE  _base_score(f, p, o) \in Int /\ Base(f, p)[o] = _base_score(f, p, o)
  <2>1. PICK x \in Nat, y \in Nat, z \in Nat :
          x = f[o].priority /\ y = f[o].fit /\ z = f[o].quality
    BY Parameters
  <2>2. PICK u \in Nat, v \in Nat, w \in Nat :
          u = p.weights[1] /\ v = p.weights[2] /\ w = p.weights[3]
    BY Parameters
  <2>3. Scale \in Nat
    BY Parameters
  <2>4. Scale * (x * u + y * v + z * w) \in Int
    BY <2>3
  <2> QED
    BY <2>1, <2>2, <2>4 DEF _base_score, Base
<1>2. ASSUME NEW a \in Opportunities, NEW b \in Opportunities
      PROVE  /\ PenaltyOf(f, p, a, b) \in Int
             /\ PenaltyOf(f, p, a, b) = PenaltyOf(f, p, b, a)
  <2>1. PICK x \in Int : x = evidence_overlap(f, a, b)
    BY Overlaps
  <2>2. x = evidence_overlap(f, b, a)
    BY <2>1, Overlaps
  <2>3. PICK u \in Nat, v \in Nat, w \in Nat, z \in Nat :
          /\ u = p.dimensionPenalty /\ v = p.variantPenalty
          /\ w = p.overlapPenalty /\ z = Scale
    BY Parameters
  <2>4. z * u \in Int /\ z * v \in Int /\ w * x \in Int
    BY <2>3
  <2>5. /\ PenaltyOf(f, p, a, b)
             = (IF f[a].dimension = f[b].dimension THEN z * u ELSE 0)
               + (IF f[a].variant = f[b].variant THEN z * v ELSE 0) + w * x
        /\ PenaltyOf(f, p, b, a)
             = (IF f[a].dimension = f[b].dimension THEN z * u ELSE 0)
               + (IF f[a].variant = f[b].variant THEN z * v ELSE 0) + w * x
    BY <2>1, <2>2, <2>3 DEF PenaltyOf
  <2> QED
    BY <2>4, <2>5
<1> QED
  BY <1>1, <1>2

LEMMA SumsOfPlanner ==
    ASSUME NEW f \in Mappings, NEW p \in Policies, NEW W \in SUBSET Opportunities
    PROVE  /\ IsFiniteSet(W)
           /\ Minutes(f, W) \in Nat
           /\ \A o \in Opportunities :
                Penalty(f, p, o, W) \in Int /\ _marginal_score(f, p, o, W) \in Int
           /\ \A o \in Opportunities : Marginal(f, p, W)[o] \in Int
<1>1. IsFiniteSet(W)
  BY Parameters, FS_Subset
<1>2. Minutes(f, W) \in Nat
  <2> DEFINE v == [o \in Opportunities |-> f[o].minutes]
  <2>1. \A o \in W : v[o] \in Nat
    BY Parameters
  <2> HIDE DEF v
  <2>2. SumFunctionOnSet(v, W) \in Nat
    BY <1>1, <2>1, SumOfNaturals
  <2> QED
    BY <2>2 DEF Minutes, v
<1>3. ASSUME NEW o \in Opportunities
      PROVE  Penalty(f, p, o, W) \in Int /\ _marginal_score(f, p, o, W) \in Int
  <2> DEFINE v == [c \in Opportunities |-> PenaltyOf(f, p, c, o)]
  <2>1. \A c \in W : v[c] \in Int
    BY ScoreTypes
  <2> HIDE DEF v
  <2>2. SumFunctionOnSet(v, W) \in Int
    BY <1>1, <2>1, SumType
  <2>3. Penalty(f, p, o, W) \in Int
    BY <2>2 DEF Penalty, v
  <2>4. _base_score(f, p, o) \in Int
    BY ScoreTypes
  <2> QED
    BY <2>3, <2>4 DEF _marginal_score
<1> QED
  BY <1>1, <1>2, <1>3 DEF Marginal

-----------------------------------------------------------------------------
(***************************************************************************)
(* The states of the search, by depth.                                     *)
(***************************************************************************)
\* The candidates in the order in which they are taken, and a selection in it.
Ascends(f, p, s) ==
    \A i, j \in 1 .. Len(s) : i < j => Before(Base(f, p), s[i], s[j])

\* What a state of so many choices is.
Picked(f, p, s, d) ==
    /\ s \in [selected : Seq(Candidates(f, p)), score : Int, minutes : Nat]
    /\ Len(s.selected) = d
    /\ Ascends(f, p, s.selected)
    /\ Cardinality(ToSet(s.selected)) = d
    /\ Compatible(f, p, ToSet(s.selected))
    /\ s.minutes = Minutes(f, ToSet(s.selected))
    /\ 2 * s.score = Worth(f, p, ToSet(s.selected))

Start == [selected |-> <<>>, score |-> 0, minutes |-> 0]

\* The states, by depth, as the equation that defines them.
IsStates(h, f, p, q) ==
    h = [d \in 0 .. p.count |->
           IF d = 0 THEN {Start}
           ELSE Beam(UNION {Extended(f, p, q, s) : s \in h[d - 1]})]

LEMMA StatesExist ==
    ASSUME NEW f, NEW p, NEW q, p.count \in Nat
    PROVE  \E h : IsStates(h, f, p, q)
<1> DEFINE N == p.count
           G(S) == Beam(UNION {Extended(f, p, q, s) : s \in S})
           Ok(h, n) == \A d \in 0 .. n : h[d] = IF d = 0 THEN {Start} ELSE G(h[d - 1])
           T == {n \in 0 .. N : \E h : Ok(h, n)}
<1> HIDE DEF G
<1>1. 0 \in T
  <2>1. Ok([d \in 0 .. N |-> {Start}], 0)
    OBVIOUS
  <2> HIDE DEF Ok
  <2> QED
    BY <2>1
<1>2. ASSUME NEW n \in 0 .. N - 1, n \in T PROVE n + 1 \in T
  <2>1. PICK h : Ok(h, n)
    <3> HIDE DEF Ok
    <3> QED
      BY <1>2
  <2> DEFINE g == [d \in 0 .. N |-> IF d <= n THEN h[d] ELSE G(h[n])]
  <2>2. Ok(g, n + 1)
    <3>1. SUFFICES ASSUME NEW d \in 0 .. n + 1
                   PROVE  g[d] = IF d = 0 THEN {Start} ELSE G(g[d - 1])
      OBVIOUS
    <3>2. CASE d <= n
      <4>1. d \in 0 .. n /\ d \in 0 .. N /\ g[d] = h[d]
        BY <3>2
      <4>2. d # 0 => d - 1 \in 0 .. N /\ d - 1 <= n
        BY <3>2
      <4>3. d # 0 => g[d - 1] = h[d - 1]
        BY <4>2
      <4> HIDE DEF g
      <4> QED
        BY <2>1, <4>1, <4>3
    <3>3. CASE d = n + 1
      <4>1. g[d] = G(h[n]) /\ g[n] = h[n] /\ d # 0 /\ d - 1 = n
        BY <3>3
      <4> HIDE DEF g
      <4> QED
        BY <4>1
    <3> QED
      BY <3>2, <3>3
  <2> HIDE DEF Ok
  <2> QED
    BY <2>2
<1>3. N \in T
  <2>1. 0 .. N \subseteq T
    <3> HIDE DEF N, T
    <3> QED
      BY <1>1, <1>2, UpTo DEF N
  <2>2. N \in 0 .. N
    OBVIOUS
  <2> HIDE DEF N, T
  <2> QED
    BY <2>1, <2>2
<1>4. PICK h : Ok(h, N)
  <2> HIDE DEF Ok
  <2> QED
    BY <1>3
<1> DEFINE g == [d \in 0 .. N |-> h[d]]
<1>5. ASSUME NEW d \in 0 .. N
      PROVE  g[d] = IF d = 0 THEN {Start} ELSE G(g[d - 1])
  <2>1. h[d] = IF d = 0 THEN {Start} ELSE G(h[d - 1])
    BY <1>4
  <2>2. g[d] = h[d] /\ (d # 0 => g[d - 1] = h[d - 1])
    OBVIOUS
  <2> HIDE DEF g
  <2> QED
    BY <2>1, <2>2
<1>6. g = [d \in 0 .. N |-> IF d = 0 THEN {Start} ELSE G(g[d - 1])]
  BY <1>5
<1> QED
  BY <1>6, Zenon DEF IsStates, G

LEMMA StatesDefined ==
    ASSUME NEW f, NEW p, NEW q, p.count \in Nat
    PROVE  IsStates(States(f, p, q), f, p, q)
<1>1. PICK h : IsStates(h, f, p, q)
  BY StatesExist, Zenon
<1> QED
  BY <1>1, Zenon DEF States, IsStates, Start

LEMMA StatesUnfold ==
    ASSUME NEW f, NEW p, NEW q, p.count \in Nat
    PROVE  /\ States(f, p, q)[0] = {Start}
           /\ \A d \in 1 .. p.count :
                States(f, p, q)[d]
                  = Beam(UNION {Extended(f, p, q, s) : s \in States(f, p, q)[d - 1]})
<1>1. PICK h : h = States(f, p, q)
  OBVIOUS
<1>2. IsStates(h, f, p, q)
  BY <1>1, StatesDefined, Zenon
<1> DEFINE G(S) == Beam(UNION {Extended(f, p, q, s) : s \in S})
<1>3. h = [d \in 0 .. p.count |-> IF d = 0 THEN {Start} ELSE G(h[d - 1])]
  BY <1>2, Zenon DEF IsStates
<1> HIDE DEF G
<1>4. h[0] = {Start}
  <2>1. 0 \in 0 .. p.count
    OBVIOUS
  <2> QED
    BY <1>3, <2>1
<1>5. ASSUME NEW d \in 1 .. p.count PROVE h[d] = G(h[d - 1])
  <2>1. d \in 0 .. p.count /\ d # 0
    OBVIOUS
  <2> QED
    BY <1>3, <2>1
<1> QED
  BY <1>1, <1>4, <1>5 DEF G

-----------------------------------------------------------------------------
(***************************************************************************)
(* What one more opportunity adds to a selection.                          *)
(***************************************************************************)
\* The penalty of a set is that of one of its members and of the others.
LEMMA PenaltyAdd ==
    ASSUME NEW f \in Mappings, NEW p \in Policies, NEW W \in SUBSET Opportunities,
           NEW x \in Opportunities, NEW o \in W
    PROVE  Penalty(f, p, x, W) = PenaltyOf(f, p, o, x) + Penalty(f, p, x, W \ {o})
<1> DEFINE v == [c \in Opportunities |-> PenaltyOf(f, p, c, x)]
<1>1. IsFiniteSet(W) /\ v[o] = PenaltyOf(f, p, o, x)
  BY SumsOfPlanner
<1>2. \A c \in W : v[c] \in Int
  BY ScoreTypes
<1> HIDE DEF v
<1>3. SumFunctionOnSet(v, W) = v[o] + SumFunctionOnSet(v, W \ {o})
  BY <1>1, <1>2, SumTakes
<1> QED
  BY <1>1, <1>3 DEF Penalty, v

\* Each of two opportunities takes from the score of the other what the other
\* takes from its own: a selection is worth twice the sum of what each added.
LEMMA WorthAdd ==
    ASSUME NEW f \in Mappings, NEW p \in Policies, NEW W \in SUBSET Opportunities,
           NEW o \in Opportunities \ W
    PROVE  /\ Worth(f, p, W) \in Int /\ Worth(f, p, W \cup {o}) \in Int
           /\ Worth(f, p, W \cup {o})
                = Worth(f, p, W) + 2 * _marginal_score(f, p, o, W)
<1> DEFINE U == W \cup {o}
           v(S) == [x \in Opportunities |->
                      2 * _base_score(f, p, x) - Penalty(f, p, x, S \ {x})]
           w == [c \in Opportunities |-> PenaltyOf(f, p, c, o)]
<1>1. IsFiniteSet(U) /\ IsFiniteSet(W) /\ U \in SUBSET Opportunities
  BY SumsOfPlanner
<1>2. ASSUME NEW S \in SUBSET Opportunities, NEW x \in Opportunities
      PROVE  /\ v(S)[x] = 2 * _base_score(f, p, x) - Penalty(f, p, x, S \ {x})
             /\ v(S)[x] \in Int
  <2>1. S \ {x} \in SUBSET Opportunities
    OBVIOUS
  <2>2. _base_score(f, p, x) \in Int /\ Penalty(f, p, x, S \ {x}) \in Int
    BY <2>1, ScoreTypes, SumsOfPlanner
  <2> QED
    BY <2>2
<1>3. ASSUME NEW x \in W
      PROVE  v(W)[x] \in Int /\ w[x] \in Int /\ v(U)[x] = v(W)[x] - w[x]
  <2>1. /\ U \ {x} \in SUBSET Opportunities /\ o \in U \ {x}
        /\ (U \ {x}) \ {o} = W \ {x}
    OBVIOUS
  <2>2. Penalty(f, p, x, U \ {x})
          = PenaltyOf(f, p, o, x) + Penalty(f, p, x, W \ {x})
    BY <2>1, PenaltyAdd
  <2>3. w[x] = PenaltyOf(f, p, o, x) /\ w[x] \in Int
    BY ScoreTypes
  <2>4. _base_score(f, p, x) \in Int /\ Penalty(f, p, x, W \ {x}) \in Int
    BY ScoreTypes, SumsOfPlanner
  <2>5. /\ v(W)[x] = 2 * _base_score(f, p, x) - Penalty(f, p, x, W \ {x})
        /\ v(U)[x] = 2 * _base_score(f, p, x) - Penalty(f, p, x, U \ {x})
        /\ v(W)[x] \in Int
    BY <1>1, <1>2
  <2> HIDE DEF v, w, U
  <2> QED
    BY <2>2, <2>3, <2>4, <2>5
<1>4. SumFunctionOnSet(v(U), W) = SumFunctionOnSet(v(W), W) - SumFunctionOnSet(w, W)
  <2> HIDE DEF v, w, U
  <2> QED
    BY <1>1, <1>3, SumDifference
<1>5. SumFunctionOnSet(v(U), U) = v(U)[o] + SumFunctionOnSet(v(U), W)
  <2>1. U \in SUBSET U /\ o \in U /\ U \ {o} = W
    OBVIOUS
  <2>2. \A x \in U : v(U)[x] \in Int
    BY <1>1, <1>2
  <2> HIDE DEF v, U
  <2> QED
    BY <1>1, <2>1, <2>2, SumTakes
<1>6. v(U)[o] = 2 * _base_score(f, p, o) - Penalty(f, p, o, W)
  <2>1. U \ {o} = W
    OBVIOUS
  <2> HIDE DEF v, U
  <2> QED
    BY <1>1, <1>2, <2>1
<1>7. /\ SumFunctionOnSet(v(U), U) = Worth(f, p, U)
      /\ SumFunctionOnSet(v(W), W) = Worth(f, p, W)
      /\ SumFunctionOnSet(w, W) = Penalty(f, p, o, W)
  BY Zenon DEF Worth, Penalty
<1>8. Penalty(f, p, o, W) \in Int /\ _base_score(f, p, o) \in Int
  BY SumsOfPlanner, ScoreTypes
<1>9. SumFunctionOnSet(v(W), W) \in Int
  <2>1. \A x \in W : v(W)[x] \in Int
    BY <1>2
  <2> HIDE DEF v
  <2> QED
    BY <1>1, <2>1, SumType
<1>10. PICK a \in Int, b \in Int, c \in Int :
         /\ a = Worth(f, p, W) /\ b = Penalty(f, p, o, W)
         /\ c = _base_score(f, p, o)
  BY <1>7, <1>8, <1>9
<1>11. _marginal_score(f, p, o, W) = c - b
  BY <1>10 DEF _marginal_score
<1>12. Worth(f, p, U) = (2 * c - b) + (a - b)
  <2> HIDE DEF v, w, U
  <2> QED
    BY <1>4, <1>5, <1>6, <1>7, <1>10
<1> QED
  BY <1>10, <1>11, <1>12

\* Minutes add up.
LEMMA MinutesAdd ==
    ASSUME NEW f \in Mappings, NEW p \in Policies, NEW W \in SUBSET Opportunities,
           NEW o \in Opportunities \ W
    PROVE  Minutes(f, W \cup {o}) = Minutes(f, W) + f[o].minutes
<1> DEFINE v == [x \in Opportunities |-> f[x].minutes]
           U == W \cup {o}
<1>1. IsFiniteSet(U) /\ U \in SUBSET U /\ o \in U /\ U \ {o} = W
  BY SumsOfPlanner
<1>2. \A x \in Opportunities : v[x] = f[x].minutes /\ v[x] \in Nat
  BY Parameters
<1> HIDE DEF v, U
<1>3. SumFunctionOnSet(v, U) = v[o] + SumFunctionOnSet(v, W)
  <2>1. \A x \in U : v[x] \in Int
    BY <1>2 DEF U
  <2> QED
    BY <1>1, <2>1, SumTakes
<1>4. SumFunctionOnSet(v, W) \in Nat
  BY SumsOfPlanner DEF Minutes, v
<1>5. Minutes(f, U) = v[o] + Minutes(f, W) /\ Minutes(f, W) \in Nat
  BY <1>3, <1>4 DEF Minutes, v
<1> QED
  BY <1>2, <1>5 DEF U

\* The candidates, and the list of them in their order.
LEMMA CandidatesOrdered ==
    ASSUME NEW f \in Mappings, NEW p \in Policies
    PROVE  /\ Candidates(f, p) \in SUBSET Opportunities
           /\ Candidates(f, p) \in SUBSET Nat /\ IsFiniteSet(Candidates(f, p))
           /\ \A a, b, c \in Candidates(f, p) :
                /\ ~ Before(Base(f, p), a, a)
                /\ a # b => Before(Base(f, p), a, b) \/ Before(Base(f, p), b, a)
                /\ Before(Base(f, p), a, b) /\ Before(Base(f, p), b, c)
                     => Before(Base(f, p), a, c)
           /\ LET n == Cardinality(Candidates(f, p))
                  q == _valid_candidates(f, p)
              IN  /\ n \in Nat
                  /\ q \in [1 .. n -> Candidates(f, p)]
                  /\ q \in Seq(Candidates(f, p)) /\ Len(q) = n
                  /\ ToSet(q) = Candidates(f, p)
                  /\ \A i, j \in 1 .. n :
                       /\ i < j => Before(Base(f, p), q[i], q[j])
                       /\ q[i] = q[j] => i = j
                  /\ \A o \in Candidates(f, p) : \E i \in 1 .. n : q[i] = o
<1> DEFINE C == Candidates(f, p)
           b == Base(f, p)
           n == Cardinality(C)
           q == _valid_candidates(f, p)
<1>1. C \in SUBSET Opportunities /\ C \in SUBSET Nat /\ IsFiniteSet(C)
  <2>1. C \in SUBSET Opportunities
    BY DEF Candidates
  <2> HIDE DEF C
  <2> QED
    BY <2>1, Parameters, FS_Subset
<1>2. \A o \in C : b[o] \in Int
  <2> HIDE DEF C
  <2> QED
    BY <1>1, ScoreTypes
<1>3. q = Sorted(C, b)
  BY DEF _valid_candidates, Base
<1> HIDE DEF C, b
<1>4. \A x, y, z \in C :
        /\ ~ Before(b, x, x)
        /\ x # y => Before(b, x, y) \/ Before(b, y, x)
        /\ Before(b, x, y) /\ Before(b, y, z) => Before(b, x, z)
  BY <1>1, <1>2, BeforeIsOrder
<1>5. /\ n \in Nat
      /\ q \in [1 .. n -> C]
      /\ \A i, j \in 1 .. n : i < j => Before(b, q[i], q[j])
      /\ \A i, j \in 1 .. n : q[i] = q[j] => i = j
      /\ \A o \in C : \E i \in 1 .. n : q[i] = o
  <2> HIDE DEF q, n
  <2> QED
    BY <1>1, <1>2, <1>3, SortedEnumerates DEF n
<1> HIDE DEF q, n
<1>6. q \in Seq(C) /\ Len(q) = n
  BY <1>5
<1>7. ToSet(q) = C
  BY <1>5, <1>6 DEF ToSet
<1> QED
  BY <1>1, <1>4, <1>5, <1>6, <1>7 DEF C, b, n, q

-----------------------------------------------------------------------------
(***************************************************************************)
(* How a state is extended.                                                *)
(***************************************************************************)
\* The order of the candidates, for two of them.
LEMMA OrderOfCandidates ==
    ASSUME NEW f \in Mappings, NEW p \in Policies,
           NEW a \in Candidates(f, p), NEW b \in Candidates(f, p)
    PROVE  /\ ~ Before(Base(f, p), a, a)
           /\ a # b => Before(Base(f, p), a, b) \/ Before(Base(f, p), b, a)
           /\ \A c \in Candidates(f, p) :
                Before(Base(f, p), a, b) /\ Before(Base(f, p), b, c)
                  => Before(Base(f, p), a, c)
BY CandidatesOrdered

\* The empty selection keeps the constraints.
LEMMA StartPicked ==
    ASSUME NEW f \in Mappings, NEW p \in Policies
    PROVE  Picked(f, p, Start, 0)
<1>1. ToSet(<<>>) = {}
  BY DEF ToSet
<1>2. Minutes(f, {}) = 0 /\ Worth(f, p, {}) = 0
  BY SumEmpty DEF Minutes, Worth
<1>3. Cardinality({}) = 0
  BY FS_EmptySet
<1>4. p.maxMinutes \in Nat
  BY Parameters
<1>5. Compatible(f, p, {})
  BY <1>2, <1>4 DEF Compatible
<1>6. /\ Start \in [selected : Seq(Candidates(f, p)), score : Int, minutes : Nat]
      /\ Start.selected = <<>> /\ Start.minutes = 0 /\ Start.score = 0
      /\ Len(<<>>) = 0
  BY DEF Start
<1>7. Ascends(f, p, <<>>)
  BY DEF Ascends
<1>8. 2 * Start.score = Worth(f, p, ToSet(Start.selected))
  <2>1. Worth(f, p, ToSet(Start.selected)) = 0
    BY <1>1, <1>2, <1>6, Zenon
  <2>2. 2 * Start.score = 0
    BY <1>6
  <2> QED
    BY <2>1, <2>2
<1>9. Start.minutes = Minutes(f, ToSet(Start.selected))
  BY <1>1, <1>2, <1>6
<1> QED
  BY <1>1, <1>3, <1>5, <1>6, <1>7, <1>8, <1>9, Zenon DEF Picked

\* An opportunity that comes after the last one comes after all of them.
Follows(f, p, s, o) ==
    s.selected # <<>> => Before(Base(f, p), Last(s.selected), o)

LEMMA FollowsAll ==
    ASSUME NEW f \in Mappings, NEW p \in Policies, NEW d \in Nat, NEW s,
           Picked(f, p, s, d), NEW o \in Candidates(f, p), Follows(f, p, s, o)
    PROVE  /\ \A i \in 1 .. d : Before(Base(f, p), s.selected[i], o)
           /\ o \notin ToSet(s.selected)
<1>1. /\ s.selected \in Seq(Candidates(f, p)) /\ Len(s.selected) = d
      /\ \A i \in 1 .. d : s.selected[i] \in Candidates(f, p)
  BY DEF Picked
<1>2. ASSUME NEW i \in 1 .. d PROVE Before(Base(f, p), s.selected[i], o)
  <2>1. d \in 1 .. d /\ s.selected # <<>>
    BY <1>1
  <2>2. Before(Base(f, p), s.selected[d], o)
    BY <1>1, <2>1 DEF Follows, Last
  <2>3. CASE i = d
    BY <2>2, <2>3
  <2>4. CASE i < d
    <3>1. Before(Base(f, p), s.selected[i], s.selected[d])
      BY <1>1, <2>1, <2>4 DEF Picked, Ascends
    <3>2. s.selected[i] \in Candidates(f, p) /\ s.selected[d] \in Candidates(f, p)
      BY <1>1, <2>1
    <3> QED
      BY <2>2, <3>1, <3>2, OrderOfCandidates
  <2> QED
    BY <2>3, <2>4
<1>3. ASSUME o \in ToSet(s.selected) PROVE FALSE
  <2>1. PICK i \in 1 .. d : s.selected[i] = o
    BY <1>1, <1>3 DEF ToSet
  <2> QED
    BY <1>2, <2>1, OrderOfCandidates
<1> QED
  BY <1>2, <1>3

Longer(f, p, s, o) ==
    [ selected |-> Append(s.selected, o),
      score |-> s.score + _marginal_score(f, p, o, ToSet(s.selected)),
      minutes |-> s.minutes + f[o].minutes ]

\* A state that keeps them and an opportunity that fits are such a state.
LEMMA LongerPicked ==
    ASSUME NEW f \in Mappings, NEW p \in Policies, NEW d \in Nat, NEW s,
           Picked(f, p, s, d), NEW o \in Candidates(f, p),
           Follows(f, p, s, o), Fits(f, p, s, o)
    PROVE  /\ Picked(f, p, Longer(f, p, s, o), d + 1)
           /\ ToSet(Longer(f, p, s, o).selected) = ToSet(s.selected) \cup {o}
<1> DEFINE C == Candidates(f, p)
           W == ToSet(s.selected)
           t == Append(s.selected, o)
           r == Longer(f, p, s, o)
<1>1. /\ s.selected \in Seq(C) /\ Len(s.selected) = d
      /\ s.score \in Int /\ s.minutes \in Nat
  BY DEF Picked
<1>2. /\ t \in Seq(C) /\ Len(t) = d + 1
      /\ \A i \in 1 .. d : t[i] = s.selected[i]
      /\ t[d + 1] = o
  <2>1. o \in C
    OBVIOUS
  <2> HIDE DEF C
  <2> QED
    BY <1>1, <2>1, AppendProperties
<1>3. W \subseteq C /\ o \notin W /\ ToSet(t) = W \cup {o}
  <2>1. W \subseteq C
    <3> HIDE DEF C
    <3> QED
      BY <1>1 DEF ToSet
  <2>2. o \notin W
    BY FollowsAll
  <2>3. ToSet(t) = W \cup {o}
    <3>1. ToSet(t) = {t[i] : i \in 1 .. d + 1}
      BY <1>2 DEF ToSet
    <3>2. W = {s.selected[i] : i \in 1 .. d}
      BY <1>1 DEF ToSet
    <3>3. 1 .. d + 1 = (1 .. d) \cup {d + 1}
      OBVIOUS
    <3> HIDE DEF W, t
    <3> QED
      BY <1>2, <3>1, <3>2, <3>3
  <2> QED
    BY <2>1, <2>2, <2>3
<1>4. W \in SUBSET Opportunities /\ o \in Opportunities \ W
  BY <1>3, CandidatesOrdered
<1>5. Ascends(f, p, t)
  <2>1. SUFFICES ASSUME NEW i \in 1 .. d + 1, NEW j \in 1 .. d + 1, i < j
                 PROVE  Before(Base(f, p), t[i], t[j])
    BY <1>2 DEF Ascends
  <2>2. i \in 1 .. d
    BY <2>1
  <2>3. CASE j = d + 1
    BY <1>2, <2>2, <2>3, FollowsAll
  <2>4. CASE j \in 1 .. d
    <3>1. Before(Base(f, p), s.selected[i], s.selected[j])
      BY <1>1, <2>1, <2>2, <2>4 DEF Picked, Ascends
    <3> QED
      BY <1>2, <2>2, <2>4, <3>1
  <2>5. j = d + 1 \/ j \in 1 .. d
    OBVIOUS
  <2> QED
    BY <2>3, <2>4, <2>5
<1>6. Cardinality(W \cup {o}) = d + 1
  <2>1. IsFiniteSet(W) /\ Cardinality(W) = d
    BY <1>4, SumsOfPlanner DEF Picked
  <2> HIDE DEF W
  <2> QED
    BY <1>4, <2>1, FS_AddElement
<1>7. Minutes(f, W \cup {o}) = s.minutes + f[o].minutes
  BY <1>4, MinutesAdd DEF Picked
<1>8. f[o].minutes \in Nat
  BY <1>4, Parameters
<1>9. Compatible(f, p, W \cup {o})
  <2>1. W \cup {o} \subseteq C
    BY <1>3
  <2>2. Minutes(f, W \cup {o}) <= p.maxMinutes
    BY <1>7 DEF Fits
  <2>3. ASSUME NEW a \in W \cup {o}, NEW b \in W \cup {o}, a # b
        PROVE  evidence_overlap(f, a, b) <= p.maxOverlap
    <3>1. CASE a \in W /\ b \in W
      BY <2>3, <3>1 DEF Picked, Compatible
    <3>2. CASE a \in W /\ b = o
      BY <3>2 DEF Fits
    <3>3. CASE a = o /\ b \in W
      <4>1. evidence_overlap(f, b, o) <= p.maxOverlap
        BY <3>3 DEF Fits
      <4>2. evidence_overlap(f, a, b) = evidence_overlap(f, b, o)
        BY <1>4, <3>3, Overlaps
      <4> QED
        BY <4>1, <4>2
    <3> QED
      BY <2>3, <3>1, <3>2, <3>3
  <2> HIDE DEF W, C
  <2> QED
    BY <2>1, <2>2, <2>3 DEF Compatible, C
<1>10. 2 * r.score = Worth(f, p, W \cup {o}) /\ r.score \in Int
  <2>1. _marginal_score(f, p, o, W) \in Int
    BY <1>4, SumsOfPlanner
  <2>2. r.score = s.score + _marginal_score(f, p, o, W)
    BY DEF Longer
  <2>3. 2 * s.score = Worth(f, p, W)
    BY DEF Picked
  <2>4. Worth(f, p, W \cup {o}) = Worth(f, p, W) + 2 * _marginal_score(f, p, o, W)
    BY <1>4, WorthAdd
  <2> HIDE DEF W, r
  <2> QED
    BY <1>1, <2>1, <2>2, <2>3, <2>4
<1>11. /\ r.selected = t /\ r.minutes = s.minutes + f[o].minutes
       /\ r = [selected |-> r.selected, score |-> r.score, minutes |-> r.minutes]
  BY DEF Longer
<1>12. r \in [selected : Seq(C), score : Int, minutes : Nat]
  <2> HIDE DEF r, t, C
  <2>1. r.minutes \in Nat
    BY <1>1, <1>8, <1>11
  <2> QED
    BY <1>2, <1>10, <1>11, <2>1
<1> HIDE DEF r, t, W
<1>13. Picked(f, p, r, d + 1)
  BY <1>2, <1>3, <1>5, <1>6, <1>7, <1>9, <1>10, <1>11, <1>12 DEF Picked
<1> QED
  BY <1>3, <1>11, <1>13 DEF r, W

\* What a state of d choices can be extended with, one by one.
LEMMA ExtendedIs ==
    ASSUME NEW f \in Mappings, NEW p \in Policies, NEW d \in Nat, NEW s,
           Picked(f, p, s, d)
    PROVE  Extended(f, p, _valid_candidates(f, p), s)
             = {Longer(f, p, s, o) :
                  o \in {x \in Candidates(f, p) : Follows(f, p, s, x)
                                                  /\ Fits(f, p, s, x)}}
<1> DEFINE C == Candidates(f, p)
           b == Base(f, p)
           n == Cardinality(C)
           q == _valid_candidates(f, p)
           after == {k \in 1 .. Len(q) :
                       s.selected # <<>> =>
                         \E i \in 1 .. k - 1 : q[i] = Last(s.selected)}
<1>1. /\ n \in Nat /\ Len(q) = n
      /\ \A i \in 1 .. n : q[i] \in C
      /\ \A i, j \in 1 .. n : i < j => Before(b, q[i], q[j])
      /\ \A o \in C : \E i \in 1 .. n : q[i] = o
      /\ \A x, y \in C : Before(b, x, y) => ~ Before(b, y, x) /\ x # y
  <2>1. \A x, y \in C : Before(b, x, y) => ~ Before(b, y, x) /\ x # y
    BY OrderOfCandidates
  <2> QED
    BY <2>1, CandidatesOrdered
<1>2. s.selected # <<>> => Last(s.selected) \in C
  <2>1. s.selected \in Seq(C)
    BY DEF Picked
  <2> HIDE DEF C
  <2> QED
    BY <2>1 DEF Last
<1>3. {q[k] : k \in after} = {x \in C : Follows(f, p, s, x)}
  <2> HIDE DEF C, b, n, q
  <2>1. ASSUME NEW k \in after PROVE q[k] \in C /\ Follows(f, p, s, q[k])
    <3>1. k \in 1 .. n /\ q[k] \in C
      BY <1>1
    <3>2. ASSUME s.selected # <<>> PROVE Before(b, Last(s.selected), q[k])
      <4>1. PICK i \in 1 .. k - 1 : q[i] = Last(s.selected)
        BY <3>2
      <4>2. i \in 1 .. n /\ i < k
        BY <1>1, <3>1, <4>1
      <4> QED
        BY <1>1, <3>1, <4>1, <4>2
    <3> QED
      BY <3>1, <3>2 DEF Follows, b
  <2>2. ASSUME NEW x \in C, Follows(f, p, s, x) PROVE \E k \in after : q[k] = x
    <3>1. PICK k \in 1 .. n : q[k] = x
      BY <1>1
    <3>2. ASSUME s.selected # <<>>
          PROVE  \E i \in 1 .. k - 1 : q[i] = Last(s.selected)
      <4>1. PICK i \in 1 .. n : q[i] = Last(s.selected)
        BY <1>1, <1>2, <3>2
      <4>2. Before(b, q[i], q[k])
        BY <2>2, <3>1, <3>2, <4>1 DEF Follows, b
      <4>3. ~ (k < i) /\ k # i
        BY <1>1, <3>1, <4>1, <4>2
      <4>4. i \in 1 .. k - 1
        BY <1>1, <3>1, <4>1, <4>3
      <4> QED
        BY <4>1, <4>4
    <3> QED
      BY <1>1, <3>1, <3>2
  <2> HIDE DEF after
  <2> QED
    BY <2>1, <2>2
<1>4. Extended(f, p, q, s)
        = {Longer(f, p, s, o) : o \in {x \in {q[k] : k \in after} : Fits(f, p, s, x)}}
  BY Zenon DEF Extended, Longer
<1>5. {x \in {q[k] : k \in after} : Fits(f, p, s, x)}
        = {x \in C : Follows(f, p, s, x) /\ Fits(f, p, s, x)}
  <2> HIDE DEF after, q, C
  <2> QED
    BY <1>3
<1> HIDE DEF after, q, C
<1> QED
  BY <1>4, <1>5 DEF q, C

-----------------------------------------------------------------------------
(***************************************************************************)
(* What is found, whatever the width of the beam.                          *)
(***************************************************************************)
\* Whatever the width of the beam, every state keeps the constraints.
LEMMA StatesPicked ==
    ASSUME NEW f \in Mappings, NEW p \in Policies
    PROVE  \A d \in 0 .. p.count :
             \A s \in States(f, p, _valid_candidates(f, p))[d] : Picked(f, p, s, d)
<1> DEFINE q == _valid_candidates(f, p)
           N == p.count
           Z == States(f, p, q)
           T == {d \in 0 .. N : \A s \in Z[d] : Picked(f, p, s, d)}
<1>1. N \in Nat
  BY Parameters
<1>2. /\ Z[0] = {Start}
      /\ \A d \in 1 .. N : Z[d] = Beam(UNION {Extended(f, p, q, s) : s \in Z[d - 1]})
  BY <1>1, StatesUnfold
<1> HIDE DEF Z
<1>3. 0 \in T
  BY <1>1, <1>2, StartPicked
<1>4. ASSUME NEW n \in 0 .. N - 1, n \in T PROVE n + 1 \in T
  <2>1. n + 1 \in 1 .. N /\ (n + 1) - 1 = n /\ n \in Nat
    BY <1>1
  <2>2. Z[n + 1] = Beam(UNION {Extended(f, p, q, s) : s \in Z[n]})
    BY <1>2, <2>1
  <2>3. Z[n + 1] \subseteq UNION {Extended(f, p, q, s) : s \in Z[n]}
    BY <2>2 DEF Beam
  <2>4. ASSUME NEW t \in Z[n + 1] PROVE Picked(f, p, t, n + 1)
    <3>1. PICK s \in Z[n] : t \in Extended(f, p, q, s)
      BY <2>3
    <3>2. Picked(f, p, s, n)
      BY <1>4
    <3>3. PICK o \in Candidates(f, p) :
            Follows(f, p, s, o) /\ Fits(f, p, s, o) /\ t = Longer(f, p, s, o)
      <4> HIDE DEF q
      <4>1. t \in {Longer(f, p, s, o) :
                     o \in {x \in Candidates(f, p) : Follows(f, p, s, x)
                                                     /\ Fits(f, p, s, x)}}
        BY <2>1, <3>1, <3>2, ExtendedIs DEF q
      <4> QED
        BY <4>1
    <3> QED
      BY <2>1, <3>2, <3>3, LongerPicked
  <2>5. n + 1 \in 0 .. N
    BY <2>1
  <2> QED
    BY <2>4, <2>5
<1>5. 0 .. N \subseteq T
  <2> HIDE DEF N, T
  <2> QED
    BY <1>1, <1>3, <1>4, UpTo
<1> QED
  BY <1>5 DEF Z

\* What _select_exact returns.
Good(f, p) ==
    {s \in States(f, p, _valid_candidates(f, p))[p.count] :
       p.selectedMode =>
         Localizable(f, p, Candidates(f, p), ToSet(s.selected))}

LEMMA FoundIs ==
    ASSUME NEW f \in Mappings, NEW p \in Policies
    PROVE  _select_exact(f, p, _valid_candidates(f, p))
             = {s \in Good(f, p) : \A t \in Good(f, p) \ {s} : Better(s, t)}
<1>1. ToSet(_valid_candidates(f, p)) = Candidates(f, p)
  BY CandidatesOrdered
<1> QED
  BY <1>1, Zenon DEF _select_exact, Good

LEMMA GoodIsEligible ==
    ASSUME NEW f \in Mappings, NEW p \in Policies, NEW s \in Good(f, p)
    PROVE  Picked(f, p, s, p.count) /\ Eligible(f, p, ToSet(s.selected))
<1>1. p.count \in 0 .. p.count
  BY Parameters
<1>2. Picked(f, p, s, p.count)
  BY <1>1, StatesPicked DEF Good
<1>3. p.selectedMode => Localizable(f, p, Candidates(f, p), ToSet(s.selected))
  BY DEF Good
<1> QED
  BY <1>2, <1>3 DEF Eligible, Picked

\* The reserve: as many of the others as there may be, none twice.
Replaces(f, P, R, class, one) ==
    \/ /\ one = <<>>
       /\ class \notin Flags(f, P) \/ class \notin Flags(f, R)
    \/ /\ class \in Flags(f, P)
       /\ \E o \in R : one = <<o>> /\ f[o].justification = class

LEMMA ReplacementIs ==
    ASSUME NEW f \in Mappings, NEW p \in Policies,
           NEW P \in SUBSET Opportunities, NEW R \in SUBSET Opportunities,
           NEW class
    PROVE  Replaces(f, P, R, class, Replacement(f, p, P, R, class))
<1> DEFINE same == {o \in R : f[o].justification = class}
           v == Marginal(f, p, P)
           n == Cardinality(same)
<1>1. same \in SUBSET Nat /\ IsFiniteSet(same)
  <2>1. same \in SUBSET Opportunities
    OBVIOUS
  <2> HIDE DEF same
  <2> QED
    BY <2>1, Parameters, FS_Subset
<1>2. \A o \in same : v[o] \in Int
  BY SumsOfPlanner
<1>3. CASE class \in Flags(f, P) /\ same # {}
  <2>1. Sorted(same, v)[1] \in same
    <3> HIDE DEF same, v
    <3>1. /\ n \in Nat
          /\ Sorted(same, v) \in [1 .. n -> same]
      BY <1>1, <1>2, SortedEnumerates DEF n
    <3>2. n # 0
      BY <1>1, <1>3, FS_EmptySet
    <3> QED
      BY <3>1, <3>2
  <2>2. Replacement(f, p, P, R, class) = <<Sorted(same, v)[1]>>
    BY <1>3 DEF Replacement
  <2>3. Sorted(same, v)[1] \in R /\ f[Sorted(same, v)[1]].justification = class
    BY <2>1
  <2> HIDE DEF v, same
  <2> QED
    BY <1>3, <2>2, <2>3 DEF Replaces
<1>4. CASE ~ (class \in Flags(f, P) /\ same # {})
  <2>1. Replacement(f, p, P, R, class) = <<>>
    BY <1>4 DEF Replacement
  <2>2. class \notin Flags(f, P) \/ class \notin Flags(f, R)
    BY <1>4 DEF Flags
  <2> QED
    BY <2>1, <2>2 DEF Replaces
<1> QED
  BY <1>3, <1>4

-----------------------------------------------------------------------------
(***************************************************************************)
(* The reserve.                                                            *)
(***************************************************************************)
NoRepeats(s) == \A i, j \in 1 .. Len(s) : s[i] = s[j] => i = j
Apart(s, t) == \A i \in 1 .. Len(s) : \A j \in 1 .. Len(t) : s[i] # t[j]

\* A sequence without repetitions has as many members as places.
LEMMA NoRepeatsCounts ==
    ASSUME NEW S, NEW s \in Seq(S)
    PROVE  /\ IsFiniteSet(ToSet(s))
           /\ Cardinality(ToSet(s)) = Len(s) <=> NoRepeats(s)
<1> DEFINE n == Len(s)
           D == 1 .. n
<1>1. n \in Nat /\ DOMAIN s = D
  OBVIOUS
<1>2. IsFiniteSet(D) /\ Cardinality(D) = n
  <2>1. 1 \in Int /\ n \in Int
    BY <1>1
  <2>2. /\ IsFiniteSet(1 .. n)
        /\ Cardinality(1 .. n) = IF 1 > n THEN 0 ELSE n - 1 + 1
    <3> HIDE DEF n
    <3> QED
      BY <2>1, FS_Interval
  <2> QED
    BY <1>1, <2>2
<1>3. s \in Surjection(D, ToSet(s))
  BY <1>1 DEF Surjection, ToSet
<1>4. s \in Injection(D, ToSet(s)) <=> NoRepeats(s)
  <2>1. s \in [D -> ToSet(s)]
    BY <1>1 DEF ToSet
  <2> QED
    BY <2>1 DEF Injection, IsInjective, NoRepeats
<1> QED
  <2> HIDE DEF D, n
  <2>1. /\ IsFiniteSet(ToSet(s))
        /\ Cardinality(ToSet(s)) = Cardinality(D) <=> s \in Injection(D, ToSet(s))
    BY <1>2, <1>3, FS_Surjection
  <2> QED
    BY <1>2, <1>4, <2>1 DEF n

\* Two such sequences that share nothing, joined.
LEMMA NoRepeatsJoined ==
    ASSUME NEW S, NEW s \in Seq(S), NEW t \in Seq(S),
           NoRepeats(s), NoRepeats(t), Apart(s, t)
    PROVE  NoRepeats(s \o t)
<1> DEFINE m == Len(s)
           n == Len(t)
<1>1. /\ m \in Nat /\ n \in Nat /\ Len(s \o t) = m + n
      /\ \A i \in 1 .. m + n : (s \o t)[i] = IF i <= m THEN s[i] ELSE t[i - m]
  BY ConcatProperties
<1>2. ASSUME NEW i \in 1 .. m + n, NEW j \in 1 .. m + n, (s \o t)[i] = (s \o t)[j]
      PROVE  i = j
  <2>1. CASE i <= m /\ j <= m
    BY <1>1, <1>2, <2>1 DEF NoRepeats
  <2>2. CASE i <= m /\ j > m
    <3>1. i \in 1 .. m /\ j - m \in 1 .. n /\ ~ (j <= m)
      BY <1>1, <2>2
    <3> QED
      BY <1>1, <1>2, <2>2, <3>1 DEF Apart
  <2>3. CASE i > m /\ j <= m
    <3>1. j \in 1 .. m /\ i - m \in 1 .. n /\ ~ (i <= m)
      BY <1>1, <2>3
    <3> QED
      BY <1>1, <1>2, <2>3, <3>1 DEF Apart
  <2>4. CASE i > m /\ j > m
    <3>1. i - m \in 1 .. n /\ j - m \in 1 .. n /\ ~ (i <= m) /\ ~ (j <= m)
      BY <1>1, <2>4
    <3>2. i - m = j - m
      BY <1>1, <1>2, <3>1 DEF NoRepeats
    <3> QED
      BY <1>1, <3>2
  <2> QED
    BY <1>1, <2>1, <2>2, <2>3, <2>4
<1> QED
  BY <1>1, <1>2 DEF NoRepeats

\* A prefix.
LEMMA AtmostIs ==
    ASSUME NEW S, NEW s \in Seq(S), NEW n \in Nat
    PROVE  /\ Atmost(s, n) \in Seq(S)
           /\ Len(Atmost(s, n)) = IF Len(s) < n THEN Len(s) ELSE n
           /\ \A i \in 1 .. Len(Atmost(s, n)) : Atmost(s, n)[i] = s[i]
<1> DEFINE k == IF Len(s) < n THEN Len(s) ELSE n
<1>1. k \in Nat /\ k <= Len(s) /\ Len(s) \in Nat
  OBVIOUS
<1>2. \A i \in 1 .. k : s[i] \in S
  BY <1>1
<1> HIDE DEF k
<1>3. /\ SubSeq(s, 1, k) \in Seq(S)
      /\ Len(SubSeq(s, 1, k)) = IF 1 <= k THEN k - 1 + 1 ELSE 0
      /\ \A i \in 1 .. k - 1 + 1 : SubSeq(s, 1, k)[i] = s[1 + i - 1]
  BY <1>1, <1>2, SubSeqProperties
<1>4. Atmost(s, n) = SubSeq(s, 1, k)
  BY DEF Atmost, k
<1>5. Len(SubSeq(s, 1, k)) = k
  BY <1>1, <1>3
<1>6. ASSUME NEW i \in 1 .. k PROVE SubSeq(s, 1, k)[i] = s[i]
  <2>1. i \in 1 .. k - 1 + 1 /\ 1 + i - 1 = i
    BY <1>1
  <2> QED
    BY <1>3, <2>1
<1> QED
  BY <1>3, <1>4, <1>5, <1>6 DEF k

\* The reserve: distinct, not too long, and of every class of the primaries
\* if there are others of it and there is room.
LEMMA ReserveIs ==
    ASSUME NEW f \in Mappings, NEW p \in Policies,
           NEW P \in SUBSET Opportunities, NEW R \in SUBSET Opportunities
    PROVE  LET r == Reserve(f, p, P, R)
           IN  /\ r \in Seq(R) /\ NoRepeats(r) /\ Len(r) <= p.maxReserve
               /\ Flags(f, P) \subseteq Flags(f, R)
                    /\ p.maxReserve >= Cardinality(Flags(f, P))
                      => Flags(f, P) \subseteq Flags(f, ToSet(r))
<1>0. PICK yes, no : yes = TRUE /\ no = FALSE
  OBVIOUS
<1> DEFINE a == Replacement(f, p, P, R, yes)
           b == Replacement(f, p, P, R, no)
           c == a \o b
           v == Marginal(f, p, P)
           U == R \ ToSet(c)
           t == Sorted(U, v)
           r == Reserve(f, p, P, R)
<1>yn. yes # no /\ BOOLEAN = {yes, no}
  BY <1>0
<1>1. \/ /\ a = <<>>
         /\ yes \notin Flags(f, P) \/ yes \notin Flags(f, R)
      \/ /\ yes \in Flags(f, P)
         /\ \E x \in R : a = <<x>> /\ f[x].justification = yes
  <2> HIDE DEF r, t, U, v, c
  <2>1. Replaces(f, P, R, yes, Replacement(f, p, P, R, yes))
    BY ReplacementIs, Zenon
  <2> QED
    BY <2>1 DEF Replaces
<1>2. \/ /\ b = <<>>
         /\ no \notin Flags(f, P) \/ no \notin Flags(f, R)
      \/ /\ no \in Flags(f, P)
         /\ \E y \in R : b = <<y>> /\ f[y].justification = no
  <2> HIDE DEF r, t, U, v, c
  <2>1. Replaces(f, P, R, no, Replacement(f, p, P, R, no))
    BY ReplacementIs, Zenon
  <2> QED
    BY <2>1 DEF Replaces
<1>11. r = Atmost(c \o t, p.maxReserve)
  BY <1>0, Zenon DEF Reserve
<1> HIDE DEF a, b
<1>3. a \in Seq(R) /\ b \in Seq(R) /\ NoRepeats(a) /\ NoRepeats(b) /\ Apart(a, b)
  <2>1. a \in Seq(R) /\ NoRepeats(a)
    <3>1. CASE a = <<>>
      BY <3>1 DEF NoRepeats
    <3>2. CASE \E x \in R : a = <<x>>
      BY <3>2 DEF NoRepeats
    <3> QED
      BY <1>1, <3>1, <3>2
  <2>2. b \in Seq(R) /\ NoRepeats(b)
    <3>1. CASE b = <<>>
      BY <3>1 DEF NoRepeats
    <3>2. CASE \E x \in R : b = <<x>>
      BY <3>2 DEF NoRepeats
    <3> QED
      BY <1>2, <3>1, <3>2
  <2>3. Apart(a, b)
    <3>1. CASE a = <<>> \/ b = <<>>
      BY <3>1 DEF Apart
    <3>2. CASE a # <<>> /\ b # <<>>
      <4>1. PICK x \in R, y \in R : /\ a = <<x>> /\ b = <<y>>
                                    /\ f[x].justification = yes
                                    /\ f[y].justification = no
        BY <1>1, <1>2, <3>2
      <4>2. x # y
        BY <1>yn, <4>1
      <4> QED
        BY <4>1, <4>2 DEF Apart
    <3> QED
      BY <3>1, <3>2
  <2> QED
    BY <2>1, <2>2, <2>3
<1>4. c \in Seq(R) /\ NoRepeats(c)
  BY <1>3, NoRepeatsJoined, ConcatProperties
<1> HIDE DEF c
<1>5. U \in SUBSET R /\ U \in SUBSET Nat /\ IsFiniteSet(U) /\ U \in SUBSET Opportunities
  <2>1. U \in SUBSET Opportunities
    OBVIOUS
  <2> QED
    BY <2>1, Parameters, FS_Subset
<1>6. \A o \in U : v[o] \in Int
  BY SumsOfPlanner
<1>7. t \in Seq(U) /\ NoRepeats(t)
  <2> HIDE DEF U, v, t
  <2> DEFINE n == Cardinality(U)
  <2>1. /\ n \in Nat /\ t \in [1 .. n -> U]
        /\ \A i, j \in 1 .. n : t[i] = t[j] => i = j
    <3> HIDE DEF n
    <3> QED
      BY <1>5, <1>6, SortedEnumerates DEF t, n
  <2>2. t \in Seq(U) /\ Len(t) = n
    BY <2>1
  <2> QED
    BY <2>1, <2>2 DEF NoRepeats
<1>8. t \in Seq(R)
  BY <1>5, <1>7, SeqMonotonic
<1>9. Apart(c, t)
  <2>1. ASSUME NEW i \in 1 .. Len(c), NEW j \in 1 .. Len(t) PROVE c[i] # t[j]
    <3>1. c[i] \in ToSet(c)
      BY <1>4 DEF ToSet
    <3>2. t[j] \in U
      <4> HIDE DEF t, U
      <4> QED
        BY <1>7
    <3> QED
      BY <3>1, <3>2
  <2> QED
    BY <2>1 DEF Apart
<1> HIDE DEF t
<1>10. /\ c \o t \in Seq(R) /\ NoRepeats(c \o t)
       /\ Len(c \o t) = Len(c) + Len(t)
       /\ \A i \in 1 .. Len(c) : (c \o t)[i] = c[i]
  <2>1. /\ c \o t \in Seq(R) /\ Len(c \o t) = Len(c) + Len(t)
        /\ \A i \in 1 .. Len(c) + Len(t) :
             (c \o t)[i] = IF i <= Len(c) THEN c[i] ELSE t[i - Len(c)]
    BY <1>4, <1>8, ConcatProperties
  <2>2. NoRepeats(c \o t)
    BY <1>4, <1>7, <1>8, <1>9, NoRepeatsJoined
  <2>3. Len(c) \in Nat /\ Len(t) \in Nat
    BY <1>4, <1>8
  <2> QED
    BY <2>1, <2>2, <2>3
<1>12. p.maxReserve \in Nat
  BY Parameters
<1>13. /\ r \in Seq(R) /\ Len(r) <= p.maxReserve
       /\ Len(r) = IF Len(c \o t) < p.maxReserve THEN Len(c \o t) ELSE p.maxReserve
       /\ \A i \in 1 .. Len(r) : r[i] = (c \o t)[i]
       /\ Len(r) \in Nat /\ Len(r) <= Len(c \o t)
  <2> HIDE DEF r
  <2> DEFINE s == c \o t
  <2>1. s \in Seq(R) /\ Len(s) \in Nat
    BY <1>10
  <2>2. r = Atmost(s, p.maxReserve)
    BY <1>11
  <2> HIDE DEF s
  <2>3. /\ r \in Seq(R)
        /\ Len(r) = IF Len(s) < p.maxReserve THEN Len(s) ELSE p.maxReserve
        /\ \A i \in 1 .. Len(r) : r[i] = s[i]
    BY <1>12, <2>1, <2>2, AtmostIs
  <2> QED
    BY <1>12, <2>1, <2>3 DEF s
<1> HIDE DEF r
<1>14. NoRepeats(r)
  <2>1. \A i \in 1 .. Len(r) : i \in 1 .. Len(c \o t)
    BY <1>13, <1>10
  <2> QED
    BY <1>10, <1>13, <2>1 DEF NoRepeats
<1>15. ASSUME Flags(f, P) \subseteq Flags(f, R),
              p.maxReserve >= Cardinality(Flags(f, P))
       PROVE  Flags(f, P) \subseteq Flags(f, ToSet(r))
  <2>1. Flags(f, P) \subseteq {yes, no}
    BY <1>yn, Parameters DEF Flags
  <2>2. Len(c) = Cardinality(Flags(f, P))
    <3>1. /\ yes \in Flags(f, P) => Len(a) = 1
          /\ yes \notin Flags(f, P) => Len(a) = 0
          /\ no \in Flags(f, P) => Len(b) = 1
          /\ no \notin Flags(f, P) => Len(b) = 0
      BY <1>1, <1>2, <1>15
    <3>2. Len(c) = Len(a) + Len(b)
      BY <1>3, ConcatProperties DEF c
    <3>3. \/ Flags(f, P) = {}
          \/ Flags(f, P) = {yes}
          \/ Flags(f, P) = {no}
          \/ Flags(f, P) = {yes} \cup {no}
      BY <2>1
    <3>4. /\ Cardinality({}) = 0 /\ Cardinality({yes}) = 1
          /\ Cardinality({no}) = 1 /\ IsFiniteSet({yes})
      BY FS_EmptySet, FS_Singleton
    <3>5. Cardinality({yes} \cup {no}) = 2
      <4>1. no \notin {yes} /\ IsFiniteSet({yes})
        BY <1>yn, <3>4
      <4>2. Cardinality({yes} \cup {no}) = Cardinality({yes}) + 1
        BY <4>1, FS_AddElement
      <4> QED
        BY <3>4, <4>2
    <3> QED
      <4>1. CASE Flags(f, P) = {}
        <5>1. Cardinality(Flags(f, P)) = 0
          BY <3>4, <3>5, <4>1, Zenon
        <5>2. Len(a) = 0 /\ Len(b) = 0
          BY <1>yn, <3>1, <4>1
        <5> QED
          BY <3>2, <5>1, <5>2
      <4>2. CASE Flags(f, P) = {yes}
        <5>1. Cardinality(Flags(f, P)) = 1
          BY <3>4, <3>5, <4>2, Zenon
        <5>2. Len(a) = 1 /\ Len(b) = 0
          BY <1>yn, <3>1, <4>2
        <5> QED
          BY <3>2, <5>1, <5>2
      <4>3. CASE Flags(f, P) = {no}
        <5>1. Cardinality(Flags(f, P)) = 1
          BY <3>4, <3>5, <4>3, Zenon
        <5>2. Len(a) = 0 /\ Len(b) = 1
          BY <1>yn, <3>1, <4>3
        <5> QED
          BY <3>2, <5>1, <5>2
      <4>4. CASE Flags(f, P) = {yes} \cup {no}
        <5>1. Cardinality(Flags(f, P)) = 2
          BY <3>4, <3>5, <4>4, Zenon
        <5>2. Len(a) = 1 /\ Len(b) = 1
          BY <1>yn, <3>1, <4>4
        <5> QED
          BY <3>2, <5>1, <5>2
      <4> QED
        BY <3>3, <4>1, <4>2, <4>3, <4>4
  <2>3. \A i \in 1 .. Len(c) : i \in 1 .. Len(r) /\ r[i] = c[i]
    <3>1. Len(c) \in Nat /\ Len(t) \in Nat
      BY <1>4, <1>8
    <3>2. Len(c) <= Len(r)
      BY <1>10, <1>12, <1>13, <1>15, <2>2, <3>1
    <3> QED
      BY <1>10, <1>13, <3>1, <3>2
  <2>4. \A i \in 1 .. Len(c) : c[i] \in ToSet(r)
    BY <1>13, <2>3 DEF ToSet
  <2>5. ASSUME NEW class \in Flags(f, P) PROVE class \in Flags(f, ToSet(r))
    <3>1. PICK i \in 1 .. Len(c) : f[c[i]].justification = class
      <4>1. /\ Len(c) = Len(a) + Len(b)
            /\ \A i \in 1 .. Len(a) + Len(b) :
                 c[i] = IF i <= Len(a) THEN a[i] ELSE b[i - Len(a)]
        BY <1>3, ConcatProperties DEF c
      <4>2. CASE class = yes
        <5>1. PICK x \in R : a = <<x>> /\ f[x].justification = yes
          BY <1>1, <1>15, <2>5, <4>2
        <5>2. Len(a) = 1 /\ a[1] = x /\ Len(b) \in Nat
          BY <1>3, <5>1
        <5>3. c[1] = x /\ 1 \in 1 .. Len(c)
          BY <4>1, <5>2
        <5> QED
          BY <4>2, <5>1, <5>3
      <4>3. CASE class = no
        <5>1. PICK y \in R : b = <<y>> /\ f[y].justification = no
          BY <1>2, <1>15, <2>5, <4>3
        <5>2. Len(b) = 1 /\ b[1] = y /\ Len(a) \in Nat
          BY <1>3, <5>1
        <5>3. c[Len(a) + 1] = y /\ Len(a) + 1 \in 1 .. Len(c)
          BY <4>1, <5>2
        <5> QED
          BY <4>3, <5>1, <5>3
      <4> QED
        BY <2>1, <2>5, <4>2, <4>3
    <3> QED
      BY <2>4, <3>1 DEF Flags
  <2> QED
    BY <2>5
<1> QED
  BY <1>13, <1>14, <1>15 DEF r

-----------------------------------------------------------------------------
(***************************************************************************)
(* What the planner returns.                                               *)
(***************************************************************************)
Maps == [status : {"READY", "EVIDENCE_MAPPING_UNCERTAIN"}, opportunities : Mappings]
Found(f, p) == _select_exact(f, p, _valid_candidates(f, p))
PlanOf(f, p, s) ==
    [ status |-> "READY", selected |-> s.selected,
      reserve |-> Reserve(f, p, ToSet(s.selected),
                          Candidates(f, p) \ ToSet(s.selected)),
      minutes |-> Minutes(f, ToSet(s.selected)) ]
NoQuestions(a) ==
    a.status # "READY" /\ a.status # "NONE" /\ a.selected = <<>> /\ a.reserve = <<>>

LEMMA FoundIsGood ==
    ASSUME NEW f \in Mappings, NEW p \in Policies, NEW s \in Found(f, p)
    PROVE  /\ s \in Good(f, p) /\ Picked(f, p, s, p.count)
           /\ Eligible(f, p, ToSet(s.selected))
<1>1. s \in Good(f, p)
  BY FoundIs DEF Found
<1> QED
  BY <1>1, GoodIsEligible

\* What the planner returns, by whether anything was found.
LEMMA BuildIs ==
    ASSUME NEW m \in Maps, NEW p \in Policies
    PROVE  LET f == m.opportunities
               a == build_assessment_plan(m, p)
           IN  \/ /\ m.status = "READY"
                  /\ \E s \in Found(f, p) : a = PlanOf(f, p, s)
               \/ /\ NoQuestions(a)
                  /\ m.status = "READY" => Found(f, p) = {}
<1> DEFINE f == m.opportunities
           q == _valid_candidates(f, p)
           n == Cardinality(Candidates(f, p))
           a == build_assessment_plan(m, p)
<1>1. f \in Mappings /\ m.status \in {"READY", "EVIDENCE_MAPPING_UNCERTAIN"}
  BY DEF Maps
<1> HIDE DEF f
<1>2. n \in Nat /\ q \in Seq(Candidates(f, p)) /\ Len(q) = n /\ ToSet(q) = Candidates(f, p)
  BY <1>1, CandidatesOrdered
<1>3. \A x : NoQuestions(_complete_failure(x)) <=> x # "READY" /\ x # "NONE"
  BY DEF NoQuestions, _complete_failure, NoPlan
<1>4. ASSUME n < p.count PROVE Found(f, p) = {}
  <2>1. SUFFICES ASSUME NEW s \in Found(f, p) PROVE FALSE
    OBVIOUS
  <2>2. /\ ToSet(s.selected) \subseteq Candidates(f, p)
        /\ Cardinality(ToSet(s.selected)) = p.count
    BY <1>1, <2>1, FoundIsGood DEF Eligible, Compatible
  <2>3. IsFiniteSet(Candidates(f, p))
    BY <1>1, CandidatesOrdered
  <2>4. Cardinality(ToSet(s.selected)) <= n
    BY <2>2, <2>3, FS_Subset
  <2>5. p.count \in Nat
    BY <1>1, Parameters
  <2> QED
    BY <1>2, <1>4, <2>2, <2>4, <2>5
<1>5. CASE m.status # "READY"
  <2>1. a = _complete_failure(m.status)
    BY <1>5 DEF build_assessment_plan
  <2> QED
    BY <1>1, <1>3, <1>5, <2>1
<1>6. CASE m.status = "READY" /\ q = <<>>
  <2>1. a = _complete_failure("INSUFFICIENT_RELEVANT_EVIDENCE")
    BY <1>6 DEF build_assessment_plan, f
  <2>2. n = 0 /\ p.count \in 1 .. 20
    BY <1>1, <1>2, <1>6, Parameters
  <2>3. Found(f, p) = {}
    BY <1>4, <2>2
  <2> QED
    BY <1>3, <2>1, <2>3 DEF f
<1>7. CASE m.status = "READY" /\ q # <<>> /\ Len(q) < p.count
  <2>1. a = _complete_failure("INSUFFICIENT_DISTINCT_QUESTION_OPPORTUNITIES")
    BY <1>7 DEF build_assessment_plan, f
  <2>2. Found(f, p) = {}
    BY <1>2, <1>4, <1>7
  <2> QED
    BY <1>3, <2>1, <2>2 DEF f
<1>8. CASE m.status = "READY" /\ q # <<>> /\ ~ (Len(q) < p.count)
  <2>1. CASE Found(f, p) = {}
    <3>1. a = _complete_failure("ASSESSMENT_PLAN_INFEASIBLE")
      BY <1>8, <2>1 DEF build_assessment_plan, Found, f
    <3> QED
      BY <1>3, <2>1, <3>1 DEF f
  <2>2. CASE Found(f, p) # {}
    <3> DEFINE s == CHOOSE x \in Found(f, p) : TRUE
    <3>1. s \in Found(f, p)
      BY <2>2
    <3>2. a = [ status |-> "READY", selected |-> s.selected,
                reserve |-> Reserve(f, p, ToSet(s.selected),
                                    ToSet(q) \ ToSet(s.selected)),
                minutes |-> Minutes(f, ToSet(s.selected)) ]
      BY <1>8, <2>2 DEF build_assessment_plan, Found, f
    <3> HIDE DEF s
    <3>3. a = PlanOf(f, p, s)
      BY <1>2, <3>2 DEF PlanOf
    <3> QED
      BY <1>8, <3>1, <3>3 DEF f
  <2> QED
    BY <2>1, <2>2
<1> QED
  BY <1>5, <1>6, <1>7, <1>8

\* A plan that is ready: a selection of the planned number, and a reserve of
\* others, none twice.
ReadyPlan(f, p, a) ==
    /\ a.status = "READY"
    /\ a.selected \in Seq(Candidates(f, p)) /\ Len(a.selected) = p.count
    /\ NoRepeats(a.selected) /\ Eligible(f, p, ToSet(a.selected))
    /\ a.reserve \in Seq(Candidates(f, p) \ ToSet(a.selected))
    /\ NoRepeats(a.reserve) /\ Apart(a.selected, a.reserve)
    /\ Len(a.reserve) <= p.maxReserve
    /\ p.selectedMode
         /\ p.maxReserve >= Cardinality(Flags(f, ToSet(a.selected)))
           => Flags(f, ToSet(a.selected)) \subseteq Flags(f, ToSet(a.reserve))
    /\ a.minutes \in Nat /\ a.minutes <= p.maxMinutes

\* The plan of a selection that is found.
LEMMA PlanOfIsReady ==
    ASSUME NEW f \in Mappings, NEW p \in Policies, NEW s \in Found(f, p)
    PROVE  ReadyPlan(f, p, PlanOf(f, p, s))
<1> DEFINE C == Candidates(f, p)
           P == ToSet(s.selected)
           R == C \ P
           r == Reserve(f, p, P, R)
           a == PlanOf(f, p, s)
<1>1. Picked(f, p, s, p.count) /\ Eligible(f, p, P)
  BY FoundIsGood
<1>2. /\ s.selected \in Seq(C) /\ Len(s.selected) = p.count
      /\ Cardinality(P) = p.count /\ P \subseteq C
  BY <1>1 DEF Picked, Compatible
<1>3. C \in SUBSET Opportunities
  BY CandidatesOrdered
<1> HIDE DEF C
<1>4. NoRepeats(s.selected)
  <2>1. Cardinality(P) = Len(s.selected)
    BY <1>2
  <2> QED
    BY <1>2, <2>1, NoRepeatsCounts
<1>5. P \in SUBSET Opportunities /\ R \in SUBSET Opportunities
  BY <1>2, <1>3
<1> HIDE DEF R
<1>6. /\ r \in Seq(R) /\ NoRepeats(r) /\ Len(r) <= p.maxReserve
      /\ Flags(f, P) \subseteq Flags(f, R) /\ p.maxReserve >= Cardinality(Flags(f, P))
            => Flags(f, P) \subseteq Flags(f, ToSet(r))
  BY <1>5, ReserveIs
<1> HIDE DEF r
<1>7. Apart(s.selected, r)
  <2>1. ASSUME NEW i \in 1 .. Len(s.selected), NEW j \in 1 .. Len(r)
        PROVE  s.selected[i] # r[j]
    <3>1. s.selected[i] \in P
      BY <1>2 DEF ToSet
    <3>2. r[j] \in R
      BY <1>6
    <3> QED
      BY <3>1, <3>2 DEF R
  <2> QED
    BY <2>1 DEF Apart
<1>8. /\ a.status = "READY" /\ a.selected = s.selected /\ a.reserve = r
      /\ a.minutes = Minutes(f, P)
  BY DEF PlanOf, r, R, C
<1>9. Minutes(f, P) \in Nat /\ Minutes(f, P) <= p.maxMinutes
  BY <1>1, <1>5, SumsOfPlanner DEF Eligible, Compatible
<1>10. ASSUME p.selectedMode, p.maxReserve >= Cardinality(Flags(f, P))
       PROVE  Flags(f, P) \subseteq Flags(f, R)
  <2>1. Localizable(f, p, C, P)
    BY <1>1, <1>10 DEF Eligible, C
  <2>2. TRUE \in Flags(f, P)
    BY <2>1 DEF Localizable
  <2>3. p.maxReserve # 0
    <3>1. IsFiniteSet(Flags(f, P))
      <4>1. Flags(f, P) \in SUBSET {TRUE, FALSE}
        BY <1>5, Parameters DEF Flags
      <4>2. IsFiniteSet({TRUE, FALSE})
        <5>1. IsFiniteSet({TRUE}) /\ IsFiniteSet({TRUE} \cup {FALSE})
          BY FS_Singleton, FS_AddElement
        <5>2. {TRUE} \cup {FALSE} = {TRUE, FALSE}
          OBVIOUS
        <5> QED
          BY <5>1, <5>2
      <4> QED
        BY <4>1, <4>2, FS_Subset
    <3>2. Cardinality(Flags(f, P)) \in Nat /\ Cardinality(Flags(f, P)) # 0
      <4>1. Flags(f, P) # {}
        BY <2>2
      <4> QED
        BY <3>1, <4>1, FS_CardinalityType, FS_EmptySet
    <3>3. p.maxReserve \in Nat
      BY Parameters
    <3> QED
      BY <1>10, <3>2, <3>3
  <2> QED
    BY <2>1, <2>3 DEF Localizable, R
<1> QED
  <2> HIDE DEF a, P
  <2>1. /\ a.status = "READY"
        /\ a.selected \in Seq(C) /\ Len(a.selected) = p.count
        /\ NoRepeats(a.selected) /\ a.reserve \in Seq(R)
        /\ NoRepeats(a.reserve) /\ Apart(a.selected, a.reserve)
        /\ Len(a.reserve) <= p.maxReserve
        /\ a.minutes \in Nat /\ a.minutes <= p.maxMinutes
    BY <1>2, <1>4, <1>6, <1>7, <1>8, <1>9
  <2>2. ToSet(a.selected) = P /\ ToSet(a.reserve) = ToSet(r)
    BY <1>8 DEF P
  <2>3. R = Candidates(f, p) \ ToSet(a.selected)
    BY <2>2 DEF R, C
  <2>4. ASSUME p.selectedMode, p.maxReserve >= Cardinality(Flags(f, P))
        PROVE  Flags(f, P) \subseteq Flags(f, ToSet(r))
    BY <1>6, <1>10, <2>4
  <2>5. p.selectedMode
          /\ p.maxReserve >= Cardinality(Flags(f, ToSet(a.selected)))
            => Flags(f, ToSet(a.selected)) \subseteq Flags(f, ToSet(a.reserve))
    BY <2>2, <2>4, Zenon
  <2>6. /\ Eligible(f, p, ToSet(a.selected))
        /\ a.reserve \in Seq(Candidates(f, p) \ ToSet(a.selected))
        /\ a.selected \in Seq(Candidates(f, p))
    BY <1>1, <2>1, <2>2, <2>3 DEF C
  <2>7. ReadyPlan(f, p, a)
    BY <2>1, <2>5, <2>6 DEF ReadyPlan
  <2> QED
    BY <2>7 DEF a

\* Such a plan passes the validator.
LEMMA ReadyIsValid ==
    ASSUME NEW m \in Maps, NEW p \in Policies, NEW a,
           ReadyPlan(m.opportunities, p, a)
    PROVE  validate_assessment_plan(a, m, p)
<1> DEFINE f == m.opportunities
           C == Candidates(f, p)
           t == a.selected \o a.reserve
<1>1. f \in Mappings
  BY DEF Maps
<1> HIDE DEF f
<1>2. /\ a.selected \in Seq(C) /\ a.reserve \in Seq(C \ ToSet(a.selected))
      /\ NoRepeats(a.selected) /\ NoRepeats(a.reserve)
      /\ Apart(a.selected, a.reserve)
      /\ Len(a.selected) = p.count /\ Len(a.reserve) <= p.maxReserve
      /\ a.minutes \in Nat /\ a.minutes <= p.maxMinutes /\ a.status = "READY"
  BY DEF ReadyPlan, f
<1>3. a.reserve \in Seq(C)
  BY <1>2, SeqMonotonic
<1>4. C \in SUBSET Opportunities /\ DOMAIN f = Opportunities
  BY <1>1, CandidatesOrdered, Parameters
<1> HIDE DEF C
<1>5. t \in Seq(C) /\ NoRepeats(t)
  BY <1>2, <1>3, NoRepeatsJoined, ConcatProperties
<1>6. ToSet(t) \subseteq C
  <2> HIDE DEF t
  <2> QED
    BY <1>5 DEF ToSet
<1>7. Cardinality(ToSet(t)) = Len(t)
  <2> HIDE DEF t
  <2> QED
    BY <1>5, NoRepeatsCounts
<1>8. p.maxReserve \in 0 .. 10 /\ p.maxMinutes \in 3 .. 120
  BY <1>1, Parameters
<1>9. Len(a.reserve) <= 10
  <2>1. Len(a.reserve) \in Nat
    BY <1>3
  <2> QED
    BY <1>2, <1>8, <2>1
<1>10. a.minutes \in 0 .. 120
  <2>1. PICK x, y : x = a.minutes /\ y = p.maxMinutes
    OBVIOUS
  <2>2. x \in Nat /\ y \in 3 .. 120 /\ x <= y
    BY <1>2, <1>8, <2>1
  <2>3. x \in 0 .. 120
    BY <2>2
  <2> QED
    BY <2>1, <2>3
<1> QED
  BY <1>2, <1>4, <1>6, <1>7, <1>9, <1>10 DEF validate_assessment_plan, f

\* Whatever the planner returns passes the validator.
LEMMA BuildIsSound ==
    ASSUME NEW m \in Maps, NEW p \in Policies
    PROVE  LET a == build_assessment_plan(m, p)
           IN  /\ validate_assessment_plan(a, m, p)
               /\ ReadyPlan(m.opportunities, p, a) \/ NoQuestions(a)
<1> DEFINE f == m.opportunities
           a == build_assessment_plan(m, p)
<1>1. f \in Mappings
  BY DEF Maps
<1>2. ReadyPlan(f, p, a) \/ NoQuestions(a)
  <2>1. (\E s \in Found(f, p) : a = PlanOf(f, p, s)) \/ NoQuestions(a)
    BY BuildIs
  <2> HIDE DEF a, f
  <2> QED
    BY <1>1, <2>1, PlanOfIsReady
<1> HIDE DEF a
<1>3. NoQuestions(a) => validate_assessment_plan(a, m, p)
  <2>1. <<>> \o <<>> = <<>>
    OBVIOUS
  <2> QED
    BY <2>1 DEF NoQuestions, validate_assessment_plan
<1>4. ReadyPlan(f, p, a) => validate_assessment_plan(a, m, p)
  BY ReadyIsValid
<1> QED
  BY <1>2, <1>3, <1>4 DEF a

-----------------------------------------------------------------------------
(***************************************************************************)
(* The loop, and its inductive invariant.                                  *)
(***************************************************************************)
\* The first of t goes to the end of s.
LEMMA MoveFirst ==
    ASSUME NEW S, NEW s \in Seq(S), NEW t \in Seq(S), t # <<>>
    PROVE  LET u == Append(s, Head(t))
               v == Tail(t)
           IN  /\ u \in Seq(S) /\ Len(u) = Len(s) + 1
               /\ v \in Seq(S) /\ Len(v) = Len(t) - 1
               /\ NoRepeats(t) => NoRepeats(v)
               /\ NoRepeats(s) /\ NoRepeats(t) /\ Apart(s, t)
                    => NoRepeats(u) /\ Apart(u, v)
               /\ \A w \in Seq(S) :
                    /\ Apart(t, w) => Apart(v, w)
                    /\ Apart(w, t) => Apart(w, v)
                    /\ Apart(s, w) /\ Apart(t, w) => Apart(u, w)
                    /\ Apart(w, s) /\ Apart(w, t) => Apart(w, u)
<1> DEFINE u == Append(s, Head(t))
           v == Tail(t)
           m == Len(s)
           n == Len(t)
<1>1. /\ m \in Nat /\ n \in Nat \ {0}
      /\ Len(u) = m + 1 /\ u \in Seq(S)
      /\ \A i \in 1 .. m : u[i] = s[i]
      /\ u[m + 1] = t[1]
      /\ v \in Seq(S) /\ Len(v) = n - 1
      /\ \A i \in 1 .. n - 1 : v[i] = t[i + 1]
  OBVIOUS
<1> HIDE DEF u, v, m, n
<1>2. /\ \A i \in 1 .. n - 1 : i + 1 \in 1 .. n
      /\ 1 \in 1 .. n
      /\ \A i \in 1 .. m + 1 : i \in 1 .. m \/ i = m + 1
      /\ \A i \in 1 .. n - 1 : i + 1 # 1
  BY <1>1
<1>3. ASSUME NoRepeats(t) PROVE NoRepeats(v)
  <2>1. ASSUME NEW i \in 1 .. n - 1, NEW j \in 1 .. n - 1, v[i] = v[j] PROVE i = j
    <3>1. i + 1 = j + 1
      BY <1>1, <1>2, <1>3, <2>1 DEF NoRepeats, n
    <3> QED
      BY <1>1, <3>1
  <2> QED
    BY <1>1, <2>1 DEF NoRepeats
<1>4. ASSUME NoRepeats(s), NoRepeats(t), Apart(s, t)
      PROVE  NoRepeats(u) /\ Apart(u, v)
  <2>1. ASSUME NEW i \in 1 .. m + 1, NEW j \in 1 .. m + 1, u[i] = u[j] PROVE i = j
    BY <1>1, <1>2, <1>4, <2>1 DEF NoRepeats, Apart, m, n
  <2>2. ASSUME NEW i \in 1 .. m + 1, NEW j \in 1 .. n - 1 PROVE u[i] # v[j]
    BY <1>1, <1>2, <1>4, <2>2 DEF NoRepeats, Apart, m, n
  <2> QED
    BY <1>1, <2>1, <2>2 DEF NoRepeats, Apart
<1>5. ASSUME NEW w \in Seq(S)
      PROVE  /\ Apart(t, w) => Apart(v, w)
             /\ Apart(w, t) => Apart(w, v)
             /\ Apart(s, w) /\ Apart(t, w) => Apart(u, w)
             /\ Apart(w, s) /\ Apart(w, t) => Apart(w, u)
  <2>1. Apart(t, w) => Apart(v, w)
    BY <1>1, <1>2 DEF Apart, n
  <2>2. Apart(w, t) => Apart(w, v)
    BY <1>1, <1>2 DEF Apart, n
  <2>3. Apart(s, w) /\ Apart(t, w) => Apart(u, w)
    BY <1>1, <1>2 DEF Apart, m, n
  <2>4. Apart(w, s) /\ Apart(w, t) => Apart(w, u)
    BY <1>1, <1>2 DEF Apart, m, n
  <2> QED
    BY <2>1, <2>2, <2>3, <2>4
<1> QED
  BY <1>1, <1>3, <1>4, <1>5 DEF u, v, m, n

LEMMA ApartJoined ==
    ASSUME NEW S, NEW s \in Seq(S), NEW t \in Seq(S), NEW w \in Seq(S),
           Apart(s, w), Apart(t, w)
    PROVE  Apart(s \o t, w)
<1> DEFINE m == Len(s)
           n == Len(t)
<1>1. /\ m \in Nat /\ n \in Nat /\ Len(s \o t) = m + n
      /\ \A i \in 1 .. m + n : (s \o t)[i] = IF i <= m THEN s[i] ELSE t[i - m]
  BY ConcatProperties
<1>2. ASSUME NEW i \in 1 .. m + n, NEW j \in 1 .. Len(w) PROVE (s \o t)[i] # w[j]
  <2>1. CASE i <= m
    <3>1. i \in 1 .. m
      BY <1>1, <2>1
    <3> QED
      BY <1>1, <2>1, <3>1 DEF Apart
  <2>2. CASE i > m
    <3>1. i - m \in 1 .. n /\ ~ (i <= m)
      BY <1>1, <2>2
    <3> QED
      BY <1>1, <3>1 DEF Apart
  <2> QED
    BY <1>1, <2>1, <2>2
<1> QED
  BY <1>1, <1>2 DEF Apart

\* The plan is what the planner returns for the mapping and the policy.
PlanInv ==
    /\ mapping \in Maps /\ policy \in Policies
    /\ \/ plan = NoPlan /\ loop = NoLoop
       \/ plan = build_assessment_plan(mapping, policy)

\* A loop with queue q, reserve r, accepted questions s and k asked, whose plan
\* has so many opportunities, n of them primaries.
LoopOf(q, r, s, k, status) ==
    [queue |-> q, reserves |-> r, selected |-> s, asked |-> k, status |-> status]
LoopOk(q, r, s, k, status, total, n) ==
    /\ q \in Seq(Opportunities) /\ r \in Seq(Opportunities)
    /\ s \in Seq(Opportunities) /\ k \in Nat /\ k <= total
    /\ status \in {"ASKING", "READY"} =>
         /\ NoRepeats(s) /\ NoRepeats(q) /\ NoRepeats(r)
         /\ Apart(s, q) /\ Apart(s, r) /\ Apart(q, r)
         /\ Len(s) + Len(q) = n
    /\ status = "ASKING" => k + Len(q) + Len(r) <= total
    /\ status = "READY" => Len(s) = n

\* The questions of the loop are those of the plan, less those that failed.
LoopInv ==
    \E q, r, s, k, status :
        /\ loop = LoopOf(q, r, s, k, status)
        /\ LoopOk(q, r, s, k, status, Len(plan.selected) + Len(plan.reserve),
                  policy.count)

PlannerInv == PlanInv /\ LoopInv

LEMMA EmptySequences ==
    ASSUME NEW S
    PROVE  <<>> \in Seq(S) /\ Len(<<>>) = 0
OBVIOUS

LEMMA PlannerInitially == PlanningInit => PlannerInv
<1> SUFFICES ASSUME PlanningInit PROVE PlannerInv
  OBVIOUS
<1>1. PlanInv
  BY DEF PlanningInit, PlanInv, Maps
<1>2. LoopInv
  <2>1. loop = LoopOf(<<>>, <<>>, <<>>, 0, "NONE")
    BY DEF PlanningInit, NoLoop, LoopOf
  <2>2. Len(plan.selected) + Len(plan.reserve) = 0
    BY DEF PlanningInit, NoPlan
  <2>3. LoopOk(<<>>, <<>>, <<>>, 0, "NONE", 0, policy.count)
    BY DEF LoopOk
  <2> QED
    BY <2>1, <2>2, <2>3, Zenon DEF LoopInv
<1> QED
  BY <1>1, <1>2 DEF PlannerInv

\* The invariant in terms of the plan.
LEMMA PlanIsSound ==
    ASSUME PlanInv
    PROVE  /\ mapping \in Maps /\ policy \in Policies
           /\ mapping.opportunities \in Mappings
           /\ \/ plan = NoPlan /\ loop = NoLoop
              \/ NoQuestions(plan)
              \/ ReadyPlan(mapping.opportunities, policy, plan)
           /\ Planned => validate_assessment_plan(plan, mapping, policy)
           /\ plan.selected \in Seq(Opportunities)
           /\ plan.reserve \in Seq(Opportunities)
<1>1. mapping \in Maps /\ policy \in Policies /\ mapping.opportunities \in Mappings
  BY DEF PlanInv, Maps
<1>2. CASE plan = NoPlan /\ loop = NoLoop
  <2>1. ~ Planned /\ plan.selected = <<>> /\ plan.reserve = <<>>
    BY <1>2 DEF NoPlan, Planned
  <2> QED
    BY <1>1, <1>2, <2>1, EmptySequences
<1>3. CASE plan = build_assessment_plan(mapping, policy)
  <2>1. /\ validate_assessment_plan(plan, mapping, policy)
        /\ ReadyPlan(mapping.opportunities, policy, plan) \/ NoQuestions(plan)
    BY <1>1, <1>3, BuildIsSound
  <2>2. Candidates(mapping.opportunities, policy) \in SUBSET Opportunities
    BY <1>1, CandidatesOrdered
  <2>3. plan.selected \in Seq(Opportunities) /\ plan.reserve \in Seq(Opportunities)
    <3>1. CASE ReadyPlan(mapping.opportunities, policy, plan)
      BY <2>2, <3>1, SeqMonotonic DEF ReadyPlan
    <3>2. CASE NoQuestions(plan)
      BY <3>2, EmptySequences DEF NoQuestions
    <3> QED
      BY <2>1, <3>1, <3>2
  <2> QED
    BY <1>1, <2>1, <2>3
<1> QED
  BY <1>2, <1>3 DEF PlanInv

LEMMA PlanKeeps ==
    ASSUME PlannerInv, Plan
    PROVE  PlannerInv'
<1> DEFINE a == build_assessment_plan(mapping, policy)
           f == mapping.opportunities
           n == policy.count
           total == Len(a.selected) + Len(a.reserve)
<1>1. mapping \in Maps /\ policy \in Policies /\ f \in Mappings
  BY DEF PlannerInv, PlanInv, Maps
<1>2. plan' = a /\ mapping' = mapping /\ policy' = policy
  BY DEF Plan
<1>3. /\ validate_assessment_plan(a, mapping, policy)
      /\ ReadyPlan(f, policy, a) \/ NoQuestions(a)
  BY <1>1, BuildIsSound
<1>4. PlanInv'
  BY <1>1, <1>2 DEF PlanInv
<1>5. loop' = IF a.status # "READY" THEN LoopOf(<<>>, <<>>, <<>>, 0, a.status)
              ELSE LoopOf(a.selected, a.reserve, <<>>, 0, "ASKING")
  <2>1. loop' = IF a.status # "READY" THEN [NoLoop EXCEPT !.status = a.status]
                ELSE [NoLoop EXCEPT !.queue = a.selected, !.reserves = a.reserve,
                                    !.status = "ASKING"]
    BY <1>2, <1>3 DEF Plan
  <2> HIDE DEF a
  <2>2. PICK b : b = a
    OBVIOUS
  <2>3. loop' = IF b.status # "READY" THEN [NoLoop EXCEPT !.status = b.status]
                ELSE [NoLoop EXCEPT !.queue = b.selected, !.reserves = b.reserve,
                                    !.status = "ASKING"]
    BY <2>1, <2>2
  <2>4. loop' = IF b.status # "READY" THEN LoopOf(<<>>, <<>>, <<>>, 0, b.status)
                ELSE LoopOf(b.selected, b.reserve, <<>>, 0, "ASKING")
    <3>1. ASSUME NEW x
          PROVE  [NoLoop EXCEPT !.status = x] = LoopOf(<<>>, <<>>, <<>>, 0, x)
      BY DEF NoLoop, LoopOf
    <3>3. CASE b.status # "READY"
      <4>1. loop' = [NoLoop EXCEPT !.status = b.status]
        BY <2>3, <3>3
      <4> QED
        BY <3>1, <3>3, <4>1
    <3>4. CASE b.status = "READY"
      <4>1. loop' = [NoLoop EXCEPT !.queue = b.selected, !.reserves = b.reserve,
                                   !.status = "ASKING"]
        BY <2>3, <3>4
      <4>2. loop' = [queue |-> b.selected, reserves |-> b.reserve,
                     selected |-> <<>>, asked |-> 0, status |-> "ASKING"]
        BY <4>1 DEF NoLoop
      <4>3. loop' = LoopOf(b.selected, b.reserve, <<>>, 0, "ASKING")
        BY <4>2 DEF LoopOf
      <4> QED
        BY <3>4, <4>3
    <3> QED
      BY <3>3, <3>4
  <2> QED
    BY <2>2, <2>4
<1>6. ASSUME NEW q, NEW r, NEW s, NEW k, NEW status,
             loop' = LoopOf(q, r, s, k, status),
             LoopOk(q, r, s, k, status, total, n)
      PROVE  PlannerInv'
  <2>1. Len(plan'.selected) + Len(plan'.reserve) = total /\ policy'.count = n
    BY <1>2
  <2> HIDE DEF total, n
  <2>2. LoopInv'
    BY <1>6, <2>1, Zenon DEF LoopInv
  <2> QED
    BY <1>4, <2>2 DEF PlannerInv
<1>7. a.status # "ASKING"
  <2>1. \/ \E s \in Found(f, policy) : a = PlanOf(f, policy, s)
        \/ a = _complete_failure(mapping.status)
        \/ a = _complete_failure("INSUFFICIENT_RELEVANT_EVIDENCE")
        \/ a = _complete_failure("INSUFFICIENT_DISTINCT_QUESTION_OPPORTUNITIES")
        \/ a = _complete_failure("ASSESSMENT_PLAN_INFEASIBLE")
    BY <1>1, BuildIs, Zenon DEF build_assessment_plan, NoQuestions, f
  <2> HIDE DEF a
  <2>2. mapping.status # "ASKING"
    BY <1>1 DEF Maps
  <2>3. \A s : PlanOf(f, policy, s).status = "READY"
    BY DEF PlanOf
  <2>4. \A x : _complete_failure(x).status = x
    BY DEF _complete_failure, NoPlan
  <2> HIDE DEF f
  <2> QED
    BY <2>1, <2>2, <2>3, <2>4
<1> HIDE DEF a
<1>8. CASE NoQuestions(a)
  <2>1. /\ a.status # "READY" /\ a.status # "ASKING"
        /\ a.selected = <<>> /\ a.reserve = <<>>
    BY <1>7, <1>8 DEF NoQuestions
  <2>2. total = 0
    BY <2>1
  <2>3. LoopOk(<<>>, <<>>, <<>>, 0, a.status, 0, n)
    BY <2>1 DEF LoopOk
  <2> HIDE DEF total, n
  <2> QED
    BY <1>5, <1>6, <2>1, <2>2, <2>3
<1>9. CASE ReadyPlan(f, policy, a)
  <2>1. /\ a.selected \in Seq(Candidates(f, policy)) /\ a.status = "READY"
        /\ a.reserve \in Seq(Candidates(f, policy) \ ToSet(a.selected))
        /\ Len(a.selected) = n
        /\ NoRepeats(a.selected) /\ NoRepeats(a.reserve)
        /\ Apart(a.selected, a.reserve)
    BY <1>9 DEF ReadyPlan
  <2>2. Candidates(f, policy) \in SUBSET Opportunities
    BY <1>1, CandidatesOrdered
  <2>3. a.selected \in Seq(Opportunities) /\ a.reserve \in Seq(Opportunities)
    BY <2>1, <2>2, SeqMonotonic
  <2>4. NoRepeats(<<>>) /\ Apart(<<>>, a.selected) /\ Apart(<<>>, a.reserve)
    BY DEF NoRepeats, Apart
  <2>5. Len(a.selected) \in Nat /\ Len(a.reserve) \in Nat
    BY <2>3
  <2>6. LoopOk(a.selected, a.reserve, <<>>, 0, "ASKING", total, n)
    BY <2>1, <2>3, <2>4, <2>5 DEF LoopOk
  <2> HIDE DEF total, n
  <2> QED
    BY <1>5, <1>6, <2>1, <2>6
<1> QED
  BY <1>3, <1>8, <1>9

\* A step of a loop that asks.
LEMMA AskingIs ==
    ASSUME PlannerInv, Asking, UNCHANGED <<mapping, policy, plan>>
    PROVE  \E q, r, s, k, total, n :
             /\ loop = LoopOf(q, r, s, k, "ASKING") /\ q # <<>>
             /\ LoopOk(q, r, s, k, "ASKING", total, n)
             /\ total \in Nat /\ n = policy.count
             /\ \A q2, r2, s2, k2, status2 :
                  /\ loop' = LoopOf(q2, r2, s2, k2, status2)
                  /\ LoopOk(q2, r2, s2, k2, status2, total, n)
                  => PlannerInv'
<1> DEFINE total == Len(plan.selected) + Len(plan.reserve)
           n == policy.count
<1>1. PICK q, r, s, k, status : /\ loop = LoopOf(q, r, s, k, status)
                                /\ LoopOk(q, r, s, k, status, total, n)
  BY Zenon DEF PlannerInv, LoopInv
<1>2. status = "ASKING" /\ q # <<>>
  BY <1>1 DEF Asking, LoopOf
<1>3. total \in Nat
  <2>1. plan.selected \in Seq(Opportunities) /\ plan.reserve \in Seq(Opportunities)
    BY PlanIsSound DEF PlannerInv
  <2>2. PICK x \in Nat, y \in Nat : x = Len(plan.selected) /\ y = Len(plan.reserve)
    BY <2>1
  <2>3. x + y \in Nat
    OBVIOUS
  <2> QED
    BY <2>2, <2>3
<1>4. PlanInv'
  <2>1. loop # NoLoop
    BY <1>1, <1>2 DEF LoopOf, NoLoop
  <2>2. /\ mapping \in Maps /\ policy \in Policies
        /\ plan = build_assessment_plan(mapping, policy)
    BY <2>1 DEF PlannerInv, PlanInv
  <2> QED
    BY <2>2 DEF PlanInv
<1>5. ASSUME NEW q2, NEW r2, NEW s2, NEW k2, NEW status2,
             loop' = LoopOf(q2, r2, s2, k2, status2),
             LoopOk(q2, r2, s2, k2, status2, total, n)
      PROVE  PlannerInv'
  <2>1. Len(plan'.selected) + Len(plan'.reserve) = total /\ policy'.count = n
    OBVIOUS
  <2> HIDE DEF total, n
  <2>2. LoopInv'
    BY <1>5, <2>1, Zenon DEF LoopInv
  <2> QED
    BY <1>4, <2>2 DEF PlannerInv
<1>6. PICK t, c : t = total /\ c = n
  OBVIOUS
<1> HIDE DEF total, n
<1>7. \A q2, r2, s2, k2, status2 :
        /\ loop' = LoopOf(q2, r2, s2, k2, status2)
        /\ LoopOk(q2, r2, s2, k2, status2, t, c)
        => PlannerInv'
  BY <1>5, <1>6
<1>8. loop = LoopOf(q, r, s, k, "ASKING") /\ LoopOk(q, r, s, k, "ASKING", t, c)
  BY <1>1, <1>2, <1>6
<1>9. t \in Nat /\ c = policy.count
  BY <1>3, <1>6 DEF n
<1> QED
  BY <1>2, <1>7, <1>8, <1>9, Zenon

LEMMA AcceptedKeeps ==
    ASSUME PlannerInv, Accepted
    PROVE  PlannerInv'
<1> DEFINE O == Opportunities
<1>1. Asking /\ UNCHANGED <<mapping, policy, plan>>
  BY DEF Accepted
<1>2. PICK q, r, s, k, total, n :
             /\ loop = LoopOf(q, r, s, k, "ASKING") /\ q # <<>>
             /\ LoopOk(q, r, s, k, "ASKING", total, n)
             /\ total \in Nat /\ n = policy.count
             /\ \A q2, r2, s2, k2, status2 :
                  /\ loop' = LoopOf(q2, r2, s2, k2, status2)
                  /\ LoopOk(q2, r2, s2, k2, status2, total, n)
                  => PlannerInv'
  BY <1>1, AskingIs, Zenon
<1> DEFINE u == Append(s, Head(q))
           v == Tail(q)
           status == IF Len(u) = n THEN "READY" ELSE "ASKING"
<1>3. loop' = LoopOf(v, r, u, k + 1, status)
  BY <1>2 DEF Accepted, LoopOf
<1>4. /\ q \in Seq(O) /\ r \in Seq(O) /\ s \in Seq(O) /\ k \in Nat
      /\ NoRepeats(s) /\ NoRepeats(q) /\ NoRepeats(r)
      /\ Apart(s, q) /\ Apart(s, r) /\ Apart(q, r)
      /\ Len(s) + Len(q) = n
      /\ k + Len(q) + Len(r) <= total
  BY <1>2 DEF LoopOk
<1>5. /\ u \in Seq(O) /\ Len(u) = Len(s) + 1 /\ v \in Seq(O) /\ Len(v) = Len(q) - 1
      /\ NoRepeats(u) /\ NoRepeats(v) /\ Apart(u, v) /\ Apart(u, r) /\ Apart(v, r)
  BY <1>2, <1>4, MoveFirst
<1>6. Len(s) \in Nat /\ Len(q) \in Nat /\ Len(r) \in Nat /\ Len(q) # 0
  BY <1>2, <1>4
<1> HIDE DEF u, v
<1>7. /\ k + 1 \in Nat /\ k + 1 <= total
      /\ (k + 1) + Len(v) + Len(r) <= total
      /\ Len(u) + Len(v) = n
  BY <1>2, <1>4, <1>5, <1>6
<1>8. LoopOk(v, r, u, k + 1, status, total, n)
  BY <1>4, <1>5, <1>7 DEF LoopOk
<1> HIDE DEF status
<1> QED
  BY <1>2, <1>3, <1>8

LEMMA RefusedKeeps ==
    ASSUME PlannerInv, Refused
    PROVE  PlannerInv'
<1> DEFINE O == Opportunities
<1>1. Asking /\ UNCHANGED <<mapping, policy, plan>>
  BY DEF Refused
<1>2. PICK q, r, s, k, total, n :
             /\ loop = LoopOf(q, r, s, k, "ASKING") /\ q # <<>>
             /\ LoopOk(q, r, s, k, "ASKING", total, n)
             /\ total \in Nat /\ n = policy.count
             /\ \A q2, r2, s2, k2, status2 :
                  /\ loop' = LoopOf(q2, r2, s2, k2, status2)
                  /\ LoopOk(q2, r2, s2, k2, status2, total, n)
                  => PlannerInv'
  BY <1>1, AskingIs, Zenon
<1>4. /\ q \in Seq(O) /\ r \in Seq(O) /\ s \in Seq(O) /\ k \in Nat
      /\ NoRepeats(s) /\ NoRepeats(q) /\ NoRepeats(r)
      /\ Apart(s, q) /\ Apart(s, r) /\ Apart(q, r)
      /\ Len(s) + Len(q) = n
      /\ k + Len(q) + Len(r) <= total
  BY <1>2 DEF LoopOk
<1>6. Len(s) \in Nat /\ Len(q) \in Nat /\ Len(r) \in Nat /\ Len(q) # 0
  BY <1>2, <1>4
<1>7. CASE r = <<>>
  <2>1. loop' = LoopOf(q, r, s, k + 1, "ASSESSMENT_PLAN_INFEASIBLE")
    BY <1>2, <1>7 DEF Refused, Substitute, LoopOf
  <2>2. k + 1 \in Nat /\ k + 1 <= total
    BY <1>2, <1>4, <1>6
  <2>3. LoopOk(q, r, s, k + 1, "ASSESSMENT_PLAN_INFEASIBLE", total, n)
    BY <1>4, <2>2 DEF LoopOk
  <2> QED
    BY <1>2, <2>1, <2>3
<1>8. CASE r # <<>>
  <2> DEFINE v == Tail(q)
             u == Append(v, Head(r))
             w == Tail(r)
  <2>1. loop' = LoopOf(u, w, s, k + 1, "ASKING")
    BY <1>2, <1>8 DEF Refused, Substitute, LoopOf
  <2>2. /\ v \in Seq(O) /\ Len(v) = Len(q) - 1 /\ NoRepeats(v)
        /\ Apart(s, v) /\ Apart(v, r)
    BY <1>2, <1>4, MoveFirst
  <2> HIDE DEF v
  <2>3. /\ u \in Seq(O) /\ Len(u) = Len(v) + 1 /\ w \in Seq(O) /\ Len(w) = Len(r) - 1
        /\ NoRepeats(u) /\ NoRepeats(w) /\ Apart(u, w) /\ Apart(s, u) /\ Apart(s, w)
    BY <1>4, <1>8, <2>2, MoveFirst
  <2> HIDE DEF u, w
  <2>4. /\ k + 1 \in Nat /\ k + 1 <= total
        /\ (k + 1) + Len(u) + Len(w) <= total
        /\ Len(s) + Len(u) = n
    BY <1>2, <1>4, <1>6, <2>2, <2>3
  <2>5. LoopOk(u, w, s, k + 1, "ASKING", total, n)
    BY <1>4, <2>3, <2>4 DEF LoopOk
  <2> QED
    BY <1>2, <2>1, <2>5
<1> QED
  BY <1>7, <1>8

\* The inductive invariant: the plan is what the planner returns for the
\* mapping, and the questions of the loop of _run_submission_pipeline are
\* those of the plan less those that failed.
THEOREM PlannerIsKept == PlanningSpec => []PlannerInv
<1>1. PlanningInit => PlannerInv
  BY PlannerInitially
<1>2. PlannerInv /\ [PlanningNext]_planningVars => PlannerInv'
  <2> SUFFICES ASSUME PlannerInv, [PlanningNext]_planningVars PROVE PlannerInv'
    OBVIOUS
  <2>1. CASE Plan
    BY <2>1, PlanKeeps
  <2>2. CASE Accepted
    BY <2>2, AcceptedKeeps
  <2>3. CASE Refused
    BY <2>3, RefusedKeeps
  <2>4. CASE UNCHANGED planningVars
    BY <2>4, Zenon DEF planningVars, PlannerInv, PlanInv, LoopInv
  <2> QED
    BY <2>1, <2>2, <2>3, <2>4 DEF PlanningNext
<1> QED
  BY <1>1, <1>2, PTL DEF PlanningSpec

\* Whatever build_assessment_plan returns passes validate_assessment_plan, and
\* what it returns as READY has the planned number of candidates and keeps every
\* constraint, however narrow the beam of _select_exact.
THEOREM PlansAreSound == PlanningSpec => []PlanSound
<1>1. PlannerInv => PlanSound
  <2> SUFFICES ASSUME PlannerInv, Planned
               PROVE  /\ validate_assessment_plan(plan, mapping, policy)
                      /\ plan.status = "READY" =>
                           Eligible(F, policy, ToSet(plan.selected))
    BY DEF PlanSound
  <2>1. /\ validate_assessment_plan(plan, mapping, policy)
        /\ \/ plan = NoPlan
           \/ NoQuestions(plan)
           \/ ReadyPlan(mapping.opportunities, policy, plan)
    BY PlanIsSound DEF PlannerInv
  <2> QED
    BY <2>1 DEF NoPlan, Planned, NoQuestions, ReadyPlan, F
<1> QED
  BY <1>1, PlannerIsKept, PTL

\* Under SELECTED, a reserve with room for one of each class of justification
\* among the primaries has one of each: the order in which
\* build_assessment_plan fills it never crowds one out.
THEOREM ReservesMirror == PlanningSpec => []ReserveMirrors
<1>1. PlannerInv => ReserveMirrors
  <2> SUFFICES ASSUME PlannerInv, plan.status = "READY" PROVE ReserveMirrors
    BY DEF ReserveMirrors
  <2>1. \/ plan = NoPlan
        \/ NoQuestions(plan)
        \/ ReadyPlan(mapping.opportunities, policy, plan)
    BY PlanIsSound DEF PlannerInv
  <2>2. ReadyPlan(mapping.opportunities, policy, plan)
    BY <2>1 DEF NoPlan, NoQuestions
  <2> QED
    BY <2>2 DEF ReadyPlan, ReserveMirrors, F
<1> QED
  BY <1>1, PlannerIsKept, PTL

\* The loop of _run_submission_pipeline asks for at most one question per
\* opportunity of the plan, never for one twice, and ends READY with exactly the
\* planned number, whichever of the questions fail.
THEOREM AssessmentsHaveExactlyN == PlanningSpec => []ExactlyN
<1>1. PlannerInv => ExactlyN
  <2> SUFFICES ASSUME PlannerInv PROVE ExactlyN
    OBVIOUS
  <2> DEFINE O == Opportunities
             total == Len(plan.selected) + Len(plan.reserve)
  <2>1. PICK q, r, s, k, status : /\ loop = LoopOf(q, r, s, k, status)
                                  /\ LoopOk(q, r, s, k, status, total, policy.count)
    BY Zenon DEF PlannerInv, LoopInv
  <2>2. /\ loop.queue = q /\ loop.reserves = r /\ loop.selected = s
        /\ loop.asked = k /\ loop.status = status
    BY <2>1 DEF LoopOf
  <2>3. /\ k <= total /\ q \in Seq(O) /\ r \in Seq(O) /\ s \in Seq(O)
        /\ status = "READY" => Len(s) = policy.count
    BY <2>1 DEF LoopOk
  <2>4. ASSUME status \in {"ASKING", "READY"}
        PROVE  /\ Cardinality(ToSet(s \o q \o r)) = Len(s \o q \o r)
               /\ Len(s) + Len(q) = policy.count
    <3>1. /\ NoRepeats(s) /\ NoRepeats(q) /\ NoRepeats(r)
          /\ Apart(s, q) /\ Apart(s, r) /\ Apart(q, r)
          /\ Len(s) + Len(q) = policy.count
      BY <2>1, <2>4 DEF LoopOk
    <3>2. s \o q \in Seq(O) /\ NoRepeats(s \o q) /\ Apart(s \o q, r)
      BY <2>3, <3>1, NoRepeatsJoined, ApartJoined, ConcatProperties
    <3> DEFINE u == s \o q
    <3> HIDE DEF u
    <3>3. u \o r \in Seq(O) /\ NoRepeats(u \o r)
      BY <2>3, <3>1, <3>2, NoRepeatsJoined, ConcatProperties DEF u
    <3> DEFINE w == u \o r
    <3> HIDE DEF w
    <3>4. Cardinality(ToSet(w)) = Len(w)
      BY <3>3, NoRepeatsCounts DEF w
    <3> QED
      BY <3>1, <3>4 DEF w, u
  <2> HIDE DEF total
  <2>5. k <= Len(plan.selected) + Len(plan.reserve)
    BY <2>3 DEF total
  <2> QED
    BY <2>2, <2>3, <2>4, <2>5 DEF ExactlyN
<1> QED
  BY <1>1, PlannerIsKept, PTL

-----------------------------------------------------------------------------
(***************************************************************************)
(* A beam with room for every selection of a size holds all of them.       *)
(***************************************************************************)
\* Two sequences in the order of the candidates with the same members are the
\* same, and so are two states.
LEMMA AscendsOnce ==
    ASSUME NEW f \in Mappings, NEW p \in Policies, NEW n \in Nat,
           NEW s \in Seq(Candidates(f, p)), NEW t \in Seq(Candidates(f, p)),
           Len(s) = n, Len(t) = n, Ascends(f, p, s), Ascends(f, p, t),
           ToSet(s) = ToSet(t)
    PROVE  s = t
<1> DEFINE C == Candidates(f, p)
           b == Base(f, p)
           T == {i \in 1 .. n : s[i] # t[i]}
<1>1. \A i \in 1 .. n : s[i] \in C /\ t[i] \in C
  OBVIOUS
<1>2. \A i \in 1 .. n : /\ \E j \in 1 .. n : s[i] = t[j]
                        /\ \E j \in 1 .. n : t[i] = s[j]
  <2>1. ToSet(s) = {s[i] : i \in 1 .. n} /\ ToSet(t) = {t[i] : i \in 1 .. n}
    BY DEF ToSet
  <2>2. {s[i] : i \in 1 .. n} = {t[i] : i \in 1 .. n}
    BY <2>1
  <2> QED
    BY <2>2
<1>3. \A i, j \in 1 .. n : i < j => Before(b, s[i], s[j]) /\ Before(b, t[i], t[j])
  BY DEF Ascends
<1>4. SUFFICES ASSUME T # {} PROVE FALSE
  <2>1. \A i \in 1 .. n : s[i] = t[i]
    BY <1>4
  <2> QED
    BY <2>1
<1>5. PICK i \in T : \A j \in T : i <= j
  <2>1. T \in SUBSET Nat
    OBVIOUS
  <2> HIDE DEF T
  <2> QED
    BY <1>4, <2>1, LeastNatural
<1>6. i \in 1 .. n /\ s[i] # t[i] /\ \A j \in 1 .. n : j < i => s[j] = t[j]
  BY <1>5
<1> HIDE DEF T, C, b
<1>7. PICK j \in 1 .. n, k \in 1 .. n : s[i] = t[j] /\ t[i] = s[k]
  BY <1>2, <1>6
<1>8. \A x, y \in C : /\ ~ Before(b, x, x)
                      /\ ~ (Before(b, x, y) /\ Before(b, y, x))
  <2>1. \A x, y, z \in C : /\ ~ Before(b, x, x)
                           /\ Before(b, x, y) /\ Before(b, y, z) => Before(b, x, z)
    BY CandidatesOrdered, Zenon DEF C, b
  <2> QED
    BY <2>1, Zenon
<1>9. j > i
  <2>1. j # i
    BY <1>6, <1>7
  <2>2. ASSUME j < i PROVE FALSE
    <3>1. s[j] = s[i]
      BY <1>6, <1>7, <2>2
    <3>2. Before(b, s[j], s[i]) /\ s[i] \in C
      BY <1>1, <1>3, <1>6, <1>7, <2>2
    <3> QED
      BY <1>8, <3>1, <3>2
  <2> QED
    BY <1>6, <1>7, <2>1, <2>2
<1>10. k > i
  <2>1. k # i
    BY <1>6, <1>7
  <2>2. ASSUME k < i PROVE FALSE
    <3>1. t[k] = t[i]
      BY <1>6, <1>7, <2>2
    <3>2. Before(b, t[k], t[i]) /\ t[i] \in C
      BY <1>1, <1>3, <1>6, <1>7, <2>2
    <3> QED
      BY <1>8, <3>1, <3>2
  <2> QED
    BY <1>6, <1>7, <2>1, <2>2
<1>11. Before(b, t[i], t[j]) /\ Before(b, s[i], s[k])
  BY <1>3, <1>6, <1>7, <1>9, <1>10
<1>12. Before(b, t[i], s[i]) /\ Before(b, s[i], t[i]) /\ s[i] \in C /\ t[i] \in C
  BY <1>1, <1>6, <1>7, <1>11
<1> QED
  BY <1>8, <1>12

LEMMA PickedOnce ==
    ASSUME NEW f \in Mappings, NEW p \in Policies, NEW d \in Nat, NEW s, NEW t,
           Picked(f, p, s, d), Picked(f, p, t, d),
           ToSet(s.selected) = ToSet(t.selected)
    PROVE  s = t
<1>1. /\ s \in [selected : Seq(Candidates(f, p)), score : Int, minutes : Nat]
      /\ Len(s.selected) = d /\ Ascends(f, p, s.selected)
      /\ s.minutes = Minutes(f, ToSet(s.selected))
      /\ 2 * s.score = Worth(f, p, ToSet(s.selected))
      /\ t \in [selected : Seq(Candidates(f, p)), score : Int, minutes : Nat]
      /\ Len(t.selected) = d /\ Ascends(f, p, t.selected)
      /\ t.minutes = Minutes(f, ToSet(t.selected))
      /\ 2 * t.score = Worth(f, p, ToSet(t.selected))
  BY DEF Picked
<1>2. s.selected = t.selected
  BY <1>1, AscendsOnce
<1>3. s.minutes = t.minutes
  BY <1>1, <1>2
<1>4. s.score = t.score
  <2>1. 2 * s.score = 2 * t.score /\ s.score \in Int /\ t.score \in Int
    BY <1>1, <1>2
  <2> QED
    BY <2>1
<1> QED
  BY <1>1, <1>2, <1>3, <1>4

\* The selections of so many that keep the constraints, and a beam that has
\* room for all of them.
Selections(f, p, d) ==
    {W \in SUBSET Opportunities : Cardinality(W) = d /\ Compatible(f, p, W)}
Exhaustive(f, p) ==
    \A d \in 0 .. p.count : Cardinality(Selections(f, p, d)) <= BeamWidth

LEMMA BeamIsAll ==
    ASSUME NEW f \in Mappings, NEW p \in Policies, NEW d \in 0 .. p.count,
           NEW X, \A s \in X : Picked(f, p, s, d)
    PROVE  /\ IsFiniteSet(X)
           /\ Cardinality(Selections(f, p, d)) <= BeamWidth => Beam(X) = X
<1> DEFINE Y == Selections(f, p, d)
           g == [s \in X |-> ToSet(s.selected)]
<1>1. IsFiniteSet(Y)
  <2>1. IsFiniteSet(SUBSET Opportunities)
    BY PlanningConstants, FS_SUBSET
  <2>2. Y \in SUBSET (SUBSET Opportunities)
    BY DEF Selections
  <2> HIDE DEF Y
  <2> QED
    BY <2>1, <2>2, FS_Subset
<1>2. d \in Nat
  BY Parameters
<1>3. ASSUME NEW s \in X PROVE ToSet(s.selected) \in Y
  <2>1. /\ Cardinality(ToSet(s.selected)) = d
        /\ Compatible(f, p, ToSet(s.selected))
    BY DEF Picked
  <2>2. ToSet(s.selected) \subseteq Opportunities
    BY <2>1 DEF Compatible, Candidates
  <2> QED
    BY <2>1, <2>2 DEF Selections
<1>4. ASSUME NEW s \in X, NEW t \in X, ToSet(s.selected) = ToSet(t.selected)
      PROVE  s = t
  BY <1>2, <1>4, PickedOnce
<1> HIDE DEF Y
<1>5. g \in Injection(X, Y)
  BY <1>3, <1>4 DEF Injection, IsInjective
<1>6. IsFiniteSet(X) /\ Cardinality(X) <= Cardinality(Y)
  <2> HIDE DEF g
  <2> QED
    BY <1>1, <1>5, FS_Injection
<1>7. ASSUME Cardinality(Y) <= BeamWidth PROVE Beam(X) = X
  <2>1. Cardinality(X) \in Nat /\ Cardinality(Y) \in Nat /\ BeamWidth \in Nat
    BY <1>1, <1>6, FS_CardinalityType, PlanningConstants
  <2>2. Cardinality(X) <= BeamWidth
    BY <1>6, <1>7, <2>1
  <2> QED
    BY <2>2 DEF Beam
<1> QED
  BY <1>6, <1>7 DEF Y

\* The last of some candidates.
LEMMA LastOf ==
    ASSUME NEW f \in Mappings, NEW p \in Policies,
           NEW W \in SUBSET Candidates(f, p), W # {}
    PROVE  \E o \in W : \A x \in W \ {o} : Before(Base(f, p), x, o)
<1> DEFINE b == Base(f, p)
           n == Cardinality(W)
           q == Sorted(W, b)
<1>1. W \in SUBSET Opportunities /\ W \in SUBSET Nat
  BY CandidatesOrdered
<1>2. IsFiniteSet(W)
  BY <1>1, SumsOfPlanner
<1>3. \A o \in W : b[o] \in Int
  BY <1>1, ScoreTypes
<1> HIDE DEF b
<1>4. /\ n \in Nat /\ q \in [1 .. n -> W]
      /\ \A i, j \in 1 .. n : i < j => Before(b, q[i], q[j])
      /\ \A o \in W : \E i \in 1 .. n : q[i] = o
  BY <1>1, <1>2, <1>3, SortedEnumerates
<1>5. n # 0
  BY <1>2, FS_EmptySet
<1> HIDE DEF n, q
<1>6. n \in 1 .. n /\ q[n] \in W
  BY <1>4, <1>5
<1>7. ASSUME NEW x \in W \ {q[n]} PROVE Before(b, x, q[n])
  <2>1. PICK i \in 1 .. n : q[i] = x
    BY <1>4
  <2>2. i < n
    BY <1>4, <2>1
  <2> QED
    BY <1>4, <1>6, <2>1, <2>2
<1> QED
  BY <1>6, <1>7 DEF b

\* With such a beam every selection that keeps the constraints is a state.
LEMMA StatesComplete ==
    ASSUME NEW f \in Mappings, NEW p \in Policies, Exhaustive(f, p)
    PROVE  \A d \in 0 .. p.count : \A W \in Selections(f, p, d) :
             \E s \in States(f, p, _valid_candidates(f, p))[d] :
               ToSet(s.selected) = W
<1> DEFINE q == _valid_candidates(f, p)
           N == p.count
           Z == States(f, p, q)
           T == {d \in 0 .. N : \A W \in Selections(f, p, d) :
                                  \E s \in Z[d] : ToSet(s.selected) = W}
<1>1. N \in Nat
  BY Parameters
<1>2. /\ Z[0] = {Start}
      /\ \A d \in 1 .. N : Z[d] = Beam(UNION {Extended(f, p, q, s) : s \in Z[d - 1]})
  BY <1>1, StatesUnfold
<1>3. \A d \in 0 .. N : \A s \in Z[d] : Picked(f, p, s, d)
  BY StatesPicked
<1> HIDE DEF Z, q
<1>4. 0 \in T
  <2>1. ASSUME NEW W \in Selections(f, p, 0) PROVE ToSet(Start.selected) = W
    <3>1. W \in SUBSET Opportunities /\ Cardinality(W) = 0
      BY DEF Selections
    <3>2. W = {}
      BY <3>1, SumsOfPlanner, FS_EmptySet
    <3>3. Start.selected = <<>> /\ ToSet(<<>>) = {}
      BY DEF Start, ToSet
    <3> QED
      BY <3>2, <3>3
  <2>2. 0 \in 0 .. N
    BY <1>1
  <2> QED
    BY <1>2, <2>1, <2>2
<1>5. ASSUME NEW n \in 0 .. N - 1, n \in T PROVE n + 1 \in T
  <2>1. n + 1 \in 1 .. N /\ n + 1 \in 0 .. N /\ (n + 1) - 1 = n /\ n \in Nat /\ n \in 0 .. N
    BY <1>1
  <2> DEFINE X == UNION {Extended(f, p, q, s) : s \in Z[n]}
  <2>2. Z[n + 1] = Beam(X)
    BY <1>2, <2>1
  <2>3. ASSUME NEW s \in Z[n]
        PROVE  Extended(f, p, q, s)
                 = {Longer(f, p, s, o) :
                      o \in {x \in Candidates(f, p) : Follows(f, p, s, x)
                                                      /\ Fits(f, p, s, x)}}
    BY <1>3, <2>1, ExtendedIs DEF q
  <2>4. ASSUME NEW t \in X PROVE Picked(f, p, t, n + 1)
    <3>1. PICK s \in Z[n] : t \in Extended(f, p, q, s)
      OBVIOUS
    <3>2. Picked(f, p, s, n)
      BY <1>3, <2>1
    <3>3. PICK o \in Candidates(f, p) :
            Follows(f, p, s, o) /\ Fits(f, p, s, o) /\ t = Longer(f, p, s, o)
      BY <2>3, <3>1
    <3> QED
      BY <2>1, <3>2, <3>3, LongerPicked
  <2>5. Beam(X) = X
    <3>1. Cardinality(Selections(f, p, n + 1)) <= BeamWidth
      BY <2>1 DEF Exhaustive
    <3> HIDE DEF X
    <3> QED
      BY <2>1, <2>4, <3>1, BeamIsAll
  <2>6. ASSUME NEW W \in Selections(f, p, n + 1)
        PROVE  \E t \in X : ToSet(t.selected) = W
    <3>1. /\ W \in SUBSET Opportunities /\ Cardinality(W) = n + 1
          /\ W \in SUBSET Candidates(f, p) /\ Minutes(f, W) <= p.maxMinutes
          /\ \A a, c \in W : a # c => evidence_overlap(f, a, c) <= p.maxOverlap
      BY DEF Selections, Compatible
    <3>2. IsFiniteSet(W) /\ W # {}
      BY <2>1, <3>1, SumsOfPlanner, FS_EmptySet
    <3>3. PICK o \in W : \A x \in W \ {o} : Before(Base(f, p), x, o)
      BY <3>1, <3>2, LastOf
    <3> DEFINE V == W \ {o}
    <3>4. V \in SUBSET Opportunities /\ o \in Opportunities \ V /\ W = V \cup {o}
      BY <3>1
    <3>5. Cardinality(V) = n
      <4>1. Cardinality(V) = Cardinality(W) - 1
        BY <3>2, FS_RemoveElement
      <4> QED
        BY <2>1, <3>1, <4>1
    <3> HIDE DEF V
    <3>6. Minutes(f, W) = Minutes(f, V) + f[o].minutes
      BY <3>4, MinutesAdd
    <3>7. Minutes(f, V) \in Nat /\ f[o].minutes \in Nat /\ p.maxMinutes \in Nat
      <4>1. Minutes(f, V) \in Nat
        BY <3>4, SumsOfPlanner
      <4>2. f[o].minutes \in 1 .. 60 /\ p.maxMinutes \in 3 .. 120
        BY <3>4, Parameters
      <4> QED
        BY <4>1, <4>2
    <3>8. V \in Selections(f, p, n)
      <4>1. Minutes(f, V) <= p.maxMinutes
        BY <3>1, <3>6, <3>7
      <4>2. V \subseteq Candidates(f, p)
            /\ \A a, c \in V : a # c => evidence_overlap(f, a, c) <= p.maxOverlap
        BY <3>1 DEF V
      <4> QED
        BY <3>4, <3>5, <4>1, <4>2 DEF Selections, Compatible
    <3>9. PICK s \in Z[n] : ToSet(s.selected) = V
      BY <1>5, <3>8
    <3>10. Picked(f, p, s, n)
      BY <1>3, <2>1
    <3>11. /\ s.selected \in Seq(Candidates(f, p)) /\ Len(s.selected) = n
           /\ s.minutes = Minutes(f, V)
      BY <3>9, <3>10 DEF Picked
    <3>12. o \in Candidates(f, p) /\ Follows(f, p, s, o)
      <4>1. ASSUME s.selected # <<>> PROVE Last(s.selected) \in V
        <5>1. Len(s.selected) \in 1 .. Len(s.selected)
          BY <3>11, <4>1
        <5> QED
          BY <3>9, <3>11, <5>1 DEF ToSet, Last
      <4> QED
        BY <3>1, <3>3, <4>1 DEF Follows, V
    <3>13. Fits(f, p, s, o)
      <4>1. s.minutes + f[o].minutes <= p.maxMinutes
        BY <3>1, <3>6, <3>11
      <4>2. \A c \in V : evidence_overlap(f, c, o) <= p.maxOverlap
        BY <3>1 DEF V
      <4> QED
        BY <3>9, <4>1, <4>2 DEF Fits
    <3>14. Longer(f, p, s, o) \in X
      <4>1. Longer(f, p, s, o) \in Extended(f, p, q, s)
        BY <2>3, <3>12, <3>13
      <4> QED
        BY <4>1
    <3>15. ToSet(Longer(f, p, s, o).selected) = W
      BY <2>1, <3>4, <3>9, <3>10, <3>12, <3>13, LongerPicked
    <3> QED
      BY <3>14, <3>15
  <2> HIDE DEF X
  <2> QED
    BY <2>1, <2>2, <2>5, <2>6
<1>6. 0 .. N \subseteq T
  <2> HIDE DEF N, T
  <2> QED
    BY <1>1, <1>4, <1>5, UpTo
<1> QED
  BY <1>6 DEF Z, q

-----------------------------------------------------------------------------
(***************************************************************************)
(* The order of the states, and the best of them.                          *)
(***************************************************************************)
\* The lexicographic order of sequences of one length.
LEMMA SmallerIsOrder ==
    ASSUME NEW n \in Nat, NEW r \in Seq(Nat), NEW s \in Seq(Nat), NEW t \in Seq(Nat),
           Len(r) = n, Len(s) = n, Len(t) = n
    PROVE  /\ s # t => Smaller(s, t) \/ Smaller(t, s)
           /\ Smaller(r, s) /\ Smaller(s, t) => Smaller(r, t)
<1>1. \A i \in 1 .. n : r[i] \in Nat /\ s[i] \in Nat /\ t[i] \in Nat
  OBVIOUS
<1>2. ASSUME s # t PROVE Smaller(s, t) \/ Smaller(t, s)
  <2> DEFINE T == {i \in 1 .. n : s[i] # t[i]}
  <2>1. T # {}
    <3>1. SUFFICES ASSUME T = {} PROVE FALSE
      OBVIOUS
    <3>2. \A i \in 1 .. n : s[i] = t[i]
      BY <3>1
    <3> QED
      BY <1>2, <3>2
  <2>2. PICK i \in T : \A j \in T : i <= j
    <3>1. T \in SUBSET Nat
      OBVIOUS
    <3> HIDE DEF T
    <3> QED
      BY <2>1, <3>1, LeastNatural
  <2>3. i \in 1 .. n /\ s[i] # t[i]
    OBVIOUS
  <2>4. \A k \in 1 .. i - 1 : s[k] = t[k] /\ t[k] = s[k]
    BY <2>2, <2>3
  <2>5. s[i] < t[i] \/ t[i] < s[i]
    BY <1>1, <2>3
  <2> HIDE DEF T
  <2> QED
    BY <2>3, <2>4, <2>5 DEF Smaller
<1>3. ASSUME Smaller(r, s), Smaller(s, t) PROVE Smaller(r, t)
  <2>1. PICK i \in 1 .. n : r[i] < s[i] /\ \A k \in 1 .. i - 1 : r[k] = s[k]
    BY <1>3 DEF Smaller
  <2>2. PICK j \in 1 .. n : s[j] < t[j] /\ \A k \in 1 .. j - 1 : s[k] = t[k]
    BY <1>3 DEF Smaller
  <2>3. CASE i < j
    <3>1. i \in 1 .. j - 1 /\ \A k \in 1 .. i - 1 : k \in 1 .. j - 1
      BY <2>3
    <3>2. r[i] < t[i] /\ \A k \in 1 .. i - 1 : r[k] = t[k]
      BY <2>1, <2>2, <3>1
    <3> QED
      BY <3>2 DEF Smaller
  <2>4. CASE i = j
    <3>1. r[i] < t[i]
      BY <1>1, <2>1, <2>2, <2>4
    <3>2. \A k \in 1 .. i - 1 : r[k] = t[k]
      BY <2>1, <2>2, <2>4
    <3> QED
      BY <3>1, <3>2 DEF Smaller
  <2>5. CASE j < i
    <3>1. j \in 1 .. i - 1 /\ \A k \in 1 .. j - 1 : k \in 1 .. i - 1
      BY <2>5
    <3>2. r[j] < t[j] /\ \A k \in 1 .. j - 1 : r[k] = t[k]
      BY <2>1, <2>2, <3>1
    <3> QED
      BY <3>2 DEF Smaller
  <2> QED
    BY <2>3, <2>4, <2>5
<1> QED
  BY <1>2, <1>3

\* The order of the states of one depth.
LEMMA BetterIsOrder ==
    ASSUME NEW f \in Mappings, NEW p \in Policies, NEW d \in Nat,
           NEW r, NEW s, NEW t,
           Picked(f, p, r, d), Picked(f, p, s, d), Picked(f, p, t, d)
    PROVE  /\ s # t => Better(s, t) \/ Better(t, s)
           /\ Better(r, s) /\ Better(s, t) => Better(r, t)
           /\ Better(s, t) => s.score >= t.score
<1>1. Candidates(f, p) \in SUBSET Nat
  BY CandidatesOrdered
<1>2. ASSUME NEW x, Picked(f, p, x, d)
      PROVE  /\ x = [selected |-> x.selected, score |-> x.score, minutes |-> x.minutes]
             /\ x.selected \in Seq(Nat) /\ Len(x.selected) = d
             /\ x.score \in Int /\ x.minutes \in Int
  <2>1. /\ x \in [selected : Seq(Candidates(f, p)), score : Int, minutes : Nat]
        /\ Len(x.selected) = d
    BY <1>2 DEF Picked
  <2>2. x.selected \in Seq(Nat)
    BY <1>1, <2>1, SeqMonotonic
  <2> QED
    BY <2>1, <2>2
<1>3. PICK a, b, c : a = r.selected /\ b = s.selected /\ c = t.selected
  OBVIOUS
<1>4. /\ b # c => Smaller(b, c) \/ Smaller(c, b)
      /\ Smaller(a, b) /\ Smaller(b, c) => Smaller(a, c)
  BY <1>2, <1>3, SmallerIsOrder
<1>5. PICK u \in Int, v \in Int, w \in Int : u = r.score /\ v = s.score /\ w = t.score
  BY <1>2
<1>6. PICK x \in Int, y \in Int, z \in Int :
        x = r.minutes /\ y = s.minutes /\ z = t.minutes
  BY <1>2
<1>7. Better(r, s) <=> \/ u > v
                       \/ u = v /\ x < y
                       \/ /\ u = v /\ x = y
                          /\ Smaller(a, b)
  BY <1>3, <1>5, <1>6 DEF Better
<1>8. Better(s, t) <=> \/ v > w
                       \/ v = w /\ y < z
                       \/ /\ v = w /\ y = z
                          /\ Smaller(b, c)
  BY <1>3, <1>5, <1>6 DEF Better
<1>9. Better(r, t) <=> \/ u > w
                       \/ u = w /\ x < z
                       \/ /\ u = w /\ x = z
                          /\ Smaller(a, c)
  BY <1>3, <1>5, <1>6 DEF Better
<1>10. Better(t, s) <=> \/ w > v
                        \/ w = v /\ z < y
                        \/ /\ w = v /\ z = y
                           /\ Smaller(c, b)
  BY <1>3, <1>5, <1>6 DEF Better
<1>11. s # t => v # w \/ y # z \/ b # c
  BY <1>2, <1>3, <1>5, <1>6
<1>12. s # t => Better(s, t) \/ Better(t, s)
  BY <1>4, <1>8, <1>10, <1>11
<1>13. Better(r, s) /\ Better(s, t) => Better(r, t)
  BY <1>4, <1>7, <1>8, <1>9
<1>14. Better(s, t) => v >= w
  BY <1>8
<1> QED
  BY <1>5, <1>12, <1>13, <1>14

\* Of finitely many states one is the best.
LEMMA BestExists ==
    ASSUME NEW f \in Mappings, NEW p \in Policies, NEW d \in Nat,
           NEW X, IsFiniteSet(X), X # {}, \A s \in X : Picked(f, p, s, d)
    PROVE  \E s \in X : \A t \in X \ {s} : Better(s, t)
<1> DEFINE Best(Y) == \E s \in Y : \A t \in Y \ {s} : Better(s, t)
           T == {Y \in SUBSET X : Y # {} => Best(Y)}
<1>1. ASSUME NEW Y \in SUBSET X, \A x \in Y : Y \ {x} \in T PROVE Y \in T
  <2>1. SUFFICES ASSUME Y # {} PROVE Best(Y)
    OBVIOUS
  <2>2. PICK x \in Y : TRUE
    BY <2>1
  <2>3. CASE Y \ {x} = {}
    BY <2>2, <2>3
  <2>4. CASE Y \ {x} # {}
    <3>1. Best(Y \ {x})
      BY <1>1, <2>2, <2>4
    <3>2. PICK s \in Y \ {x} : \A t \in (Y \ {x}) \ {s} : Better(s, t)
      BY <3>1
    <3>3. Picked(f, p, x, d) /\ Picked(f, p, s, d)
      BY <3>2
    <3>4. Better(s, x) \/ Better(x, s)
      BY <3>2, <3>3, BetterIsOrder
    <3>5. CASE Better(s, x)
      BY <3>2, <3>5
    <3>6. CASE Better(x, s)
      <4>1. ASSUME NEW t \in Y \ {x} PROVE Better(x, t)
        <5>1. CASE t = s
          BY <3>6, <5>1
        <5>2. CASE t # s
          <6>1. Better(s, t) /\ Picked(f, p, t, d)
            BY <3>2, <4>1, <5>2
          <6> QED
            BY <3>3, <3>6, <6>1, BetterIsOrder
        <5> QED
          BY <5>1, <5>2
      <4> QED
        BY <4>1
    <3> QED
      BY <3>4, <3>5, <3>6
  <2> QED
    BY <2>3, <2>4
<1>2. SUBSET X \subseteq T
  <2> HIDE DEF T
  <2> QED
    BY <1>1, SubsetsByElement
<1>3. X \in T
  <2> HIDE DEF T
  <2> QED
    BY <1>2
<1> QED
  BY <1>3

\* The states that will do are the eligible selections.
LEMMA GoodIsAllEligible ==
    ASSUME NEW f \in Mappings, NEW p \in Policies, Exhaustive(f, p),
           NEW W \in SUBSET Opportunities, Eligible(f, p, W)
    PROVE  \E s \in Good(f, p) : ToSet(s.selected) = W
<1>1. p.count \in 0 .. p.count
  BY Parameters
<1>2. W \in Selections(f, p, p.count)
  BY DEF Eligible, Selections
<1>3. PICK s \in States(f, p, _valid_candidates(f, p))[p.count] :
        ToSet(s.selected) = W
  BY <1>1, <1>2, StatesComplete
<1>4. p.selectedMode => Localizable(f, p, Candidates(f, p), ToSet(s.selected))
  BY <1>3 DEF Eligible
<1> QED
  BY <1>3, <1>4 DEF Good

\* What is found is an eligible selection of the greatest worth, if there is one.
LEMMA FoundIsBest ==
    ASSUME NEW f \in Mappings, NEW p \in Policies, Exhaustive(f, p)
    PROVE  /\ (\E W \in SUBSET Opportunities : Eligible(f, p, W)) => Found(f, p) # {}
           /\ \A s \in Found(f, p) : \A W \in SUBSET Opportunities :
                Eligible(f, p, W) => Worth(f, p, W) <= Worth(f, p, ToSet(s.selected))
<1> DEFINE N == p.count
           G == Good(f, p)
<1>1. N \in Nat /\ N \in 0 .. N
  BY Parameters
<1>2. \A s \in G : Picked(f, p, s, N)
  BY GoodIsEligible
<1>3. Found(f, p) = {s \in G : \A t \in G \ {s} : Better(s, t)}
  BY FoundIs DEF Found
<1> HIDE DEF G
<1>4. ASSUME NEW W \in SUBSET Opportunities, Eligible(f, p, W)
      PROVE  Found(f, p) # {}
  <2>1. G # {}
    BY <1>4, GoodIsAllEligible DEF G
  <2>2. IsFiniteSet(G)
    BY <1>1, <1>2, BeamIsAll
  <2>3. \E s \in G : \A t \in G \ {s} : Better(s, t)
    BY <1>1, <1>2, <2>1, <2>2, BestExists
  <2> QED
    BY <1>3, <2>3
<1>5. ASSUME NEW s \in Found(f, p), NEW W \in SUBSET Opportunities, Eligible(f, p, W)
      PROVE  Worth(f, p, W) <= Worth(f, p, ToSet(s.selected))
  <2>1. PICK t \in G : ToSet(t.selected) = W
    BY <1>5, GoodIsAllEligible DEF G
  <2>2. s \in G /\ (s = t \/ Better(s, t))
    BY <1>3, <1>5, <2>1
  <2>3. Picked(f, p, s, N) /\ Picked(f, p, t, N)
    BY <1>2, <2>1, <2>2
  <2>4. /\ s.score \in Int /\ t.score \in Int
        /\ 2 * s.score = Worth(f, p, ToSet(s.selected))
        /\ 2 * t.score = Worth(f, p, W)
    BY <2>1, <2>3 DEF Picked
  <2>5. s.score >= t.score
    <3>1. CASE s = t
      BY <2>4, <3>1
    <3>2. CASE Better(s, t)
      BY <1>1, <2>3, <3>2, BetterIsOrder
    <3> QED
      BY <2>2, <3>1, <3>2
  <2>6. 2 * t.score <= 2 * s.score
    BY <2>4, <2>5
  <2> QED
    BY <2>4, <2>6
<1> QED
  BY <1>4, <1>5

\* If the beam has room for the selections of each size that keep the
\* constraints, _select_exact is exact: there is a plan if and only if there is
\* an eligible selection, and none is worth more than the one of the plan.
THEOREM PlansAreExact ==
    ASSUME \A f \in Mappings : \A p \in Policies : Exhaustive(f, p)
    PROVE  PlanningSpec => []PlanExact
<1>1. PlannerInv => PlanExact
  <2> SUFFICES ASSUME PlannerInv, Planned PROVE PlanExact
    BY DEF PlanExact
  <2> DEFINE f == mapping.opportunities
             p == policy
             eligible == {set \in SUBSET Opportunities : Eligible(f, p, set)}
  <2>1. /\ mapping \in Maps /\ p \in Policies /\ f \in Mappings
        /\ validate_assessment_plan(plan, mapping, policy)
    BY PlanIsSound DEF PlannerInv
  <2>2. plan = build_assessment_plan(mapping, policy)
    BY DEF PlannerInv, PlanInv, Planned, NoPlan
  <2>3. \/ /\ mapping.status = "READY"
           /\ \E s \in Found(f, p) : plan = PlanOf(f, p, s)
        \/ /\ NoQuestions(plan)
           /\ mapping.status = "READY" => Found(f, p) = {}
    BY <2>1, <2>2, BuildIs
  <2>4. Exhaustive(f, p)
    BY <2>1
  <2>5. /\ (\E W \in SUBSET Opportunities : Eligible(f, p, W)) => Found(f, p) # {}
        /\ \A s \in Found(f, p) : \A W \in SUBSET Opportunities :
             Eligible(f, p, W) => Worth(f, p, W) <= Worth(f, p, ToSet(s.selected))
    BY <2>1, <2>4, FoundIsBest
  <2> HIDE DEF f, p
  <2>6. ASSUME NEW s \in Found(f, p), plan = PlanOf(f, p, s)
        PROVE  /\ plan.status = "READY"
               /\ ToSet(plan.selected) \in eligible
               /\ \A set \in eligible :
                    Worth(f, p, set) <= Worth(f, p, ToSet(plan.selected))
    <3>1. plan.status = "READY" /\ plan.selected = s.selected
      BY <2>6 DEF PlanOf
    <3>2. Eligible(f, p, ToSet(s.selected))
      BY <2>1, FoundIsGood
    <3>3. ToSet(s.selected) \in SUBSET Opportunities
      BY <3>2 DEF Eligible, Compatible, Candidates
    <3> QED
      BY <2>5, <3>1, <3>2, <3>3
  <2>7. ASSUME NoQuestions(plan), mapping.status = "READY"
        PROVE  plan.status # "READY" /\ eligible = {}
    <3>1. plan.status # "READY"
      BY <2>7 DEF NoQuestions
    <3>2. ~ \E s \in Found(f, p) : plan = PlanOf(f, p, s)
      BY <2>6, <3>1
    <3>3. ~ \E W \in SUBSET Opportunities : Eligible(f, p, W)
      BY <2>3, <2>5, <2>7, <3>2
    <3> QED
      BY <3>1, <3>3
  <2>8. mapping.status = "READY" =>
             /\ plan.status = "READY" <=> eligible # {}
             /\ plan.status = "READY" =>
                  /\ ToSet(plan.selected) \in eligible
                  /\ \A set \in eligible :
                       Worth(f, p, set) <= Worth(f, p, ToSet(plan.selected))
    BY <2>3, <2>6, <2>7
  <2> QED
    BY <2>1, <2>8 DEF PlanExact, F, f, p
<1> QED
  BY <1>1, PlannerIsKept, PTL

\* The beam of 512 has room for every selection of nine opportunities, whatever
\* they cite and whatever the policy: for them _select_exact is exact.
THEOREM PlansOfFewAreExact ==
    ASSUME Cardinality(SUBSET Opportunities) <= BeamWidth
    PROVE  PlanningSpec => []PlanExact
<1>1. ASSUME NEW f \in Mappings, NEW p \in Policies PROVE Exhaustive(f, p)
  <2>1. ASSUME NEW d \in 0 .. p.count
        PROVE  Cardinality(Selections(f, p, d)) <= BeamWidth
    <3> DEFINE S == SUBSET Opportunities
               W == Selections(f, p, d)
    <3>1. IsFiniteSet(S)
      BY PlanningConstants, FS_SUBSET
    <3>2. W \in SUBSET S
      BY DEF Selections
    <3> HIDE DEF S, W
    <3>3. /\ IsFiniteSet(W) /\ Cardinality(W) <= Cardinality(S)
          /\ Cardinality(W) \in Nat /\ Cardinality(S) \in Nat
      BY <3>1, <3>2, FS_Subset, FS_CardinalityType
    <3>4. Cardinality(S) <= BeamWidth /\ BeamWidth \in Nat
      BY PlanningConstants DEF S
    <3>5. Cardinality(W) <= BeamWidth
      BY <3>3, <3>4
    <3> QED
      BY <3>5 DEF W
  <2> QED
    BY <2>1 DEF Exhaustive
<1> QED
  BY <1>1, PlansAreExact
=============================================================================
