------------------------------- MODULE Induction -------------------------------
(***************************************************************************)
(* Induction and recursion for the proofs about what the code computes of  *)
(* data of any length.  A predicate is the set of the numbers that satisfy *)
(* it, and a recursive definition a function from its index and its        *)
(* previous values to the next one.                                        *)
(***************************************************************************)
EXTENDS Integers, FiniteSets, FiniteSetTheorems, TLAPS

(* A set that contains 0 and with every number the next contains them all: *)
(* its numbers up to n are as many as there are numbers up to n.           *)
LEMMA NatInductionOnSets ==
  ASSUME NEW S, 0 \in S, \A n \in Nat : n \in S => n + 1 \in S
  PROVE  Nat \subseteq S
<1> SUFFICES ASSUME NEW n \in Nat, n \notin S PROVE FALSE
  OBVIOUS
<1> DEFINE Below == {m \in 0 .. n : \A k \in 0 .. m : k \in S}
<1> DEFINE c == Cardinality(Below)
<1>1. IsFiniteSet(Below) /\ c \in Nat /\ c <= n + 1
  <2>1. IsFiniteSet(0 .. n) /\ Cardinality(0 .. n) = n + 1
    BY FS_Interval
  <2> QED
    BY <2>1, FS_Subset, FS_CardinalityType
<1>2. 0 \in Below
  OBVIOUS
<1>3. ASSUME NEW m \in 0 .. n, m \in Below PROVE m + 1 \in Below
  BY <1>3
<1>4. ASSUME NEW m \in 0 .. n, m \in Below PROVE m < c
  <2>1. 0 .. m \subseteq Below
    BY <1>4
  <2>2. Cardinality(0 .. m) = m + 1
    BY FS_Interval
  <2>3. Cardinality(0 .. m) <= c
    BY <1>1, <2>1, FS_Subset
  <2> QED
    BY <1>1, <2>2, <2>3
<1>0. c = Cardinality(Below)
  OBVIOUS
<1> HIDE DEF c
<1>5. c > 0
  BY <1>2, <1>4
<1>6. CASE c - 1 \in Below
  <2>1. c \in Below
    BY <1>1, <1>3, <1>5, <1>6
  <2> QED
    BY <1>1, <1>4, <2>1
<1>7. CASE c - 1 \notin Below
  <2>1. ASSUME NEW m \in Below PROVE m \in 0 .. c - 2
    <3>1. CASE m >= c - 1
      <4>1. c - 1 \in 0 .. m /\ c - 1 \in 0 .. n /\ 0 .. c - 1 \subseteq 0 .. m
        BY <1>1, <1>5, <3>1
      <4>2. c - 1 \in Below
        BY <2>1, <4>1
      <4> QED
        BY <1>7, <4>2
    <3> QED
      BY <1>1, <3>1
  <2>2. IsFiniteSet(0 .. c - 2) /\ Cardinality(0 .. c - 2) = c - 1
    <3>1. c - 2 \in Int
      BY <1>1
    <3>2. CASE 0 > c - 2
      BY <1>1, <1>5, <3>1, <3>2, FS_Interval
    <3>3. CASE ~(0 > c - 2)
      <4>1. Cardinality(0 .. c - 2) = c - 2 - 0 + 1
        BY <3>1, <3>3, FS_Interval
      <4> QED
        BY <1>1, <3>1, <4>1, FS_Interval
    <3> QED
      BY <3>2, <3>3
  <2>3. c <= c - 1
    <3> HIDE DEF Below
    <3>1. Below \in SUBSET (0 .. c - 2)
      BY <2>1
    <3>2. Cardinality(Below) <= Cardinality(0 .. c - 2)
      BY <2>2, <3>1, FS_Subset
    <3> QED
      BY <1>0, <2>2, <3>2
  <2> QED
    BY <1>1, <2>3
<1> QED
  BY <1>6, <1>7

(* The same up to N.                                                       *)
LEMMA UpToInduction ==
  ASSUME NEW N \in Nat, NEW S, 0 \in S, \A n \in 0 .. N - 1 : n \in S => n + 1 \in S
  PROVE  0 .. N \subseteq S
<1> DEFINE T == {n \in Nat : n > N \/ n \in S}
<1>1. 0 \in T
  OBVIOUS
<1>2. \A n \in Nat : n \in T => n + 1 \in T
  OBVIOUS
<1>3. Nat \subseteq T
  <2> HIDE DEF T
  <2> QED
    BY <1>1, <1>2, NatInductionOnSets
<1> QED
  BY <1>3

(* A set of numbers that is not empty has a least one.                     *)
LEMMA LeastNumber ==
  ASSUME NEW S, S \subseteq Nat, S # {}
  PROVE  \E m \in S : \A k \in S : m <= k
<1> SUFFICES ASSUME \A m \in S : \E k \in S : k < m PROVE FALSE
  OBVIOUS
<1> DEFINE Bounds == {n \in Nat : \A k \in S : n <= k}
<1>1. 0 \in Bounds
  OBVIOUS
<1>2. ASSUME NEW n \in Nat, n \in Bounds PROVE n + 1 \in Bounds
  <2>1. n \notin S
    BY <1>2
  <2> QED
    BY <1>2, <2>1
<1>3. Nat \subseteq Bounds
  <2> HIDE DEF Bounds
  <2> QED
    BY <1>1, <1>2, NatInductionOnSets
<1>4. PICK k \in S : TRUE
  OBVIOUS
<1>5. k \in Nat /\ k + 1 \in Bounds
  BY <1>3
<1> QED
  BY <1>5

(* A set that contains whatever all elements of a lower rank lead to       *)
(* contains everything.                                                    *)
LEMMA RankInduction ==
  ASSUME NEW D, NEW N \in Nat, NEW rank \in [D -> 0 .. N], NEW S,
         \A d \in D : (\A e \in D : rank[e] < rank[d] => e \in S) => d \in S
  PROVE  D \subseteq S
<1> DEFINE T == {n \in Nat : \A d \in D : rank[d] < n => d \in S}
<1>1. 0 \in T
  OBVIOUS
<1>2. ASSUME NEW n \in Nat, n \in T PROVE n + 1 \in T
  <2>1. ASSUME NEW d \in D, rank[d] < n + 1 PROVE d \in S
    <3>1. \A e \in D : rank[e] < rank[d] => rank[e] < n
      BY <2>1
    <3> QED
      BY <1>2, <3>1
  <2> QED
    BY <2>1
<1>3. N + 1 \in T
  <2> HIDE DEF T
  <2> QED
    BY <1>1, <1>2, NatInductionOnSets
<1> QED
  BY <1>3

-----------------------------------------------------------------------------
(* What a definition on D says that refers to itself only at indices of a  *)
(* lower rank: step[d] makes the value at d of the others.                 *)
Recursion(D, T, N, rank, step) ==
  /\ N \in Nat /\ rank \in [D -> 0 .. N] /\ T # {}
  /\ step \in [D -> [[D -> T] -> T]]
  /\ \A d \in D : \A g, h \in [D -> T] :
       (\A e \in D : rank[e] < rank[d] => g[e] = h[e]) => step[d][g] = step[d][h]

Solution(D, T, step, f) == f \in [D -> T] /\ \A d \in D : f[d] = step[d][f]

(* Such a definition has a solution.                                       *)
LEMMA RecursionSolved ==
  ASSUME NEW D, NEW T, NEW N, NEW rank, NEW step, Recursion(D, T, N, rank, step)
  PROVE  \E f : Solution(D, T, step, f)
<1> USE DEF Recursion
<1> DEFINE Solves(g, n) == \A d \in D : rank[d] < n => g[d] = step[d][g]
           S == {n \in Nat : \E g \in [D -> T] : Solves(g, n)}
<1>1. 0 \in S
  <2>1. PICK t : t \in T
    OBVIOUS
  <2>2. [d \in D |-> t] \in [D -> T]
    BY <2>1
  <2>3. Solves([d \in D |-> t], 0)
    OBVIOUS
  <2> QED
    BY <2>2, <2>3
<1>2. ASSUME NEW n \in Nat, n \in S PROVE n + 1 \in S
  <2>1. PICK g \in [D -> T] : Solves(g, n)
    BY <1>2
  <2> DEFINE h == [d \in D |-> IF rank[d] < n THEN g[d] ELSE step[d][g]]
  <2>2. h \in [D -> T]
    OBVIOUS
  <2>3. ASSUME NEW d \in D, rank[d] < n + 1 PROVE h[d] = step[d][h]
    <3>1. \A e \in D : rank[e] < rank[d] => h[e] = g[e]
      BY <2>3
    <3>2. step[d][h] = step[d][g]
      BY <2>2, <3>1
    <3> QED
      BY <2>1, <3>2
  <2>4. Solves(h, n + 1)
    BY <2>3
  <2> HIDE DEF h
  <2>5. \E f \in [D -> T] : Solves(f, n + 1)
    BY <2>2, <2>4
  <2> QED
    BY <2>5
<1>3. N + 1 \in S
  <2> HIDE DEF S
  <2> QED
    BY <1>1, <1>2, NatInductionOnSets
<1>4. PICK f \in [D -> T] : Solves(f, N + 1)
  BY <1>3
<1> QED
  BY <1>4 DEF Solution

(* A loop over 1 .. N: from base at 0, each value is made of the one       *)
(* before it.                                                              *)
Loop(N, T, base, step) ==
  N \in Nat /\ base \in T /\ step \in [1 .. N -> [T -> T]]

Unrolled(N, T, base, step, f) ==
  f \in [0 .. N -> T] /\ f[0] = base /\ \A n \in 1 .. N : f[n] = step[n][f[n - 1]]

(* A loop can be unrolled.                                                 *)
LEMMA LoopSolved ==
  ASSUME NEW N, NEW T, NEW base, NEW step, Loop(N, T, base, step)
  PROVE  \E f : Unrolled(N, T, base, step, f)
<1> USE DEF Loop
<1> DEFINE D == 0 .. N
           rank == [n \in D |-> n]
           back == [n \in D |-> [g \in [D -> T] |-> IF n = 0 THEN base ELSE step[n][g[n - 1]]]]
<1>1. back \in [D -> [[D -> T] -> T]]
  OBVIOUS
<1>2. Recursion(D, T, N, rank, back)
  BY <1>1 DEF Recursion
<1>3. PICK f : Solution(D, T, back, f)
  <2> HIDE DEF D, rank, back
  <2> QED
    BY <1>2, RecursionSolved
<1> QED
  BY <1>3 DEF Solution, Unrolled

(* Whatever goes on as the loop does is the loop.                          *)
LEMMA LoopUnique ==
  ASSUME NEW N, NEW T, NEW base, NEW step, Loop(N, T, base, step), NEW f,
         f = [n \in 0 .. N |-> f[n]], f[0] = base,
         \A n \in 1 .. N : f[n - 1] \in T => f[n] = step[n][f[n - 1]]
  PROVE  Unrolled(N, T, base, step, f)
<1> USE DEF Loop
<1> DEFINE S == {n \in 0 .. N : f[n] \in T}
<1>1. 0 \in S
  OBVIOUS
<1>2. ASSUME NEW n \in 0 .. N - 1, n \in S PROVE n + 1 \in S
  <2>1. n + 1 \in 1 .. N /\ (n + 1) - 1 = n
    OBVIOUS
  <2>2. f[n + 1] = step[n + 1][f[n]]
    BY <1>2, <2>1
  <2> QED
    BY <1>2, <2>1, <2>2
<1>3. 0 .. N \subseteq S
  <2> HIDE DEF S
  <2> QED
    BY <1>1, <1>2, UpToInduction
<1>4. f \in [0 .. N -> T]
  BY <1>3
<1>5. \A n \in 1 .. N : n - 1 \in 0 .. N
  OBVIOUS
<1> QED
  BY <1>3, <1>4, <1>5 DEF Unrolled

(* There is but one.                                                       *)
LEMMA LoopDetermined ==
  ASSUME NEW N, NEW T, NEW base, NEW step, Loop(N, T, base, step), NEW f, NEW g,
         Unrolled(N, T, base, step, f), Unrolled(N, T, base, step, g)
  PROVE  f[N] = g[N]
<1> USE DEF Loop
<1> DEFINE S == {n \in 0 .. N : f[n] = g[n]}
<1>1. 0 \in S
  BY DEF Unrolled
<1>2. ASSUME NEW n \in 0 .. N - 1, n \in S PROVE n + 1 \in S
  <2>1. n + 1 \in 1 .. N /\ (n + 1) - 1 = n
    OBVIOUS
  <2>2. f[n + 1] = step[n + 1][f[n]] /\ g[n + 1] = step[n + 1][g[n]]
    BY <2>1 DEF Unrolled
  <2> QED
    BY <1>2, <2>1, <2>2
<1>3. 0 .. N \subseteq S
  <2> HIDE DEF S
  <2> QED
    BY <1>1, <1>2, UpToInduction
<1> QED
  BY <1>3

=============================================================================
