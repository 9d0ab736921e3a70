------------------------------ MODULE NaturalFacts -----------------------------
(***************************************************************************)
(* Facts about natural numbers and about recursive functions on them that  *)
(* the proofs of several modules use.                                      *)
(***************************************************************************)
EXTENDS Integers, WellFoundedInduction, TLAPS

Below == OpToRel(<, Nat)

(* What a CHOOSE of the first number of a kind finds, where one exists. *)
LEMMA LeastNatural ==
  ASSUME NEW T, T \subseteq Nat, T # {}
  PROVE  \E m \in T : \A k \in T : m <= k
<1>1. IsWellFoundedOn(Below, Nat)
  BY NatLessThanWellFounded DEF Below
<1>2. PICK m \in T : \A k \in T : <<k, m>> \notin Below
  BY <1>1, WFMin
<1>3. \A k, n \in Nat : k < n => <<k, n>> \in Below
  BY DEF Below, OpToRel
<1>4. ASSUME NEW k \in T PROVE m <= k
  <2>1. m \in Nat /\ k \in Nat
    OBVIOUS
  <2>2. ~(k < m)
    BY <1>2, <1>3, <2>1
  <2> QED
    BY <2>1, <2>2
<1> QED
  BY <1>4

(* Counting round a table of n seats. *)
LEMMA ModRange ==
  ASSUME NEW n \in Nat \ {0}, NEW a \in Nat
  PROVE  a % n \in 0..n - 1
OBVIOUS

LEMMA ModSmall ==
  ASSUME NEW n \in Nat \ {0}, NEW a \in 0..n - 1
  PROVE  a % n = a /\ (a + n) % n = a
OBVIOUS

-------------------------------------------------------------------------------
(* Induction and recursion on the natural numbers, with sets and functions  *)

LEMMA Induction ==
  ASSUME NEW T, 0 \in T, \A n \in Nat : n \in T => n + 1 \in T
  PROVE  \A n \in Nat : n \in T
<1> SUFFICES ASSUME Nat \ T # {} PROVE FALSE
  OBVIOUS
<1>1. PICK m \in Nat \ T : \A k \in Nat \ T : m <= k
  BY LeastNatural
<1>2. m # 0 /\ m - 1 \in Nat
  BY <1>1
<1>3. m - 1 \in T
  BY <1>1, <1>2
<1>4. m \in T
  BY <1>2, <1>3
<1> QED
  BY <1>1, <1>4

(* g is what a loop with body F has made of a after each of n rounds. *)
Runs(g, F, a, n) == g[0] = a /\ \A k \in 1..n : g[k] = F[<<k, g[k - 1]>>]

LEMMA SomeRuns ==
  ASSUME NEW U, NEW a \in U, NEW F \in [Nat \X U -> U]
  PROVE  \A n \in Nat : \E g \in [0..n -> U] : Runs(g, F, a, n)
<1> DEFINE T == {n \in Nat : \E g \in [0..n -> U] : Runs(g, F, a, n)}
<1>1. 0 \in T
  <2> DEFINE g == [k \in 0..0 |-> a]
  <2>1. g \in [0..0 -> U] /\ Runs(g, F, a, 0)
    BY DEF Runs
  <2> QED
    BY <2>1
<1>2. ASSUME NEW n \in Nat, n \in T PROVE n + 1 \in T
  <2>1. PICK g \in [0..n -> U] : Runs(g, F, a, n)
    BY <1>2
  <2> DEFINE h == [k \in 0..n + 1 |-> IF k = n + 1 THEN F[<<n + 1, g[n]>>] ELSE g[k]]
  <2>2. F[<<n + 1, g[n]>>] \in U
    OBVIOUS
  <2>3. h \in [0..n + 1 -> U]
    BY <2>2
  <2>4. \A k \in 0..n : h[k] = g[k]
    OBVIOUS
  <2>5. h[n + 1] = F[<<n + 1, g[n]>>]
    OBVIOUS
  <2> HIDE DEF h
  <2>6. Runs(h, F, a, n + 1)
    <3>1. h[0] = a
      BY <2>1, <2>4 DEF Runs
    <3>2. ASSUME NEW k \in 1..n PROVE h[k] = F[<<k, h[k - 1]>>]
      BY <2>1, <2>4 DEF Runs
    <3>3. h[n + 1] = F[<<n + 1, h[n]>>]
      <4>1. h[n] = g[n]
        BY <2>4
      <4> QED
        BY <2>5, <4>1
    <3>4. \A k \in 1..n + 1 : k \in 1..n \/ k = n + 1
      OBVIOUS
    <3>5. (n + 1) - 1 = n
      OBVIOUS
    <3> QED
      BY <3>1, <3>2, <3>3, <3>4, <3>5 DEF Runs
  <2> QED
    BY <2>3, <2>6
<1> HIDE DEF T
<1>3. \A n \in Nat : n \in T
  BY <1>1, <1>2, Induction
<1> QED
  BY <1>3 DEF T

LEMMA RunsAgree ==
  ASSUME NEW F, NEW a, NEW n \in Nat, NEW m \in Nat, n <= m, NEW g, NEW h,
         Runs(g, F, a, n), Runs(h, F, a, m)
  PROVE  \A k \in 0..n : g[k] = h[k]
<1> DEFINE T == {k \in Nat : k <= n => g[k] = h[k]}
<1>1. 0 \in T
  BY DEF Runs
<1>2. ASSUME NEW k \in Nat, k \in T PROVE k + 1 \in T
  <2> SUFFICES ASSUME k + 1 <= n PROVE g[k + 1] = h[k + 1]
    OBVIOUS
  <2>1. g[k] = h[k]
    BY <1>2
  <2>2. k + 1 \in 1..n /\ k + 1 \in 1..m /\ (k + 1) - 1 = k
    OBVIOUS
  <2> QED
    BY <2>1, <2>2 DEF Runs
<1> HIDE DEF T
<1>3. \A k \in Nat : k \in T
  BY <1>1, <1>2, Induction
<1> QED
  BY <1>3 DEF T

(* A recursive function on the natural numbers is what its equation says.  *)
Recurs(g, F, a) == g = [n \in Nat |-> IF n = 0 THEN a ELSE F[<<n, g[n - 1]>>]]

LEMMA RecursionIsDefined ==
  ASSUME NEW U, NEW a \in U, NEW F \in [Nat \X U -> U]
  PROVE  \E g \in [Nat -> U] : Recurs(g, F, a)
<1> DEFINE R(n) == CHOOSE g \in [0..n -> U] : Runs(g, F, a, n)
           G == [n \in Nat |-> R(n)[n]]
<1>1. ASSUME NEW n \in Nat PROVE R(n) \in [0..n -> U] /\ Runs(R(n), F, a, n)
  BY SomeRuns
<1> HIDE DEF R
<1>2. G \in [Nat -> U]
  BY <1>1
<1>3. ASSUME NEW n \in Nat PROVE G[n] = IF n = 0 THEN a ELSE F[<<n, G[n - 1]>>]
  <2>1. CASE n = 0
    BY <1>1, <2>1 DEF Runs
  <2>2. CASE n # 0
    <3>1. n - 1 \in Nat /\ n - 1 <= n /\ n \in 1..n /\ n - 1 \in 0..n - 1
      BY <2>2
    <3>2. R(n - 1)[n - 1] = R(n)[n - 1]
      BY <1>1, <3>1, RunsAgree
    <3>3. R(n)[n] = F[<<n, R(n)[n - 1]>>]
      BY <1>1, <3>1 DEF Runs
    <3> QED
      BY <2>2, <3>1, <3>2, <3>3
  <2> QED
    BY <2>1, <2>2
<1>4. G = [n \in Nat |-> IF n = 0 THEN a ELSE F[<<n, G[n - 1]>>]]
  BY <1>3
<1>5. Recurs(G, F, a)
  BY <1>4 DEF Recurs
<1> QED
  BY <1>2, <1>5

(* The loops of the models: a recursive function up to the number of rounds. *)
Loops(g, F, a, n) == g = [k \in 0..n |-> IF k = 0 THEN a ELSE F[<<k, g[k - 1]>>]]

(* Such a function exists, so that CHOOSE, by which it is defined, finds it. *)
LEMMA LoopIsDefined ==
  ASSUME NEW n \in Nat, NEW U, NEW a \in U, NEW F \in [(1..n) \X U -> U]
  PROVE  \E g \in [0..n -> U] : Loops(g, F, a, n)
<1> DEFINE H == [p \in Nat \X U |-> IF p[1] \in 1..n THEN F[p] ELSE p[2]]
<1>1. H \in [Nat \X U -> U]
  OBVIOUS
<1>2. \A k \in 1..n, x \in U : H[<<k, x>>] = F[<<k, x>>]
  OBVIOUS
<1> HIDE DEF H
<1>3. PICK g \in [0..n -> U] : Runs(g, H, a, n)
  BY <1>1, SomeRuns
<1>4. \A k \in 0..n : g[k] = IF k = 0 THEN a ELSE F[<<k, g[k - 1]>>]
  <2> TAKE k \in 0..n
  <2>1. CASE k = 0
    BY <2>1, <1>3 DEF Runs
  <2>2. CASE k # 0
    <3>1. k \in 1..n /\ k - 1 \in 0..n
      BY <2>2
    <3> QED
      BY <3>1, <2>2, <1>2, <1>3 DEF Runs
  <2> QED
    BY <2>1, <2>2
<1>5. Loops(g, F, a, n)
  BY <1>4 DEF Loops
<1> QED
  BY <1>5

(* What holds before the first round of a loop, and after each round if    *)
(* after the one before, holds after the last.                             *)
LEMMA RoundsKeep ==
  ASSUME NEW n \in Nat, NEW run, NEW V, run[0] \in V[0],
         \A k \in 1..n : run[k - 1] \in V[k - 1] => run[k] \in V[k]
  PROVE  \A k \in 0..n : run[k] \in V[k]
<1> DEFINE T == {k \in Nat : k <= n => run[k] \in V[k]}
<1>1. 0 \in T
  OBVIOUS
<1>2. ASSUME NEW k \in Nat, k \in T PROVE k + 1 \in T
  <2> SUFFICES ASSUME k + 1 <= n PROVE run[k + 1] \in V[k + 1]
    OBVIOUS
  <2>1. run[k] \in V[k]
    BY <1>2
  <2>2. k + 1 \in 1..n /\ (k + 1) - 1 = k
    OBVIOUS
  <2> QED
    BY <2>1, <2>2
<1> HIDE DEF T
<1>3. \A k \in Nat : k \in T
  BY <1>1, <1>2, Induction
<1> QED
  BY <1>3 DEF T

(* A loop whose body F keeps V, as a function of the number of its rounds.  *)
RunsIn(g, F, a, n, U, V) ==
  /\ g \in [0..n -> U] /\ g[0] = a
  /\ \A i \in 1..n : g[i - 1] \in U /\ g[i - 1] \in V[i - 1] /\ g[i] = F[<<i, g[i - 1]>>]

LEMMA LoopKeeps ==
  ASSUME NEW n \in Nat, NEW U, NEW a \in U, NEW F \in [(1..n) \X U -> U], NEW V, a \in V[0],
         \A i \in 1..n, x \in U : x \in V[i - 1] => F[<<i, x>>] \in V[i]
  PROVE  \E g : RunsIn(g, F, a, n, U, V)
<1>1. PICK g \in [0..n -> U] : Loops(g, F, a, n)
  BY LoopIsDefined
<1>2. g[0] = a /\ \A i \in 1..n : g[i] = F[<<i, g[i - 1]>>]
  BY <1>1 DEF Loops
<1>3. ASSUME NEW i \in 1..n PROVE g[i - 1] \in U
  OBVIOUS
<1>4. ASSUME NEW i \in 1..n, g[i - 1] \in V[i - 1] PROVE g[i] \in V[i]
  BY <1>2, <1>3, <1>4
<1>5. \A i \in 0..n : g[i] \in V[i]
  BY <1>2, <1>4, RoundsKeep
<1>6. \A i \in 1..n : g[i - 1] \in V[i - 1]
  BY <1>5
<1> QED
  BY <1>2, <1>3, <1>6 DEF RunsIn
================================================================================
