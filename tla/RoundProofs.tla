---------------------------- MODULE RoundProofs ----------------------------
(***************************************************************************)
(* Induction over the numbers, and that a function defined by recursion    *)
(* over a number of rounds is there: what proofs about loops rest on.      *)
(***************************************************************************)
EXTENDS Integers, WellFoundedInduction, TLAPS

(* A set of numbers that is not empty has a least one.                     *)
LEMMA Least ==
  ASSUME NEW T, T \subseteq Nat, T # {}
  PROVE  \E m \in T : \A k \in T : m <= k
<1> DEFINE R == OpToRel(<, Nat)
<1>1. IsWellFoundedOn(R, Nat)
  BY NatLessThanWellFounded
<1>2. \A x, y \in Nat : x < y => <<x, y>> \in R
  BY DEF OpToRel
<1> HIDE DEF R
<1>3. PICK m \in T : \A y \in T : ~ (<<y, m>> \in R)
  BY <1>1, WFMin
<1>4. ASSUME NEW k \in T PROVE m <= k
  <2>1. ~ (k < m)
    BY <1>2, <1>3
  <2> QED BY <2>1
<1> QED BY <1>4

LEMMA Greatest ==
  ASSUME NEW n \in Nat, NEW T, T \subseteq 0 .. n, T # {}
  PROVE  \E m \in T : \A k \in T : k <= m
<1> DEFINE U == {n - k : k \in T}
<1>1. U \subseteq Nat /\ U # {}
  <2>1. ASSUME NEW k \in T PROVE n - k \in Nat
    OBVIOUS
  <2>2. U # {}
    <3>1. PICK k : k \in T
      OBVIOUS
    <3> QED BY <3>1
  <2> QED BY <2>1, <2>2
<1>2. PICK u \in U : \A v \in U : u <= v
  <2> HIDE DEF U
  <2> QED BY <1>1, Least
<1>3. PICK m \in T : u = n - m
  OBVIOUS
<1>4. ASSUME NEW k \in T PROVE k <= m
  <2>1. n - k \in U
    OBVIOUS
  <2>2. n - m <= n - k
    BY <1>2, <1>3, <2>1
  <2> QED BY <2>2
<1> QED BY <1>4

(* A set that has 0, and the successor of each number it has, has all.     *)
LEMMA SetInduction ==
  ASSUME NEW S, 0 \in S, \A n \in Nat : n \in S => n + 1 \in S
  PROVE  Nat \subseteq S
<1> DEFINE T == Nat \ S
<1>1. SUFFICES ASSUME T # {} PROVE FALSE
  OBVIOUS
<1>2. PICK m \in T : \A k \in T : m <= k
  <2> HIDE DEF T
  <2>1. T \subseteq Nat
    BY DEF T
  <2> QED BY <1>1, <2>1, Least
<1>3. m # 0 /\ m \in Nat
  OBVIOUS
<1>4. m - 1 \in Nat /\ m - 1 \notin T
  BY <1>2, <1>3
<1>5. (m - 1) + 1 \in S
  BY <1>4
<1> QED BY <1>3, <1>5

(* f are the results of n rounds that begin with a: round i makes F[x][i]  *)
(* of x.                                                                   *)
Iterates(f, n, a, F) == f[0] = a /\ \A i \in 1 .. n : f[i] = F[f[i - 1]][i]

(* There is a function of the results of N rounds.                         *)
LEMMA RecursionExists ==
  ASSUME NEW X, NEW a \in X, NEW F \in [X -> [Nat -> X]], NEW N \in Nat
  PROVE  \E f \in [0 .. N -> X] : Iterates(f, N, a, F)
<1> DEFINE S == {n \in Nat : \E f \in [0 .. n -> X] : Iterates(f, n, a, F)}
<1>1. 0 \in S
  <2>1. [i \in 0 .. 0 |-> a] \in [0 .. 0 -> X]
    OBVIOUS
  <2>2. Iterates([i \in 0 .. 0 |-> a], 0, a, F)
    BY DEF Iterates
  <2> QED BY <2>1, <2>2
<1>2. ASSUME NEW n \in Nat, n \in S PROVE n + 1 \in S
  <2>1. PICK g \in [0 .. n -> X] : Iterates(g, n, a, F)
    BY <1>2
  <2> DEFINE y == F[g[n]][n + 1]
             h == [i \in 0 .. n + 1 |-> IF i = n + 1 THEN y ELSE g[i]]
  <2>2. g[n] \in X
    OBVIOUS
  <2>3. y \in X
    BY <2>2
  <2> HIDE DEF y
  <2>4. h \in [0 .. n + 1 -> X]
    BY <2>3
  <2>5. h[0] = a
    BY <2>1 DEF Iterates
  <2>6. ASSUME NEW i \in 1 .. n + 1 PROVE h[i] = F[h[i - 1]][i]
    <3>1. h[i - 1] = g[i - 1]
      OBVIOUS
    <3>2. CASE i = n + 1
      <4>1. h[i] = y /\ i - 1 = n
        BY <3>2
      <4> QED BY <3>1, <3>2, <4>1 DEF y
    <3>3. CASE i # n + 1
      <4>1. i \in 1 .. n /\ h[i] = g[i]
        BY <3>3
      <4> QED BY <3>1, <4>1, <2>1 DEF Iterates
    <3> QED BY <3>2, <3>3
  <2>7. Iterates(h, n + 1, a, F)
    BY <2>5, <2>6 DEF Iterates
  <2> HIDE DEF h
  <2> QED BY <2>4, <2>7
<1>3. Nat \subseteq S
  <2> HIDE DEF S
  <2> QED BY <1>1, <1>2, SetInduction
<1> QED BY <1>3
=============================================================================
