------------------------------ MODULE Induction ------------------------------
(***************************************************************************)
(* Induction and iteration, for the proofs about loops.  The induction     *)
(* theorems of the library take a predicate as an operator; these take a   *)
(* set, and rest on the library's fact that < is well founded on Nat.      *)
(***************************************************************************)
EXTENDS Integers, WellFoundedInduction, TLAPS

(* Every set of naturals that is not empty has a least element.            *)
LEMMA LeastElement ==
  ASSUME NEW T \in SUBSET Nat, T # {}
  PROVE  \E x \in T : \A y \in T : x <= y
<1> DEFINE R == {p \in Nat \X Nat : p[1] < p[2]}
<1>1. IsWellFoundedOn(R, Nat)
  BY NatLessThanWellFounded DEF OpToRel
<1> HIDE DEF R
<1>2. PICK x \in T : \A y \in T : <<y, x>> \notin R
  BY <1>1, WFMin
<1>3. ASSUME NEW y \in T
      PROVE  x <= y
  <2>1. x \in Nat /\ y \in Nat /\ <<y, x>> \notin R
    BY <1>2
  <2>2. QED
    BY <2>1 DEF R
<1>4. QED
  BY <1>3

(* Simple induction: a set with 0 and the successors of its elements.      *)
LEMMA Inductive ==
  ASSUME NEW S,
         0 \in S,
         \A n \in Nat : n \in S => n + 1 \in S
  PROVE  Nat \subseteq S
<1> SUFFICES ASSUME Nat \ S # {}
             PROVE  FALSE
  OBVIOUS
<1>1. PICK x \in Nat \ S : \A y \in Nat \ S : x <= y
  BY LeastElement
<1>2. x # 0 /\ x - 1 \in Nat /\ x - 1 \in S
  BY <1>1
<1>3. x \in S
  BY <1>2, x = (x - 1) + 1
<1>4. QED
  BY <1>1, <1>3

(* The same up to a bound.                                                 *)
LEMMA InductiveUpTo ==
  ASSUME NEW n \in Nat, NEW S,
         0 \in S,
         \A i \in 0 .. n : i \in S /\ i < n => i + 1 \in S
  PROVE  0 .. n \subseteq S
<1> DEFINE T == {i \in Nat : i <= n => i \in S}
<1>1. 0 \in T
  OBVIOUS
<1>2. \A i \in Nat : i \in T => i + 1 \in T
  OBVIOUS
<1> HIDE DEF T
<1>3. Nat \subseteq T
  BY <1>1, <1>2, Inductive
<1>4. QED
  BY <1>3 DEF T

(* Every bounded set of naturals that is not empty has a greatest element. *)
LEMMA GreatestElement ==
  ASSUME NEW n \in Nat, NEW T \in SUBSET (0 .. n), T # {}
  PROVE  \E x \in T : \A y \in T : y <= x
<1> DEFINE U == {m \in Nat : \A y \in T : y <= m}
<1>1. n \in U
  OBVIOUS
<1>2. PICK m \in U : \A k \in U : m <= k
  <2>1. U \in SUBSET Nat /\ U # {}
    BY <1>1
  <2> HIDE DEF U
  <2>2. QED
    BY <2>1, LeastElement
<1>3. m \in T
  <2> SUFFICES ASSUME m \notin T
               PROVE  FALSE
    OBVIOUS
  <2>1. \A y \in T : y < m
    BY <1>2
  <2>2. m - 1 \in U
    <3>1. PICK y \in T : TRUE
      OBVIOUS
    <3>2. m > 0
      BY <2>1, <3>1
    <3>3. QED
      BY <2>1, <3>2
  <2>3. QED
    BY <1>2, <2>2
<1>4. QED
  BY <1>2, <1>3

(* A loop of n turns has a table of its states, if each turn of it takes   *)
(* a state to a state: a recursive function that runs through the loop     *)
(* exists.                                                                 *)
IsTable(f, n, A, a, turn) ==
  /\ f \in [0 .. n -> A]
  /\ f[0] = a
  /\ \A i \in 1 .. n : f[i] = turn[<<i, f[i - 1]>>]

LEMMA Iteration ==
  ASSUME NEW n \in Nat, NEW A, NEW a \in A,
         NEW turn \in [(1 .. n) \X A -> A]
  PROVE  \E f : IsTable(f, n, A, a, turn)
<1> DEFINE S == {m \in 0 .. n : \E f : IsTable(f, m, A, a, turn)}
<1>1. 0 \in S
  <2>1. IsTable([i \in 0 .. 0 |-> a], 0, A, a, turn)
    BY DEF IsTable
  <2>2. QED
    BY <2>1
<1>2. ASSUME NEW m \in 0 .. n, m \in S, m < n
      PROVE  m + 1 \in S
  <2>1. PICK f : IsTable(f, m, A, a, turn)
    BY <1>2
  <2> DEFINE g == [i \in 0 .. m + 1 |-> IF i = m + 1 THEN turn[<<m + 1, f[m]>>] ELSE f[i]]
  <2>2. f[m] \in A /\ turn[<<m + 1, f[m]>>] \in A
    BY <1>2, <2>1 DEF IsTable
  <2>3. g \in [0 .. m + 1 -> A]
    BY <2>1, <2>2 DEF IsTable
  <2>4. g[0] = a
    BY <2>1 DEF IsTable
  <2>5. ASSUME NEW i \in 1 .. m + 1
        PROVE  g[i] = turn[<<i, g[i - 1]>>]
    <3>1. CASE i = m + 1
      <4>1. g[i] = turn[<<m + 1, f[m]>>] /\ g[i - 1] = f[m]
        BY <3>1
      <4>2. QED
        BY <3>1, <4>1
    <3>2. CASE i # m + 1
      <4>1. i \in 1 .. m /\ g[i] = f[i] /\ g[i - 1] = f[i - 1]
        BY <3>2
      <4>2. QED
        BY <2>1, <4>1 DEF IsTable
    <3>3. QED
      BY <3>1, <3>2
  <2> HIDE DEF g
  <2>6. IsTable(g, m + 1, A, a, turn)
    BY <2>3, <2>4, <2>5 DEF IsTable
  <2>7. QED
    BY <1>2, <2>6
<1> HIDE DEF S
<1>3. 0 .. n \subseteq S
  BY <1>1, <1>2, InductiveUpTo
<1>4. QED
  BY <1>3 DEF S

(* The same for a loop whose state after i turns is in A[i].               *)
IsStaged(f, n, A, a, turn) ==
  /\ f = [i \in 0 .. n |-> f[i]]
  /\ f[0] = a
  /\ \A i \in 0 .. n : f[i] \in A[i]
  /\ \A i \in 1 .. n : f[i] = turn[<<i, f[i - 1]>>]

LEMMA StagedIteration ==
  ASSUME NEW n \in Nat, NEW A, NEW a \in A[0], NEW turn,
         \A i \in 1 .. n : \A x \in A[i - 1] : turn[<<i, x>>] \in A[i]
  PROVE  \E f : IsStaged(f, n, A, a, turn)
<1> DEFINE S == {m \in 0 .. n : \E f : IsStaged(f, m, A, a, turn)}
<1>1. 0 \in S
  <2>1. IsStaged([i \in 0 .. 0 |-> a], 0, A, a, turn)
    BY DEF IsStaged
  <2>2. QED
    BY <2>1
<1>2. ASSUME NEW m \in 0 .. n, m \in S, m < n
      PROVE  m + 1 \in S
  <2>1. PICK f : IsStaged(f, m, A, a, turn)
    BY <1>2
  <2> DEFINE g == [i \in 0 .. m + 1 |-> IF i = m + 1 THEN turn[<<m + 1, f[m]>>] ELSE f[i]]
  <2>2. m + 1 \in 1 .. n /\ (m + 1) - 1 = m /\ m \in 0 .. m
    BY <1>2
  <2>3. f[m] \in A[m] /\ turn[<<m + 1, f[m]>>] \in A[m + 1]
    BY <2>1, <2>2 DEF IsStaged
  <2>4. ASSUME NEW i \in 0 .. m
        PROVE  g[i] = f[i] /\ g[i] \in A[i]
    <3>1. i \in 0 .. m + 1 /\ i # m + 1
      BY <1>2
    <3>2. QED
      BY <2>1, <3>1 DEF IsStaged
  <2>5. g[m + 1] = turn[<<m + 1, f[m]>>]
    BY <1>2
  <2>6. g[0] = a
    BY <1>2, <2>1, <2>4 DEF IsStaged
  <2>7. ASSUME NEW i \in 1 .. m + 1
        PROVE  g[i] = turn[<<i, g[i - 1]>>]
    <3>1. CASE i = m + 1
      BY <2>2, <2>4, <2>5, <3>1
    <3>2. CASE i # m + 1
      <4>1. i \in 1 .. m /\ i \in 0 .. m /\ i - 1 \in 0 .. m
        BY <1>2, <3>2
      <4>2. QED
        BY <2>1, <2>4, <4>1 DEF IsStaged
    <3>3. QED
      BY <3>1, <3>2
  <2>8. \A i \in 0 .. m + 1 : g[i] \in A[i]
    <3>1. \A i \in 0 .. m + 1 : i \in 0 .. m \/ i = m + 1
      BY <1>2
    <3>2. QED
      BY <2>3, <2>4, <2>5, <3>1
  <2>9. g = [i \in 0 .. m + 1 |-> g[i]]
    OBVIOUS
  <2> HIDE DEF g
  <2>10. IsStaged(g, m + 1, A, a, turn)
    BY <2>6, <2>7, <2>8, <2>9 DEF IsStaged
  <2>11. QED
    BY <1>2, <2>10
<1> HIDE DEF S
<1>3. 0 .. n \subseteq S
  BY <1>1, <1>2, InductiveUpTo
<1>4. QED
  BY <1>3 DEF S

(* A loop ends when each turn ends it or makes its variant smaller.        *)
LEMMA LoopEnds ==
  ASSUME NEW n \in Nat, NEW A, NEW f, NEW Over, NEW V,
         \A i \in 0 .. n : f[i] \in A,
         \A x \in A : V[x] \in Nat /\ (V[x] = 0 => x \in Over),
         V[f[0]] <= n,
         \A i \in 1 .. n : f[i] \in Over \/ (f[i - 1] \notin Over /\ V[f[i]] < V[f[i - 1]])
  PROVE  f[n] \in Over
<1> DEFINE S == {i \in 0 .. n : f[i] \in Over \/ V[f[i]] <= n - i}
<1>1. 0 \in S
  OBVIOUS
<1>2. ASSUME NEW i \in 0 .. n, i \in S, i < n
      PROVE  i + 1 \in S
  <2>1. i + 1 \in 1 .. n /\ i + 1 \in 0 .. n /\ (i + 1) - 1 = i
    BY <1>2
  <2>2. PICK v \in Nat : v = V[f[i]]
    OBVIOUS
  <2>3. PICK w \in Nat : w = V[f[i + 1]]
    BY <2>1
  <2>4. f[i + 1] \in Over \/ (w < v /\ v <= n - i)
    BY <1>2, <2>1, <2>2, <2>3
  <2>5. QED
    BY <2>1, <2>3, <2>4
<1> HIDE DEF S
<1>3. n \in S
  BY <1>1, <1>2, InductiveUpTo
<1>4. CASE f[n] \notin Over
  <2>1. V[f[n]] \in Nat /\ V[f[n]] <= n - n
    BY <1>3, <1>4 DEF S
  <2>2. V[f[n]] = 0
    BY <2>1
  <2>3. QED
    BY <2>2
<1>5. QED
  BY <1>4

==============================================================================
