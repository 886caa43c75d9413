-------------------------- MODULE SyntaxTreeProofs --------------------------
(***************************************************************************)
(* Proofs about SyntaxTree: for every tree, text and edit, what            *)
(* ts_tree_edit and ts_parser_parse leave is a tree.                       *)
(***************************************************************************)
EXTENDS SyntaxTree, Induction, SequenceTheorems, FiniteSetTheorems

(***************************************************************************)
(* Lengths, least and greatest elements.                                   *)
(***************************************************************************)
LEMMA Wraps ==
  ASSUME NEW w \in Nat \ {0}, NEW x \in 0 .. w - 1, NEW y \in 0 .. w - 1
  PROVE  /\ (x + y) % w = IF x + y < w THEN x + y ELSE x + y - w
         /\ (x - y) % w = IF y <= x THEN x - y ELSE x - y + w
<1>1. \A a \in 0 .. w - 1 : a % w = a
  OBVIOUS
<1>2. \A a \in w .. 2 * w - 1 : a % w = a - w
  OBVIOUS
<1>3. \A a \in -w .. -1 : a % w = a + w
  OBVIOUS
<1>4. /\ x + y < w => x + y \in 0 .. w - 1
      /\ ~(x + y < w) => x + y \in w .. 2 * w - 1
      /\ y <= x => x - y \in 0 .. w - 1
      /\ ~(y <= x) => x - y \in -w .. -1
  OBVIOUS
<1>5. QED
  BY <1>1, <1>2, <1>3, <1>4

(* The width of a position.                                                *)
LEMMA WidthIsPositive == Width \in Nat \ {0}
  BY DEF Width

(* Sums and differences of lengths are lengths, and wrap.                  *)
LEMMA LengthFacts ==
  ASSUME NEW x \in Lengths, NEW y \in Lengths
  PROVE  /\ length_add(x, y) \in Lengths
         /\ length_sub(x, y) \in Lengths
         /\ length_add(x, y).b = IF x.b + y.b < Width THEN x.b + y.b ELSE x.b + y.b - Width
         /\ length_sub(x, y).b = IF y.b <= x.b THEN x.b - y.b ELSE x.b - y.b + Width
<1>1. x.b \in 0 .. Width - 1 /\ y.b \in 0 .. Width - 1 /\ x.r \in Nat /\ y.r \in Nat
  BY DEF Lengths
<1>2. /\ (x.b + y.b) % Width = IF x.b + y.b < Width THEN x.b + y.b ELSE x.b + y.b - Width
      /\ (x.b - y.b) % Width = IF y.b <= x.b THEN x.b - y.b ELSE x.b - y.b + Width
  BY <1>1, WidthIsPositive, Wraps
<1>3. (x.b + y.b) % Width \in 0 .. Width - 1 /\ (x.b - y.b) % Width \in 0 .. Width - 1
  BY <1>1, <1>2, WidthIsPositive
<1>4. QED
  BY <1>1, <1>2, <1>3 DEF length_add, length_sub, Lengths

(* The zero length is a length.                                            *)
LEMMA ZeroIsLength == Zero \in Lengths /\ Zero.b = 0
  BY DEF Zero, Lengths, Width

(* The least element of a set of numbers.                                  *)
LEMMA MinIs ==
  ASSUME NEW T \in SUBSET Nat, T # {}
  PROVE  Min(T) \in T /\ \A x \in T : Min(T) <= x
  BY LeastElement DEF Min

(* The greatest element of a bounded set of numbers.                       *)
LEMMA MaxIs ==
  ASSUME NEW n \in Nat, NEW T \in SUBSET (0 .. n), T # {}
  PROVE  Max(T) \in T /\ \A x \in T : x <= Max(T)
<1>1. \E x \in T : \A y \in T : x >= y
  BY GreatestElement
<1>2. Max(T) \in T /\ \A x \in T : Max(T) >= x
  BY <1>1 DEF Max
<1>3. QED
  BY <1>2

(***************************************************************************)
(* Forests.                                                                *)
(***************************************************************************)
LEMMA NodeFacts ==
  ASSUME NEW t, IsForest(t), NEW i \in DOMAIN t
  PROVE  /\ Len(t) \in Nat /\ DOMAIN t = 1 .. Len(t) /\ i \in Nat
         /\ t[i] \in TreeNode /\ t[i].node_count \in Nat \ {0}
         /\ t[i].pad \in Lengths /\ t[i].size \in Lengths /\ t[i].look \in Nat
         /\ Total(t[i]) \in Lengths
         /\ Beyond(t, i) \in i + 1 .. Len(t) + 1
         /\ Leaf(t[i]) <=> Beyond(t, i) = i + 1
         /\ Below(t, i) = {j \in 1 .. Len(t) : i < j /\ j < Beyond(t, i)}
         /\ ~Leaf(t[i]) => i + 1 \in Below(t, i)
<1>1. t \in Seq(TreeNode) /\ Beyond(t, i) <= Len(t) + 1
  BY DEF IsForest
<1>2. Len(t) \in Nat /\ DOMAIN t = 1 .. Len(t) /\ t[i] \in TreeNode /\ i \in 1 .. Len(t)
  BY <1>1
<1>3. /\ t[i].node_count \in Nat \ {0} /\ t[i].pad \in Lengths /\ t[i].size \in Lengths
      /\ t[i].look \in Nat
  BY <1>2 DEF TreeNode
<1>4. Total(t[i]) \in Lengths
  BY <1>3, LengthFacts DEF Total
<1>5. Beyond(t, i) \in i + 1 .. Len(t) + 1 /\ (Leaf(t[i]) <=> Beyond(t, i) = i + 1)
  BY <1>1, <1>2, <1>3 DEF Beyond, Leaf
<1>6. Below(t, i) = {j \in 1 .. Len(t) : i < j /\ j < Beyond(t, i)}
  BY <1>2, <1>5 DEF Below
<1>7. QED
  BY <1>2, <1>3, <1>4, <1>5, <1>6

(* Subtrees are nested or apart.                                           *)
LEMMA Nested ==
  ASSUME NEW t, IsForest(t), NEW i \in DOMAIN t, NEW j \in DOMAIN t, i < j
  PROVE  Beyond(t, i) <= j \/ Beyond(t, j) <= Beyond(t, i)
<1>1. CASE j \in Below(t, i)
  BY <1>1 DEF IsForest
<1>2. CASE j \notin Below(t, i)
  BY <1>2, NodeFacts
<1>3. QED
  BY <1>1, <1>2

(* A node after a leaf has a sibling or an uncle before it, or whatever    *)
(* the leaf is the end of.                                                 *)
LEMMA BeforeIs ==
  ASSUME NEW t, IsForest(t), NEW j \in 2 .. Len(t) + 1, Leaf(t[j - 1])
  PROVE  /\ Before(t, j) \in 1 .. j - 1 /\ Before(t, j) \in DOMAIN t
         /\ Beyond(t, Before(t, j)) = j
         /\ \A i \in 1 .. j - 1 : Beyond(t, i) = j => Before(t, j) <= i
<1> DEFINE T == {i \in 1 .. j - 1 : Beyond(t, i) = j}
<1>1. Len(t) \in Nat /\ DOMAIN t = 1 .. Len(t)
  BY DEF IsForest
<1>2. j - 1 \in DOMAIN t /\ j - 1 \in 1 .. j - 1 /\ (j - 1) + 1 = j
  BY <1>1
<1>3. Beyond(t, j - 1) = j
  BY <1>2, NodeFacts
<1>4. T \in SUBSET Nat /\ T # {}
  BY <1>2, <1>3
<1>5. Before(t, j) = Min(T)
  BY DEF Before
<1> HIDE DEF T
<1>6. Min(T) \in T /\ \A x \in T : Min(T) <= x
  BY <1>4, MinIs
<1>7. QED
  BY <1>1, <1>5, <1>6 DEF T

(***************************************************************************)
(* Starts.                                                                 *)
(***************************************************************************)
LEMMA StartOfTyped ==
  ASSUME NEW t, IsForest(t), NEW j \in 1 .. Len(t) + 1, NEW s \in Seq(Lengths), Len(s) >= j - 1
  PROVE  StartOf(t, s, j) \in Lengths
<1>1. Len(t) \in Nat
  BY DEF IsForest
<1>2. CASE j = 1
  BY <1>2, ZeroIsLength DEF StartOf
<1>3. CASE j > 1 /\ ~Leaf(t[j - 1])
  <2>1. j - 1 \in 1 .. Len(s)
    BY <1>1, <1>3
  <2>2. s[j - 1] \in Lengths
    BY <2>1
  <2>3. QED
    BY <1>3, <2>2 DEF StartOf
<1>4. CASE j > 1 /\ Leaf(t[j - 1])
  <2>1. j \in 2 .. Len(t) + 1
    BY <1>1, <1>4
  <2>2. Before(t, j) \in 1 .. j - 1 /\ Before(t, j) \in DOMAIN t
    BY <1>4, <2>1, BeforeIs
  <2>3. s[Before(t, j)] \in Lengths /\ Total(t[Before(t, j)]) \in Lengths
    BY <2>1, <2>2, NodeFacts
  <2>4. StartOf(t, s, j) = length_add(s[Before(t, j)], Total(t[Before(t, j)]))
    BY <1>4, <2>1 DEF StartOf
  <2>5. QED
    BY <2>3, <2>4, LengthFacts
<1>5. QED
  BY <1>1, <1>2, <1>3, <1>4

(* The starts of nodes are gathered one by one.                            *)
LEMMA StartsTurns ==
  ASSUME NEW t, NEW n \in Nat, n = Len(t) + 1, NEW A, NEW a \in A[0], a = <<>>,
         \A k \in 1 .. n : \A x \in A[k - 1] : WithStart(t, x, k) \in A[k]
  PROVE  \E loop : /\ \A k \in 0 .. n : loop[k] \in A[k]
                   /\ loop[0] = a
                   /\ \A k \in 1 .. n : loop[k] = WithStart(t, loop[k - 1], k)
                   /\ Starts(t) = loop[n]
<1> DEFINE D == UNION {A[k] : k \in 0 .. n}
           turn == [p \in (1 .. n) \X D |-> WithStart(t, p[2], p[1])]
           Body(g) == [k \in 0 .. n |-> IF k = 0 THEN a ELSE WithStart(t, g[k - 1], k)]
           loop == CHOOSE g : g = Body(g)
<1>1. ASSUME NEW k \in 1 .. n, NEW x \in A[k - 1]
      PROVE  turn[<<k, x>>] = WithStart(t, x, k)
  <2>1. k - 1 \in 0 .. n
    OBVIOUS
  <2>2. <<k, x>> \in (1 .. n) \X D
    BY <2>1
  <2>3. QED
    BY <2>2
<1>2. PICK f : IsStaged(f, n, A, a, turn)
  <2> HIDE DEF turn
  <2>1. QED
    BY <1>1, StagedIteration
<1>3. f = Body(f)
  <2> DEFINE g == Body(f)
  <2>1. ASSUME NEW k \in 1 .. n
        PROVE  f[k] = WithStart(t, f[k - 1], k)
    <3>1. k - 1 \in 0 .. n /\ f[k - 1] \in A[k - 1] /\ f[k] = turn[<<k, f[k - 1]>>]
      <4> HIDE DEF turn
      <4>1. k - 1 \in 0 .. n
        OBVIOUS
      <4>2. QED
        BY <1>2, <4>1 DEF IsStaged
    <3>2. QED
      <4> HIDE DEF turn
      <4>1. QED
        BY <1>1, <3>1
  <2>2. ASSUME NEW k \in 0 .. n
        PROVE  f[k] = g[k]
    <3>1. CASE k = 0
      <4>1. f[0] = a
        BY <1>2 DEF IsStaged
      <4>2. g[0] = a
        OBVIOUS
      <4>3. QED
        BY <3>1, <4>1, <4>2
    <3>2. CASE k # 0
      <4>1. k \in 1 .. n
        BY <3>2
      <4>2. g[k] = WithStart(t, f[k - 1], k)
        BY <3>2
      <4>3. QED
        BY <2>1, <4>1, <4>2
    <3>3. QED
      BY <3>1, <3>2
  <2>3. f = [k \in 0 .. n |-> f[k]]
    BY <1>2 DEF IsStaged
  <2>4. g = [k \in 0 .. n |-> g[k]]
    OBVIOUS
  <2> HIDE DEF g
  <2>5. f = g
    BY <2>2, <2>3, <2>4
  <2>6. QED
    BY <2>5 DEF g
<1> HIDE DEF turn
<1>4. loop = Body(loop)
  <2> HIDE DEF Body
  <2>1. QED
    BY <1>3
<1>5. Starts(t) = loop[n]
  BY DEF Starts
<1> HIDE DEF loop
<1>6. loop[0] = a
  <2> DEFINE g == Body(loop)
  <2>1. g[0] = a
    OBVIOUS
  <2>2. QED
    BY <1>4, <2>1
<1>7. ASSUME NEW k \in 1 .. n
      PROVE  loop[k] = WithStart(t, loop[k - 1], k)
  <2> DEFINE g == Body(loop)
  <2>1. g[k] = WithStart(t, loop[k - 1], k)
    OBVIOUS
  <2>2. QED
    BY <1>4, <2>1
<1>8. \A k \in 0 .. n : loop[k] \in A[k]
  <2> DEFINE S == {k \in 0 .. n : loop[k] \in A[k]}
  <2>1. 0 \in S
    BY <1>6
  <2>2. ASSUME NEW k \in 0 .. n, k \in S, k < n
        PROVE  k + 1 \in S
    <3>1. k + 1 \in 1 .. n /\ (k + 1) - 1 = k
      BY <2>2
    <3>2. loop[k + 1] = WithStart(t, loop[k], k + 1) /\ loop[k] \in A[k]
      BY <1>7, <2>2, <3>1
    <3>3. QED
      BY <2>2, <3>1, <3>2
  <2> HIDE DEF S
  <2>3. 0 .. n \subseteq S
    BY <2>1, <2>2, InductiveUpTo
  <2>4. QED
    BY <2>3 DEF S
<1>9. QED
  BY <1>5, <1>6, <1>7, <1>8

(* What StartOf adds rests on the starts of the nodes before only.         *)
LEMMA StartOfLocal ==
  ASSUME NEW t, IsForest(t), NEW j \in 1 .. Len(t) + 1, NEW s, NEW u,
         \A i \in 1 .. j - 1 : s[i] = u[i]
  PROVE  StartOf(t, s, j) = StartOf(t, u, j)
<1>1. Len(t) \in Nat
  BY DEF IsForest
<1>2. CASE j = 1
  BY <1>2 DEF StartOf
<1>3. CASE j > 1 /\ ~Leaf(t[j - 1])
  <2>1. j - 1 \in 1 .. j - 1
    BY <1>1, <1>3
  <2>2. QED
    BY <1>3, <2>1 DEF StartOf
<1>4. CASE j > 1 /\ Leaf(t[j - 1])
  <2>1. j \in 2 .. Len(t) + 1
    BY <1>1, <1>4
  <2>2. Before(t, j) \in 1 .. j - 1
    BY <1>4, <2>1, BeforeIs
  <2>3. s[Before(t, j)] = u[Before(t, j)]
    BY <2>2
  <2>4. /\ StartOf(t, s, j) = length_add(s[Before(t, j)], Total(t[Before(t, j)]))
        /\ StartOf(t, u, j) = length_add(u[Before(t, j)], Total(t[Before(t, j)]))
    BY <1>4, <2>1 DEF StartOf
  <2>5. QED
    BY <2>3, <2>4
<1>5. QED
  BY <1>1, <1>2, <1>3, <1>4

(* Starts gives each node where it begins, in terms of the nodes before    *)
(* it.                                                                     *)
LEMMA StartsAre ==
  ASSUME NEW t, IsForest(t)
  PROVE  /\ Starts(t) \in Seq(Lengths)
         /\ Len(Starts(t)) = Len(t) + 1
         /\ \A j \in 1 .. Len(t) + 1 : /\ Starts(t)[j] \in Lengths
                                       /\ Starts(t)[j] = StartOf(t, Starts(t), j)
<1> DEFINE n == Len(t) + 1
           A == [k \in 0 .. n |-> {s \in Seq(Lengths) :
                   Len(s) = k /\ \A j \in 1 .. k : s[j] = StartOf(t, s, j)}]
<1>1. n \in Nat /\ Len(t) \in Nat
  BY DEF IsForest
<1>2. <<>> \in A[0]
  BY <1>1
<1>3. ASSUME NEW k \in 1 .. n, NEW s \in A[k - 1]
      PROVE  WithStart(t, s, k) \in A[k]
  <2>1. k - 1 \in 0 .. n
    BY <1>1
  <2>2. s \in Seq(Lengths) /\ Len(s) = k - 1 /\ \A j \in 1 .. k - 1 : s[j] = StartOf(t, s, j)
    BY <2>1
  <2>3. StartOf(t, s, k) \in Lengths
    BY <1>1, <2>2, StartOfTyped
  <2>4. PICK x \in Lengths : x = StartOf(t, s, k)
    BY <2>3
  <2>5. PICK u : u = WithStart(t, s, k)
    OBVIOUS
  <2>6. u = Append(s, x)
    BY <2>4, <2>5 DEF WithStart
  <2>7. u \in Seq(Lengths) /\ Len(u) = k
    BY <1>1, <2>2, <2>6, AppendProperties
  <2>8. \A j \in 1 .. k - 1 : u[j] = s[j]
    BY <2>2, <2>6, AppendProperties
  <2>9. u[k] = x
    BY <1>1, <2>2, <2>6, AppendProperties
  <2>10. ASSUME NEW j \in 1 .. k
         PROVE  u[j] = StartOf(t, u, j)
    <3>1. j \in 1 .. Len(t) + 1 /\ \A i \in 1 .. j - 1 : i \in 1 .. k - 1
      BY <1>1
    <3>2. StartOf(t, u, j) = StartOf(t, s, j)
      <4>1. \A i \in 1 .. j - 1 : u[i] = s[i]
        BY <2>8, <3>1
      <4>2. QED
        BY <3>1, <4>1, StartOfLocal
    <3>3. CASE j = k
      BY <2>4, <2>9, <3>2, <3>3
    <3>4. CASE j # k
      <4>1. j \in 1 .. k - 1
        BY <1>1, <3>4
      <4>2. QED
        BY <2>2, <2>8, <3>2, <4>1
    <3>5. QED
      BY <3>3, <3>4
  <2>11. k \in 0 .. n
    BY <1>1
  <2>12. QED
    BY <2>5, <2>7, <2>10, <2>11
<1>4. Starts(t) \in A[n]
  <2>1. n \in 0 .. n
    BY <1>1
  <2> HIDE DEF A
  <2>2. PICK loop : (\A k \in 0 .. n : loop[k] \in A[k]) /\ Starts(t) = loop[n]
    BY <1>1, <1>2, <1>3, StartsTurns
  <2>3. QED
    BY <2>1, <2>2
<1>5. n \in 0 .. n
  BY <1>1
<1>6. Starts(t) \in Seq(Lengths) /\ Len(Starts(t)) = n
      /\ \A j \in 1 .. n : Starts(t)[j] = StartOf(t, Starts(t), j)
  BY <1>4, <1>5
<1>7. QED
  BY <1>1, <1>6

(* Addition of positions that wraps, without a remainder.                  *)
Plus(x, y) == IF x + y < Width THEN x + y ELSE x + y - Width

Positions == 0 .. Width - 1

(* Plus is addition modulo the width.                                      *)
LEMMA PlusFacts ==
  ASSUME NEW x \in Positions, NEW y \in Positions
  PROVE  /\ Plus(x, y) \in Positions
         /\ Plus(x, y) = IF x + y < Width THEN x + y ELSE x + y - Width
         /\ (x + y) % Width = Plus(x, y)
<1>1. Width \in Nat \ {0} /\ x \in Nat /\ y \in Nat /\ x < Width /\ y < Width
  BY WidthIsPositive DEF Positions
<1>2. (x + y) % Width = Plus(x, y)
  BY WidthIsPositive, Wraps DEF Plus, Positions
<1>3. QED
  BY <1>1, <1>2 DEF Plus, Positions

(* Zero is neutral.                                                        *)
LEMMA PlusZero ==
  ASSUME NEW x \in Positions
  PROVE  Plus(x, 0) = x /\ Plus(0, x) = x
  BY WidthIsPositive DEF Plus, Positions

(* Wrapping addition associates.                                           *)
LEMMA PlusAssociates ==
  ASSUME NEW x \in Positions, NEW y \in Positions, NEW z \in Positions
  PROVE  Plus(x, Plus(y, z)) = Plus(Plus(x, y), z)
  BY WidthIsPositive DEF Plus, Positions

(* The bytes of sums and differences of lengths.                           *)
LEMMA PlusLength ==
  ASSUME NEW x \in Lengths, NEW y \in Lengths
  PROVE  /\ x.b \in Positions
         /\ length_add(x, y) \in Lengths /\ length_add(x, y).b = Plus(x.b, y.b)
         /\ length_sub(x, y) \in Lengths /\ length_add(y, length_sub(x, y)).b = x.b
<1>1. x.b \in Positions /\ y.b \in Positions
  BY DEF Positions, Lengths
<1>2. length_add(x, y) \in Lengths /\ length_add(x, y).b = Plus(x.b, y.b)
  BY LengthFacts DEF Plus
<1>3. PICK z \in Lengths : z = length_sub(x, y)
  BY LengthFacts
<1>4. z.b \in Positions /\ z.b = IF y.b <= x.b THEN x.b - y.b ELSE x.b - y.b + Width
  BY <1>3, LengthFacts DEF Positions, Lengths
<1>5. length_add(y, z).b = IF y.b + z.b < Width THEN y.b + z.b ELSE y.b + z.b - Width
  BY LengthFacts
<1>6. length_add(y, z).b = x.b
  BY <1>1, <1>4, <1>5, WidthIsPositive DEF Positions
<1>7. QED
  BY <1>1, <1>2, <1>3, <1>6

(* The bytes of a sum.                                                     *)
LEMMA AddIsPlus ==
  ASSUME NEW x \in Lengths, NEW y \in Lengths, NEW z, z = length_add(x, y)
  PROVE  z.b = Plus(x.b, y.b)
  BY PlusLength

(* The step of Starts, by the three cases.                                 *)
LEMMA StartsStep ==
  ASSUME NEW t, IsForest(t)
  PROVE  /\ Starts(t)[1] = Zero
         /\ \A i \in DOMAIN t : ~Leaf(t[i]) => Starts(t)[i + 1] = Starts(t)[i]
         /\ \A j \in 2 .. Len(t) + 1 : Leaf(t[j - 1]) =>
              Starts(t)[j] = length_add(Starts(t)[Before(t, j)], Total(t[Before(t, j)]))
<1>1. Len(t) \in Nat /\ DOMAIN t = 1 .. Len(t)
  BY DEF IsForest
<1>2. Starts(t)[1] = Zero
  <2>1. 1 \in 1 .. Len(t) + 1
    BY <1>1
  <2>2. QED
    BY <2>1, StartsAre DEF StartOf
<1>3. ASSUME NEW i \in DOMAIN t, ~Leaf(t[i])
      PROVE  Starts(t)[i + 1] = Starts(t)[i]
  <2>1. i + 1 \in 1 .. Len(t) + 1 /\ (i + 1) - 1 = i /\ i + 1 > 1 /\ i + 1 # 1
    BY <1>1
  <2>2. Starts(t)[i + 1] = StartOf(t, Starts(t), i + 1)
    BY <2>1, StartsAre
  <2>3. QED
    BY <1>3, <2>1, <2>2 DEF StartOf
<1>4. ASSUME NEW j \in 2 .. Len(t) + 1, Leaf(t[j - 1])
      PROVE  Starts(t)[j] = length_add(Starts(t)[Before(t, j)], Total(t[Before(t, j)]))
  <2>1. j \in 1 .. Len(t) + 1 /\ j # 1
    BY <1>1
  <2>2. Starts(t)[j] = StartOf(t, Starts(t), j)
    BY <2>1, StartsAre
  <2>3. QED
    BY <1>4, <2>1, <2>2 DEF StartOf
<1>5. QED
  BY <1>2, <1>3, <1>4

(* The trees of a stack from the d-th node on, beyond the trees before.    *)
IsSlice(t, u, d) ==
  /\ IsForest(t) /\ IsForest(u) /\ d \in Nat /\ d + Len(u) <= Len(t)
  /\ \A k \in 1 .. Len(u) : u[k] = t[d + k]
  /\ \A i \in 1 .. d : Beyond(t, i) <= d + 1

(* The sibling before a node is the same in a stack of trees and in the    *)
(* stack of its last trees.                                                *)
LEMMA BeforeInSlice ==
  ASSUME NEW t, NEW u, NEW d, IsSlice(t, u, d), NEW k \in 2 .. Len(u) + 1, Leaf(u[k - 1])
  PROVE  /\ Leaf(t[d + k - 1])
         /\ Before(t, d + k) = d + Before(u, k)
         /\ Before(u, k) \in 1 .. k - 1 /\ Before(u, k) \in DOMAIN u
         /\ t[d + Before(u, k)] = u[Before(u, k)]
<1>0. /\ IsForest(t) /\ IsForest(u) /\ d \in Nat /\ d + Len(u) <= Len(t)
      /\ \A i \in 1 .. Len(u) : u[i] = t[d + i]
      /\ \A i \in 1 .. d : Beyond(t, i) <= d + 1
  BY DEF IsSlice
<1>1. /\ Len(t) \in Nat /\ DOMAIN t = 1 .. Len(t)
      /\ Len(u) \in Nat /\ DOMAIN u = 1 .. Len(u)
  BY <1>0 DEF IsForest
<1>2. k - 1 \in 1 .. Len(u) /\ d + (k - 1) = d + k - 1
  BY <1>0, <1>1
<1>3. Leaf(t[d + k - 1])
  BY <1>0, <1>2
<1>4. PICK x : x = Before(u, k)
  OBVIOUS
<1>5. /\ x \in 1 .. k - 1 /\ x \in 1 .. Len(u) /\ Beyond(u, x) = k
      /\ \A i \in 1 .. k - 1 : Beyond(u, i) = k => x <= i
  BY <1>0, <1>1, <1>4, BeforeIs
<1>6. \A i \in 1 .. Len(u) : Beyond(t, d + i) = d + Beyond(u, i)
  <2> SUFFICES ASSUME NEW i \in 1 .. Len(u)
               PROVE  Beyond(t, d + i) = d + Beyond(u, i)
    OBVIOUS
  <2>1. u[i] = t[d + i] /\ u[i].node_count \in Nat
    BY <1>0, <1>1, NodeFacts
  <2>2. QED
    BY <1>0, <1>1, <2>1 DEF Beyond
<1>7. d + k \in 2 .. Len(t) + 1 /\ (d + k) - 1 = d + k - 1
  BY <1>0, <1>1
<1>8. PICK y : y = Before(t, d + k)
  OBVIOUS
<1>9. /\ y \in 1 .. d + k - 1 /\ y \in 1 .. Len(t) /\ Beyond(t, y) = d + k
      /\ \A i \in 1 .. d + k - 1 : Beyond(t, i) = d + k => y <= i
  BY <1>0, <1>1, <1>3, <1>7, <1>8, BeforeIs
<1>10. y > d
  BY <1>0, <1>1, <1>9
<1>11. PICK z \in 1 .. k - 1 : y = d + z
  <2>1. y - d \in 1 .. k - 1 /\ y = d + (y - d)
    BY <1>0, <1>1, <1>9, <1>10
  <2>2. QED
    BY <2>1
<1>12. Beyond(u, z) = k
  <2>1. z \in 1 .. Len(u)
    BY <1>0, <1>1, <1>11
  <2>2. Beyond(t, d + z) = d + Beyond(u, z) /\ Beyond(u, z) \in Nat
    BY <1>0, <1>1, <1>6, <2>1, NodeFacts
  <2>3. QED
    BY <1>0, <1>1, <1>9, <1>11, <2>2
<1>13. x <= z
  BY <1>0, <1>1, <1>5, <1>12
<1>14. Beyond(t, d + x) = d + k /\ d + x \in 1 .. d + k - 1
  BY <1>0, <1>1, <1>5, <1>6
<1>15. z <= x
  BY <1>0, <1>1, <1>9, <1>11, <1>14, <1>5
<1>16. x = z
  BY <1>0, <1>1, <1>5, <1>11, <1>13, <1>15
<1>17. QED
  BY <1>0, <1>1, <1>3, <1>4, <1>5, <1>8, <1>11, <1>16

(* The last trees of a stack begin as they do alone, moved by what lies    *)
(* before them.                                                            *)
LEMMA StartsOfSlice ==
  ASSUME NEW t, NEW u, NEW d, IsSlice(t, u, d), NEW k \in 1 .. Len(u) + 1
  PROVE  Starts(t)[d + k].b = Plus(Starts(t)[d + 1].b, Starts(u)[k].b)
<1>0. /\ IsForest(t) /\ IsForest(u) /\ d \in Nat /\ d + Len(u) <= Len(t)
      /\ \A i \in 1 .. Len(u) : u[i] = t[d + i]
      /\ \A i \in 1 .. d : Beyond(t, i) <= d + 1
  BY DEF IsSlice
<1> DEFINE Ok(j) == Starts(t)[d + j].b = Plus(Starts(t)[d + 1].b, Starts(u)[j].b)
           S == {m \in 0 .. Len(u) : \A j \in 1 .. m + 1 : Ok(j)}
<1>1. /\ Len(t) \in Nat /\ DOMAIN t = 1 .. Len(t)
      /\ Len(u) \in Nat /\ DOMAIN u = 1 .. Len(u)
  BY <1>0 DEF IsForest
<1>2. \A j \in 1 .. Len(t) + 1 : Starts(t)[j] \in Lengths /\ Starts(t)[j].b \in Positions
  BY <1>0, StartsAre, PlusLength
<1>3. \A j \in 1 .. Len(u) + 1 : Starts(u)[j] \in Lengths /\ Starts(u)[j].b \in Positions
  BY <1>0, StartsAre, PlusLength
<1>4. PICK a \in Positions : a = Starts(t)[d + 1].b
  <2>1. d + 1 \in 1 .. Len(t) + 1
    BY <1>0, <1>1
  <2>2. QED
    BY <1>2, <2>1
<1>5. 0 \in S
  <2>1. Starts(u)[1].b = 0
    BY <1>0, StartsStep, ZeroIsLength
  <2>2. Ok(1)
    BY <1>4, <2>1, PlusZero
  <2>3. \A j \in 1 .. 0 + 1 : j = 1
    OBVIOUS
  <2> HIDE DEF Ok
  <2>4. QED
    BY <1>0, <1>1, <2>2, <2>3
<1>6. ASSUME NEW m \in 0 .. Len(u), m \in S, m < Len(u)
      PROVE  m + 1 \in S
  <2>0. PICK j \in Int : j = m + 2
    OBVIOUS
  <2>1. /\ m \in Nat /\ m + 1 \in 1 .. Len(u) /\ j \in 2 .. Len(u) + 1 /\ j - 1 = m + 1
        /\ d + j \in 2 .. Len(t) + 1
        /\ d + (m + 1) \in DOMAIN t /\ (d + (m + 1)) + 1 = d + j
    BY <1>0, <1>1, <1>6, <2>0
  <2>2. u[m + 1] = t[d + (m + 1)]
    BY <1>0, <2>1
  <2>3. ASSUME ~Leaf(u[m + 1]) PROVE Ok(j)
    <3>1. Starts(u)[(m + 1) + 1] = Starts(u)[m + 1]
      BY <1>0, <1>1, <2>1, <2>3, StartsStep
    <3>2. Starts(t)[(d + (m + 1)) + 1] = Starts(t)[d + (m + 1)]
      BY <1>0, <1>1, <2>1, <2>2, <2>3, StartsStep
    <3>3. Ok(m + 1)
      <4> HIDE DEF Ok
      <4>1. QED
        BY <1>6, <2>1
    <3>4. (m + 1) + 1 = j
      BY <1>0, <2>1
    <3>5. QED
      BY <2>1, <3>1, <3>2, <3>3, <3>4
  <2>4. ASSUME Leaf(u[m + 1]) PROVE Ok(j)
    <3>1. PICK x : x = Before(u, j)
      OBVIOUS
    <3>2. /\ Leaf(t[d + j - 1]) /\ Before(t, d + j) = d + x
          /\ x \in 1 .. j - 1 /\ x \in DOMAIN u /\ t[d + x] = u[x]
      <4>1. Leaf(u[j - 1])
        BY <2>1, <2>4
      <4>2. QED
        BY <2>1, <3>1, <4>1, BeforeInSlice
    <3>3. PICK g \in Positions : g = Total(u[x]).b
      <4>1. Total(u[x]) \in Lengths
        BY <1>0, <3>2, NodeFacts
      <4>2. QED
        BY <4>1, PlusLength
    <3>4. PICK y \in Positions : y = Starts(u)[x].b
      <4>1. x \in 1 .. Len(u) + 1
        BY <1>0, <1>1, <3>2
      <4>2. QED
        BY <1>3, <4>1
    <3>5. Starts(u)[j].b = Plus(y, g)
      <4>1. Starts(u)[x] \in Lengths /\ Total(u[x]) \in Lengths
        <5>1. Total(u[x]) \in Lengths
          BY <1>0, <3>2, NodeFacts
        <5>2. x \in 1 .. Len(u) + 1
          BY <1>0, <1>1, <3>2
        <5>3. QED
          BY <1>3, <5>1, <5>2
      <4>2. Starts(u)[j] = length_add(Starts(u)[x], Total(u[x]))
        BY <1>0, <2>1, <2>4, <3>1, StartsStep
      <4>3. Starts(u)[j].b = Plus(Starts(u)[x].b, Total(u[x]).b)
        BY <4>1, <4>2, AddIsPlus
      <4>4. QED
        BY <3>3, <3>4, <4>3
    <3>6. Starts(t)[d + x].b = Plus(a, y)
      <4>1. x \in 1 .. m + 1
        BY <2>1, <3>2
      <4>2. Ok(x)
        <5> HIDE DEF Ok
        <5>1. QED
          BY <1>6, <4>1
      <4>3. QED
        BY <1>4, <3>4, <4>2
    <3>7. Starts(t)[d + j].b = Plus(Plus(a, y), g)
      <4>1. d + x \in 1 .. Len(t)
        BY <1>0, <1>1, <3>2
      <4>2. Starts(t)[d + x] \in Lengths /\ Total(t[d + x]) \in Lengths
        BY <1>0, <1>1, <1>2, <4>1, NodeFacts
      <4>3. (d + j) - 1 = d + j - 1
        BY <1>0, <2>1
      <4>4. Starts(t)[d + j] = length_add(Starts(t)[d + x], Total(t[d + x]))
        BY <1>0, <2>1, <3>2, <4>3, StartsStep
      <4>5. Starts(t)[d + j].b = Plus(Starts(t)[d + x].b, Total(t[d + x]).b)
        BY <4>2, <4>4, AddIsPlus
      <4>6. QED
        BY <3>2, <3>3, <3>6, <4>5
    <3>8. QED
      BY <1>4, <3>5, <3>7, PlusAssociates
  <2>5. \A i \in 1 .. (m + 1) + 1 : i \in 1 .. m + 1 \/ i = j
    BY <1>0, <2>1
  <2>6. Ok(j)
    BY <2>3, <2>4
  <2> HIDE DEF Ok
  <2>7. QED
    BY <1>0, <1>1, <1>6, <2>1, <2>5, <2>6
<1>7. k - 1 \in 0 .. Len(u) /\ k \in 1 .. (k - 1) + 1
  BY <1>0, <1>1
<1> HIDE DEF Ok
<1>8. k - 1 \in S
  <2> HIDE DEF S
  <2>1. 0 .. Len(u) \subseteq S
    BY <1>0, <1>1, <1>5, <1>6, InductiveUpTo
  <2>2. QED
    BY <1>7, <2>1
<1>9. QED
  BY <1>7, <1>8 DEF Ok

(* The starts of the first nodes are those of the stack before more trees  *)
(* come onto it.                                                           *)
SameUpTo(t, u, n) ==
  /\ IsForest(t) /\ IsForest(u) /\ n \in Nat /\ n <= Len(t) /\ n <= Len(u)
  /\ \A i \in 1 .. n : t[i] = u[i]

(* The sibling before a node is the same in two stacks that agree up to    *)
(* it.                                                                     *)
LEMMA BeforeInPrefix ==
  ASSUME NEW t, NEW u, NEW n, SameUpTo(t, u, n), NEW j \in 2 .. n + 1, Leaf(t[j - 1])
  PROVE  /\ Leaf(u[j - 1]) /\ Before(t, j) = Before(u, j)
         /\ Before(t, j) \in 1 .. j - 1 /\ t[Before(t, j)] = u[Before(t, j)]
         /\ Before(t, j) \in DOMAIN t /\ Before(t, j) \in DOMAIN u
<1>0. /\ IsForest(t) /\ IsForest(u) /\ n \in Nat /\ n <= Len(t) /\ n <= Len(u)
      /\ \A i \in 1 .. n : t[i] = u[i]
  BY DEF SameUpTo
<1>1. Len(t) \in Nat /\ DOMAIN t = 1 .. Len(t) /\ Len(u) \in Nat /\ DOMAIN u = 1 .. Len(u)
  BY <1>0 DEF IsForest
<1>2. j \in 2 .. Len(t) + 1 /\ j \in 2 .. Len(u) + 1 /\ j - 1 \in 1 .. n
  BY <1>0, <1>1
<1>3. Leaf(u[j - 1])
  BY <1>0, <1>2
<1>4. \A i \in 1 .. j - 1 : Beyond(t, i) = Beyond(u, i) /\ t[i] = u[i]
  BY <1>0, <1>2 DEF Beyond
<1>5. PICK x : x = Before(t, j)
  OBVIOUS
<1>6. PICK y : y = Before(u, j)
  OBVIOUS
<1>7. /\ x \in 1 .. j - 1 /\ x \in DOMAIN t /\ Beyond(t, x) = j
      /\ \A i \in 1 .. j - 1 : Beyond(t, i) = j => x <= i
  BY <1>0, <1>2, <1>5, BeforeIs
<1>8. /\ y \in 1 .. j - 1 /\ y \in DOMAIN u /\ Beyond(u, y) = j
      /\ \A i \in 1 .. j - 1 : Beyond(u, i) = j => y <= i
  BY <1>0, <1>2, <1>3, <1>6, BeforeIs
<1>9. x <= y /\ y <= x
  BY <1>4, <1>7, <1>8
<1>10. x = y
  BY <1>7, <1>8, <1>9
<1>11. QED
  BY <1>1, <1>3, <1>4, <1>5, <1>6, <1>7, <1>8, <1>10

(* Nodes begin at the same place in two stacks that agree before them.     *)
LEMMA StartsOfPrefix ==
  ASSUME NEW t, NEW u, NEW n, SameUpTo(t, u, n), NEW k \in 1 .. n + 1
  PROVE  Starts(t)[k] = Starts(u)[k]
<1>0. /\ IsForest(t) /\ IsForest(u) /\ n \in Nat /\ n <= Len(t) /\ n <= Len(u)
      /\ \A i \in 1 .. n : t[i] = u[i]
  BY DEF SameUpTo
<1>1. Len(t) \in Nat /\ DOMAIN t = 1 .. Len(t) /\ Len(u) \in Nat /\ DOMAIN u = 1 .. Len(u)
  BY <1>0 DEF IsForest
<1> DEFINE Ok(j) == Starts(t)[j] = Starts(u)[j]
           S == {m \in 0 .. n : \A j \in 1 .. m + 1 : Ok(j)}
<1>2. 0 \in S
  <2>1. Ok(1)
    BY <1>0, StartsStep
  <2>2. \A j \in 1 .. 0 + 1 : j = 1
    OBVIOUS
  <2> HIDE DEF Ok
  <2>3. QED
    BY <1>0, <2>1, <2>2
<1>3. ASSUME NEW m \in 0 .. n, m \in S, m < n
      PROVE  m + 1 \in S
  <2>1. PICK j \in Int : j = m + 2
    BY <1>0
  <2>2. /\ m \in Nat /\ m + 1 \in 1 .. n /\ j \in 2 .. n + 1 /\ j - 1 = m + 1 /\ (m + 1) + 1 = j
        /\ j \in 2 .. Len(t) + 1 /\ j \in 2 .. Len(u) + 1
        /\ m + 1 \in DOMAIN t /\ m + 1 \in DOMAIN u
    BY <1>0, <1>1, <1>3, <2>1
  <2>3. ASSUME ~Leaf(t[m + 1])
        PROVE  Ok(j)
    <3>1. ~Leaf(u[m + 1])
      BY <1>0, <2>2, <2>3
    <3>2. Starts(t)[(m + 1) + 1] = Starts(t)[m + 1] /\ Starts(u)[(m + 1) + 1] = Starts(u)[m + 1]
      BY <1>0, <2>2, <2>3, <3>1, StartsStep
    <3>3. Ok(m + 1)
      <4> HIDE DEF Ok
      <4>1. QED
        BY <1>3, <2>2
    <3>4. QED
      BY <2>2, <3>2, <3>3
  <2>4. ASSUME Leaf(t[m + 1])
        PROVE  Ok(j)
    <3>1. Leaf(t[j - 1])
      BY <2>2, <2>4
    <3>2. PICK x : x = Before(t, j)
      OBVIOUS
    <3>3. Leaf(u[j - 1]) /\ x = Before(u, j) /\ x \in 1 .. j - 1 /\ t[x] = u[x]
      BY <2>2, <3>1, <3>2, BeforeInPrefix
    <3>4. Starts(t)[j] = length_add(Starts(t)[x], Total(t[x]))
      BY <1>0, <2>2, <3>1, <3>2, StartsStep
    <3>5. Starts(u)[j] = length_add(Starts(u)[x], Total(u[x]))
      BY <1>0, <2>2, <3>3, StartsStep
    <3>6. Ok(x)
      <4>1. x \in 1 .. m + 1
        BY <2>2, <3>3
      <4> HIDE DEF Ok
      <4>2. QED
        BY <1>3, <4>1
    <3>7. QED
      BY <3>3, <3>4, <3>5, <3>6
  <2>5. \A i \in 1 .. (m + 1) + 1 : i \in 1 .. m + 1 \/ i = j
    BY <2>2
  <2>6. Ok(j)
    BY <2>3, <2>4
  <2>7. m + 1 \in 0 .. n
    BY <1>0, <2>2
  <2> HIDE DEF Ok
  <2>8. QED
    BY <1>3, <2>5, <2>6, <2>7
<1>4. k - 1 \in 0 .. n /\ k \in 1 .. (k - 1) + 1
  BY <1>0
<1> HIDE DEF Ok
<1>5. k - 1 \in S
  <2> HIDE DEF S
  <2>1. 0 .. n \subseteq S
    BY <1>0, <1>2, <1>3, InductiveUpTo
  <2>2. QED
    BY <1>4, <2>1
<1>6. QED
  BY <1>4, <1>5 DEF Ok

(* A part of a stack that ends where its trees end is a stack of trees.    *)
LEMMA PartIsForest ==
  ASSUME NEW t, IsForest(t), NEW a \in 1 .. Len(t) + 1, NEW b \in a - 1 .. Len(t),
         \A i \in a .. b : Beyond(t, i) <= b + 1
  PROVE  /\ IsForest(SubSeq(t, a, b))
         /\ Len(SubSeq(t, a, b)) = b - a + 1
         /\ \A k \in 1 .. b - a + 1 : /\ SubSeq(t, a, b)[k] = t[a + k - 1]
                                      /\ Beyond(SubSeq(t, a, b), k) = Beyond(t, a + k - 1) - (a - 1)
<1>1. t \in Seq(TreeNode) /\ Len(t) \in Nat /\ DOMAIN t = 1 .. Len(t)
  BY DEF IsForest
<1>2. PICK u : u = SubSeq(t, a, b)
  OBVIOUS
<1>3. \A i \in a .. b : t[i] \in TreeNode
  BY <1>1
<1>4. u \in Seq(TreeNode) /\ Len(u) = IF a <= b THEN b - a + 1 ELSE 0
  BY <1>1, <1>2, <1>3, SubSeqProperties
<1>5. Len(u) = b - a + 1
  BY <1>1, <1>4
<1>6. ASSUME NEW k \in 1 .. b - a + 1
      PROVE  /\ u[k] = t[a + k - 1] /\ a + k - 1 \in a .. b
             /\ a + k - 1 \in DOMAIN t
  <2>1. a + k - 1 \in a .. b /\ a + k - 1 \in DOMAIN t
    BY <1>1
  <2>2. u[k] = t[a + k - 1]
    BY <1>1, <1>2, <1>3, <1>5, SubSeqProperties
  <2>3. QED
    BY <2>1, <2>2
<1>7. ASSUME NEW k \in 1 .. b - a + 1
      PROVE  Beyond(u, k) = Beyond(t, a + k - 1) - (a - 1) /\ Beyond(u, k) \in Nat
  <2>1. PICK c \in Nat \ {0} : c = t[a + k - 1].node_count
    BY <1>6, NodeFacts
  <2>2. u[k].node_count = c
    BY <1>6, <2>1
  <2>3. QED
    BY <1>1, <2>1, <2>2 DEF Beyond
<1>8. DOMAIN u = 1 .. b - a + 1
  BY <1>4, <1>5
<1>9. ASSUME NEW k \in DOMAIN u
      PROVE  /\ Beyond(u, k) <= Len(u) + 1
             /\ \A j \in Below(u, k) : Beyond(u, j) <= Beyond(u, k)
  <2>1. k \in 1 .. b - a + 1
    BY <1>8
  <2>2. Beyond(t, a + k - 1) <= b + 1 /\ Beyond(t, a + k - 1) \in Nat /\ a + k - 1 \in DOMAIN t
    BY <1>1, <1>6, <2>1, NodeFacts
  <2>3. Beyond(u, k) <= Len(u) + 1
    BY <1>1, <1>5, <1>7, <2>1, <2>2
  <2>4. ASSUME NEW j \in Below(u, k)
        PROVE  Beyond(u, j) <= Beyond(u, k)
    <3>0. PICK e \in Nat : e = Beyond(u, k)
      BY <1>7, <2>1
    <3>1. j \in 1 .. b - a + 1 /\ k < j /\ j < Beyond(u, k)
      <4>1. j \in k + 1 .. e - 1 /\ e <= Len(u) + 1
        BY <2>3, <2>4, <3>0 DEF Below
      <4>2. k \in Int /\ k >= 1 /\ b - a + 1 \in Int /\ Len(u) = b - a + 1
        BY <1>1, <1>5, <2>1
      <4>3. j \in 1 .. b - a + 1 /\ k < j /\ j < e
        BY <3>0, <4>1, <4>2
      <4>4. QED
        BY <3>0, <4>3
    <3>2. /\ a + j - 1 \in DOMAIN t /\ Beyond(u, j) = Beyond(t, a + j - 1) - (a - 1)
          /\ Beyond(u, k) = Beyond(t, a + k - 1) - (a - 1)
          /\ Beyond(t, a + j - 1) \in Nat
      <4>1. a + j - 1 \in DOMAIN t
        BY <1>6, <3>1
      <4>2. Beyond(t, a + j - 1) \in Nat
        BY <1>1, <4>1, NodeFacts
      <4>3. QED
        BY <1>7, <2>1, <3>1, <4>1, <4>2
    <3>3. a + j - 1 > a + k - 1 /\ a + j - 1 < Beyond(t, a + k - 1)
      <4>1. PICK x \in Int : x = Beyond(t, a + k - 1)
        BY <2>2
      <4>2. a \in Int /\ k \in Int /\ j \in Int
        BY <1>1, <2>1, <3>1
      <4>3. j > k /\ j < x - (a - 1)
        BY <3>1, <3>2, <4>1
      <4>4. a + j - 1 > a + k - 1 /\ a + j - 1 < x
        BY <4>1, <4>2, <4>3
      <4>5. QED
        BY <4>1, <4>4
    <3>4. a + j - 1 \in Below(t, a + k - 1)
      BY <1>1, <2>1, <2>2, <3>1, <3>3 DEF Below
    <3>5. Beyond(t, a + j - 1) <= Beyond(t, a + k - 1)
      BY <2>2, <3>4 DEF IsForest
    <3>6. QED
      BY <1>1, <2>2, <3>2, <3>5
  <2>5. QED
    BY <2>3, <2>4
<1>10. IsForest(u)
  BY <1>4, <1>9 DEF IsForest
<1>11. QED
  BY <1>2, <1>5, <1>6, <1>7, <1>10

(* Where the last tree of a stack ends.                                    *)
EndOf(t) == Starts(t)[Len(t) + 1].b

(* The end of a stack of trees is a position.                              *)
LEMMA EndOfTyped ==
  ASSUME NEW t, IsForest(t)
  PROVE  EndOf(t) \in Positions
<1>1. Len(t) \in Nat
  BY DEF IsForest
<1>2. Len(t) + 1 \in 1 .. Len(t) + 1
  BY <1>1
<1>3. Starts(t)[Len(t) + 1] \in Lengths
  BY <1>2, StartsAre
<1>4. QED
  BY <1>3, PlusLength DEF EndOf

(* Two stacks of trees, one upon the other, are a stack of trees, and each *)
(* keeps its nodes.                                                        *)
LEMMA ConcatIsForest ==
  ASSUME NEW t, IsForest(t), NEW u, IsForest(u)
  PROVE  /\ IsForest(t \o u) /\ Len(t \o u) = Len(t) + Len(u)
         /\ \A i \in 1 .. Len(t) : (t \o u)[i] = t[i] /\ Beyond(t \o u, i) = Beyond(t, i)
         /\ \A k \in 1 .. Len(u) : /\ (t \o u)[Len(t) + k] = u[k]
                                   /\ Beyond(t \o u, Len(t) + k) = Len(t) + Beyond(u, k)
         /\ SameUpTo(t \o u, t, Len(t))
         /\ IsSlice(t \o u, u, Len(t))
<1>1. /\ t \in Seq(TreeNode) /\ Len(t) \in Nat /\ DOMAIN t = 1 .. Len(t)
      /\ u \in Seq(TreeNode) /\ Len(u) \in Nat /\ DOMAIN u = 1 .. Len(u)
  BY DEF IsForest
<1>2. PICK v : v = t \o u
  OBVIOUS
<1>3. v \in Seq(TreeNode) /\ Len(v) = Len(t) + Len(u)
  BY <1>1, <1>2, ConcatProperties
<1>4. DOMAIN v = 1 .. Len(t) + Len(u)
  BY <1>3
<1>5. ASSUME NEW i \in 1 .. Len(t)
      PROVE  v[i] = t[i] /\ Beyond(v, i) = Beyond(t, i) /\ Beyond(v, i) \in i + 1 .. Len(t) + 1
  <2>1. v[i] = t[i]
    BY <1>1, <1>2, ConcatProperties
  <2>2. Beyond(v, i) = Beyond(t, i)
    BY <2>1 DEF Beyond
  <2>3. Beyond(t, i) \in i + 1 .. Len(t) + 1
    BY <1>1, NodeFacts
  <2>4. QED
    BY <2>1, <2>2, <2>3
<1>6. ASSUME NEW k \in 1 .. Len(u)
      PROVE  /\ v[Len(t) + k] = u[k] /\ Beyond(v, Len(t) + k) = Len(t) + Beyond(u, k)
             /\ Beyond(u, k) \in k + 1 .. Len(u) + 1
  <2>1. v[Len(t) + k] = u[k]
    <3>1. Len(t) + k \in Len(t) + 1 .. Len(t) + Len(u) /\ (Len(t) + k) - Len(t) = k
      BY <1>1
    <3>2. QED
      BY <1>1, <1>2, <1>3, <3>1, ConcatProperties
  <2>2. PICK c \in Nat \ {0} : c = u[k].node_count
    BY <1>1, NodeFacts
  <2>3. Beyond(u, k) = k + c /\ Beyond(v, Len(t) + k) = Len(t) + k + c
    BY <2>1, <2>2 DEF Beyond
  <2>4. Beyond(u, k) \in k + 1 .. Len(u) + 1
    BY <1>1, NodeFacts
  <2>5. QED
    BY <1>1, <2>1, <2>2, <2>3, <2>4
<1>7. ASSUME NEW i \in DOMAIN v
      PROVE  /\ Beyond(v, i) <= Len(v) + 1
             /\ \A j \in Below(v, i) : Beyond(v, j) <= Beyond(v, i)
  <2>1. CASE i \in 1 .. Len(t)
    <3>1. PICK e \in i + 1 .. Len(t) + 1 : e = Beyond(v, i) /\ e = Beyond(t, i)
      BY <1>5, <2>1
    <3>2. e <= Len(v) + 1
      BY <1>1, <1>3, <3>1
    <3>3. ASSUME NEW j \in Below(v, i)
          PROVE  Beyond(v, j) <= Beyond(v, i)
      <4>1. j \in i + 1 .. e - 1
        BY <3>1, <3>3 DEF Below
      <4>2. j \in Below(t, i) /\ j \in 1 .. Len(t)
        BY <1>1, <2>1, <3>1, <4>1 DEF Below
      <4>3. Beyond(t, j) <= Beyond(t, i)
        BY <1>1, <2>1, <4>2 DEF IsForest
      <4>4. QED
        BY <1>5, <2>1, <4>2, <4>3
    <3>4. QED
      BY <3>1, <3>2, <3>3
  <2>2. CASE i \notin 1 .. Len(t)
    <3>1. PICK k \in 1 .. Len(u) : i = Len(t) + k
      <4>1. i - Len(t) \in 1 .. Len(u) /\ i = Len(t) + (i - Len(t))
        BY <1>1, <1>4, <2>2
      <4>2. QED
        BY <4>1
    <3>2. PICK e \in k + 1 .. Len(u) + 1 : e = Beyond(u, k) /\ Beyond(v, i) = Len(t) + e
      BY <1>6, <3>1
    <3>3. Beyond(v, i) <= Len(v) + 1
      BY <1>1, <1>3, <3>2
    <3>4. ASSUME NEW j \in Below(v, i)
          PROVE  Beyond(v, j) <= Beyond(v, i)
      <4>1. j \in Len(t) + k + 1 .. Len(t) + e - 1
        BY <3>1, <3>2, <3>4 DEF Below
      <4>2. PICK m \in k + 1 .. e - 1 : j = Len(t) + m
        <5>1. j - Len(t) \in k + 1 .. e - 1 /\ j = Len(t) + (j - Len(t))
          BY <1>1, <4>1
        <5>2. QED
          BY <5>1
      <4>3. m \in Below(u, k) /\ m \in 1 .. Len(u)
        BY <1>1, <3>2, <4>2 DEF Below
      <4>4. Beyond(u, m) <= e
        BY <1>1, <3>2, <4>3 DEF IsForest
      <4>5. PICK f \in m + 1 .. Len(u) + 1 : f = Beyond(u, m) /\ Beyond(v, j) = Len(t) + f
        BY <1>6, <4>2, <4>3
      <4>6. QED
        BY <1>1, <3>2, <4>4, <4>5
    <3>5. QED
      BY <3>3, <3>4
  <2>3. QED
    BY <2>1, <2>2
<1>8. IsForest(v)
  BY <1>3, <1>7 DEF IsForest
<1>9. SameUpTo(v, t, Len(t))
  BY <1>1, <1>3, <1>5, <1>8 DEF SameUpTo
<1>10. IsSlice(v, u, Len(t))
  <2>1. \A i \in 1 .. Len(t) : Beyond(v, i) <= Len(t) + 1
    BY <1>1, <1>5
  <2>2. \A k \in 1 .. Len(u) : u[k] = v[Len(t) + k]
    BY <1>6
  <2>3. QED
    BY <1>1, <1>3, <1>8, <2>1, <2>2 DEF IsSlice
<1>11. QED
  BY <1>2, <1>3, <1>5, <1>6, <1>8, <1>9, <1>10

(* The end of two stacks is the sum of their ends.                         *)
LEMMA EndOfConcat ==
  ASSUME NEW t, IsForest(t), NEW u, IsForest(u)
  PROVE  EndOf(t \o u) = Plus(EndOf(t), EndOf(u))
<1>1. Len(t) \in Nat /\ Len(u) \in Nat
  BY DEF IsForest
<1>2. PICK v : v = t \o u
  OBVIOUS
<1>3. /\ IsForest(v) /\ Len(v) = Len(t) + Len(u)
      /\ SameUpTo(v, t, Len(t)) /\ IsSlice(v, u, Len(t))
  BY <1>2, ConcatIsForest
<1>4. Starts(v)[Len(t) + 1] = Starts(t)[Len(t) + 1]
  <2>1. Len(t) + 1 \in 1 .. Len(t) + 1
    BY <1>1
  <2>2. QED
    BY <1>3, <2>1, StartsOfPrefix
<1>5. Starts(v)[Len(t) + (Len(u) + 1)].b = Plus(Starts(v)[Len(t) + 1].b, Starts(u)[Len(u) + 1].b)
  <2>1. Len(u) + 1 \in 1 .. Len(u) + 1
    BY <1>1
  <2>2. QED
    <3>1. IsSlice(v, u, Len(t))
      BY <1>3
    <3>2. QED
      BY <2>1, <3>1, StartsOfSlice
<1>6. Len(v) + 1 = Len(t) + (Len(u) + 1)
  BY <1>1, <1>3
<1>7. QED
  BY <1>2, <1>4, <1>5, <1>6 DEF EndOf

(* A tree takes its total size.                                            *)
LEMMA EndOfTree ==
  ASSUME NEW u, IsTree(u)
  PROVE  EndOf(u) = Total(u[1]).b /\ Len(u) \in Nat \ {0} /\ 1 \in DOMAIN u
<1>1. IsForest(u) /\ u # <<>> /\ Beyond(u, 1) = Len(u) + 1
  BY DEF IsTree
<1>2. Len(u) \in Nat \ {0} /\ DOMAIN u = 1 .. Len(u)
  <2>1. u \in Seq(TreeNode) /\ u # <<>>
    BY <1>1 DEF IsForest
  <2>2. QED
    BY <2>1, EmptySeq
<1>3. PICK n \in Nat \ {0} : n = Len(u)
  BY <1>2
<1>4. Leaf(u[n])
  <2>1. n \in DOMAIN u
    BY <1>2, <1>3
  <2>2. Beyond(u, n) \in n + 1 .. Len(u) + 1
    BY <1>1, <2>1, NodeFacts
  <2>3. Beyond(u, n) = n + 1
    BY <1>3, <2>2
  <2>4. QED
    BY <1>1, <2>1, <2>3, NodeFacts
<1>5. n + 1 \in 2 .. Len(u) + 1 /\ (n + 1) - 1 = n /\ 1 \in 1 .. (n + 1) - 1
  BY <1>3
<1>6. PICK x : x = Before(u, n + 1)
  OBVIOUS
<1>7. x = 1
  <2>1. x \in 1 .. (n + 1) - 1 /\ \A i \in 1 .. (n + 1) - 1 : Beyond(u, i) = n + 1 => x <= i
    BY <1>1, <1>4, <1>5, <1>6, BeforeIs
  <2>2. x <= 1
    BY <1>1, <1>3, <1>5, <2>1
  <2>3. QED
    BY <2>1, <2>2
<1>8. Starts(u)[n + 1] = length_add(Zero, Total(u[1]))
  <2>1. Starts(u)[n + 1] = length_add(Starts(u)[1], Total(u[1]))
    BY <1>1, <1>4, <1>5, <1>6, <1>7, StartsStep
  <2>2. QED
    BY <1>1, <2>1, StartsStep
<1>9. 1 \in DOMAIN u
  BY <1>2
<1>10. Total(u[1]) \in Lengths
  BY <1>1, <1>9, NodeFacts
<1>11. Starts(u)[n + 1].b = Plus(0, Total(u[1]).b)
  BY <1>8, <1>10, ZeroIsLength, AddIsPlus
<1>12. Starts(u)[n + 1].b = Total(u[1]).b
  BY <1>10, <1>11, PlusLength, PlusZero
<1>13. QED
  BY <1>2, <1>3, <1>9, <1>12 DEF EndOf

(* The last tree of a stack: it reaches to the end, and what lies before   *)
(* it ends before it.                                                      *)
LEMMA TopIs ==
  ASSUME NEW t, IsForest(t), t # <<>>
  PROVE  /\ Top(t) \in 1 .. Len(t) /\ Top(t) \in DOMAIN t /\ Beyond(t, Top(t)) = Len(t) + 1
         /\ \A i \in 1 .. Top(t) - 1 : Beyond(t, i) <= Top(t)
         /\ Top(t) \in Tops(t)
<1>1. t \in Seq(TreeNode) /\ Len(t) \in Nat /\ DOMAIN t = 1 .. Len(t) /\ Len(t) # 0
  BY EmptySeq DEF IsForest
<1> DEFINE T == {i \in DOMAIN t : Beyond(t, i) = Len(t) + 1}
<1>2. Len(t) \in T
  <2>1. Len(t) \in DOMAIN t
    BY <1>1
  <2>2. Beyond(t, Len(t)) \in Len(t) + 1 .. Len(t) + 1
    BY <2>1, NodeFacts
  <2>3. QED
    BY <1>1, <2>1, <2>2
<1>3. T \in SUBSET Nat /\ T # {}
  BY <1>1, <1>2
<1>4. PICK x : x = Top(t)
  OBVIOUS
<1>5. x \in T /\ \A y \in T : x <= y
  <2>1. x = Min(T)
    BY <1>4 DEF Top
  <2> HIDE DEF T
  <2>2. QED
    BY <1>3, <2>1, MinIs
<1>6. x \in 1 .. Len(t) /\ x \in DOMAIN t /\ Beyond(t, x) = Len(t) + 1
  BY <1>1, <1>5
<1>7. ASSUME NEW i \in 1 .. x - 1
      PROVE  Beyond(t, i) <= x
  <2>1. i \in DOMAIN t /\ i < x
    BY <1>1, <1>6
  <2>2. i \notin T
    BY <1>5, <1>6, <2>1
  <2>3. Beyond(t, i) # Len(t) + 1 /\ Beyond(t, i) \in i + 1 .. Len(t) + 1
    BY <2>1, <2>2, NodeFacts
  <2>4. Beyond(t, i) <= x \/ Len(t) + 1 <= Beyond(t, i)
    BY <1>6, <2>1, Nested
  <2>5. QED
    BY <1>1, <2>3, <2>4
<1>8. x \in Tops(t)
  <2>1. ASSUME NEW j \in DOMAIN t, x \in Below(t, j)
        PROVE  FALSE
    <3>1. j < x /\ x < Beyond(t, j) /\ j \in 1 .. x - 1 /\ Beyond(t, j) \in Nat
      BY <1>1, <1>6, <2>1, NodeFacts
    <3>2. Beyond(t, j) <= x
      BY <1>7, <3>1
    <3>3. QED
      BY <1>6, <3>1, <3>2
  <2>2. QED
    BY <1>6, <2>1 DEF Tops
<1>9. QED
  BY <1>4, <1>6, <1>7, <1>8

(* The edits of nodes are gathered one by one.                             *)
LEMMA EditTurns ==
  ASSUME NEW t, NEW e, NEW n \in Nat, n = Len(t), NEW A, NEW a \in A[0], a = <<>>,
         \A k \in 1 .. n : \A x \in A[k - 1] : WithEdit(t, e, x, k) \in A[k]
  PROVE  \E loop : /\ \A k \in 0 .. n : loop[k] \in A[k]
                   /\ loop[0] = a
                   /\ \A k \in 1 .. n : loop[k] = WithEdit(t, e, loop[k - 1], k)
                   /\ EditChildren(t, e) = loop[n]
<1> DEFINE D == UNION {A[k] : k \in 0 .. n}
           turn == [p \in (1 .. n) \X D |-> WithEdit(t, e, p[2], p[1])]
           Body(g) == [k \in 0 .. n |-> IF k = 0 THEN a ELSE WithEdit(t, e, g[k - 1], k)]
           loop == CHOOSE g : g = Body(g)
<1>1. ASSUME NEW k \in 1 .. n, NEW x \in A[k - 1]
      PROVE  turn[<<k, x>>] = WithEdit(t, e, x, k)
  <2>1. k - 1 \in 0 .. n
    OBVIOUS
  <2>2. <<k, x>> \in (1 .. n) \X D
    BY <2>1
  <2>3. QED
    BY <2>2
<1>2. PICK f : IsStaged(f, n, A, a, turn)
  <2> HIDE DEF turn
  <2>1. QED
    BY <1>1, StagedIteration
<1>3. f = Body(f)
  <2> DEFINE g == Body(f)
  <2>1. ASSUME NEW k \in 1 .. n
        PROVE  f[k] = WithEdit(t, e, f[k - 1], k)
    <3>1. k - 1 \in 0 .. n /\ f[k - 1] \in A[k - 1] /\ f[k] = turn[<<k, f[k - 1]>>]
      <4> HIDE DEF turn
      <4>1. k - 1 \in 0 .. n
        OBVIOUS
      <4>2. QED
        BY <1>2, <4>1 DEF IsStaged
    <3>2. QED
      <4> HIDE DEF turn
      <4>1. QED
        BY <1>1, <3>1
  <2>2. ASSUME NEW k \in 0 .. n
        PROVE  f[k] = g[k]
    <3>1. CASE k = 0
      <4>1. f[0] = a
        BY <1>2 DEF IsStaged
      <4>2. g[0] = a
        OBVIOUS
      <4>3. QED
        BY <3>1, <4>1, <4>2
    <3>2. CASE k # 0
      <4>1. k \in 1 .. n
        BY <3>2
      <4>2. g[k] = WithEdit(t, e, f[k - 1], k)
        BY <3>2
      <4>3. QED
        BY <2>1, <4>1, <4>2
    <3>3. QED
      BY <3>1, <3>2
  <2>3. f = [k \in 0 .. n |-> f[k]]
    BY <1>2 DEF IsStaged
  <2>4. g = [k \in 0 .. n |-> g[k]]
    OBVIOUS
  <2> HIDE DEF g
  <2>5. f = g
    BY <2>2, <2>3, <2>4
  <2>6. QED
    BY <2>5 DEF g
<1> HIDE DEF turn
<1>4. loop = Body(loop)
  <2> HIDE DEF Body
  <2>1. QED
    BY <1>3
<1>5. EditChildren(t, e) = loop[n]
  BY DEF EditChildren
<1> HIDE DEF loop
<1>6. loop[0] = a
  <2> DEFINE g == Body(loop)
  <2>1. g[0] = a
    OBVIOUS
  <2>2. QED
    BY <1>4, <2>1
<1>7. ASSUME NEW k \in 1 .. n
      PROVE  loop[k] = WithEdit(t, e, loop[k - 1], k)
  <2> DEFINE g == Body(loop)
  <2>1. g[k] = WithEdit(t, e, loop[k - 1], k)
    OBVIOUS
  <2>2. QED
    BY <1>4, <2>1
<1>8. \A k \in 0 .. n : loop[k] \in A[k]
  <2> DEFINE S == {k \in 0 .. n : loop[k] \in A[k]}
  <2>1. 0 \in S
    BY <1>6
  <2>2. ASSUME NEW k \in 0 .. n, k \in S, k < n
        PROVE  k + 1 \in S
    <3>1. k + 1 \in 1 .. n /\ (k + 1) - 1 = k
      BY <2>2
    <3>2. loop[k + 1] = WithEdit(t, e, loop[k], k + 1) /\ loop[k] \in A[k]
      BY <1>7, <2>2, <3>1
    <3>3. QED
      BY <2>2, <3>1, <3>2
  <2> HIDE DEF S
  <2>3. 0 .. n \subseteq S
    BY <2>1, <2>2, InductiveUpTo
  <2>4. QED
    BY <2>3 DEF S
<1>9. QED
  BY <1>5, <1>6, <1>7, <1>8

(* The loop of ts_parser__breakdown_top_of_stack.                          *)
LEMMA BreakDownTurns ==
  ASSUME NEW stack, NEW n \in Nat, n = Len(stack.nodes), NEW A, NEW a \in A[0], a = stack,
         \A k \in 1 .. n : \A x \in A[k - 1] : BreakDown(x) \in A[k]
  PROVE  \E loop : /\ \A k \in 0 .. n : loop[k] \in A[k]
                   /\ loop[0] = a
                   /\ \A k \in 1 .. n : loop[k] = BreakDown(loop[k - 1])
                   /\ ts_parser__breakdown_top_of_stack(stack) = loop[n]
<1> DEFINE D == UNION {A[k] : k \in 0 .. n}
           turn == [p \in (1 .. n) \X D |-> BreakDown(p[2])]
           Body(g) == [k \in 0 .. n |-> IF k = 0 THEN a ELSE BreakDown(g[k - 1])]
           loop == CHOOSE g : g = Body(g)
<1>1. ASSUME NEW k \in 1 .. n, NEW x \in A[k - 1]
      PROVE  turn[<<k, x>>] = BreakDown(x)
  <2>1. k - 1 \in 0 .. n
    OBVIOUS
  <2>2. <<k, x>> \in (1 .. n) \X D
    BY <2>1
  <2>3. QED
    BY <2>2
<1>2. PICK f : IsStaged(f, n, A, a, turn)
  <2> HIDE DEF turn
  <2>1. QED
    BY <1>1, StagedIteration
<1>3. f = Body(f)
  <2> DEFINE g == Body(f)
  <2>1. ASSUME NEW k \in 1 .. n
        PROVE  f[k] = BreakDown(f[k - 1])
    <3>1. k - 1 \in 0 .. n /\ f[k - 1] \in A[k - 1] /\ f[k] = turn[<<k, f[k - 1]>>]
      <4> HIDE DEF turn
      <4>1. k - 1 \in 0 .. n
        OBVIOUS
      <4>2. QED
        BY <1>2, <4>1 DEF IsStaged
    <3>2. QED
      <4> HIDE DEF turn
      <4>1. QED
        BY <1>1, <3>1
  <2>2. ASSUME NEW k \in 0 .. n
        PROVE  f[k] = g[k]
    <3>1. CASE k = 0
      <4>1. f[0] = a
        BY <1>2 DEF IsStaged
      <4>2. g[0] = a
        OBVIOUS
      <4>3. QED
        BY <3>1, <4>1, <4>2
    <3>2. CASE k # 0
      <4>1. k \in 1 .. n
        BY <3>2
      <4>2. g[k] = BreakDown(f[k - 1])
        BY <3>2
      <4>3. QED
        BY <2>1, <4>1, <4>2
    <3>3. QED
      BY <3>1, <3>2
  <2>3. f = [k \in 0 .. n |-> f[k]]
    BY <1>2 DEF IsStaged
  <2>4. g = [k \in 0 .. n |-> g[k]]
    OBVIOUS
  <2> HIDE DEF g
  <2>5. f = g
    BY <2>2, <2>3, <2>4
  <2>6. QED
    BY <2>5 DEF g
<1> HIDE DEF turn
<1>4. loop = Body(loop)
  <2> HIDE DEF Body
  <2>1. QED
    BY <1>3
<1>5. ts_parser__breakdown_top_of_stack(stack) = loop[n]
  BY DEF ts_parser__breakdown_top_of_stack
<1> HIDE DEF loop
<1>6. loop[0] = a
  <2> DEFINE g == Body(loop)
  <2>1. g[0] = a
    OBVIOUS
  <2>2. QED
    BY <1>4, <2>1
<1>7. ASSUME NEW k \in 1 .. n
      PROVE  loop[k] = BreakDown(loop[k - 1])
  <2> DEFINE g == Body(loop)
  <2>1. g[k] = BreakDown(loop[k - 1])
    OBVIOUS
  <2>2. QED
    BY <1>4, <2>1
<1>8. \A k \in 0 .. n : loop[k] \in A[k]
  <2> DEFINE S == {k \in 0 .. n : loop[k] \in A[k]}
  <2>1. 0 \in S
    BY <1>6
  <2>2. ASSUME NEW k \in 0 .. n, k \in S, k < n
        PROVE  k + 1 \in S
    <3>1. k + 1 \in 1 .. n /\ (k + 1) - 1 = k
      BY <2>2
    <3>2. loop[k + 1] = BreakDown(loop[k]) /\ loop[k] \in A[k]
      BY <1>7, <2>2, <3>1
    <3>3. QED
      BY <2>2, <3>1, <3>2
  <2> HIDE DEF S
  <2>3. 0 .. n \subseteq S
    BY <2>1, <2>2, InductiveUpTo
  <2>4. QED
    BY <2>3 DEF S
<1>9. QED
  BY <1>5, <1>6, <1>7, <1>8

(* The loop of the parser.                                                 *)
LEMMA ParserTurns ==
  ASSUME NEW text, NEW old, NEW n \in Nat, n = MaxTurns(text, old.root), NEW A, NEW a \in A[0], a = NewParser(old.root),
         \A k \in 1 .. n : \A x \in A[k - 1] : Advance(x, text, old.root, old.start) \in A[k]
  PROVE  \E loop : /\ \A k \in 0 .. n : loop[k] \in A[k]
                   /\ loop[0] = a
                   /\ \A k \in 1 .. n : loop[k] = Advance(loop[k - 1], text, old.root, old.start)
                   /\ ts_parser_parse(text, old) = [root |-> loop[n].root, start |-> 0]
<1> DEFINE D == UNION {A[k] : k \in 0 .. n}
           turn == [p \in (1 .. n) \X D |-> Advance(p[2], text, old.root, old.start)]
           Body(g) == [k \in 0 .. n |-> IF k = 0 THEN a ELSE Advance(g[k - 1], text, old.root, old.start)]
           loop == CHOOSE g : g = Body(g)
<1>1. ASSUME NEW k \in 1 .. n, NEW x \in A[k - 1]
      PROVE  turn[<<k, x>>] = Advance(x, text, old.root, old.start)
  <2>1. k - 1 \in 0 .. n
    OBVIOUS
  <2>2. <<k, x>> \in (1 .. n) \X D
    BY <2>1
  <2>3. QED
    BY <2>2
<1>2. PICK f : IsStaged(f, n, A, a, turn)
  <2> HIDE DEF turn
  <2>1. QED
    BY <1>1, StagedIteration
<1>3. f = Body(f)
  <2> DEFINE g == Body(f)
  <2>1. ASSUME NEW k \in 1 .. n
        PROVE  f[k] = Advance(f[k - 1], text, old.root, old.start)
    <3>1. k - 1 \in 0 .. n /\ f[k - 1] \in A[k - 1] /\ f[k] = turn[<<k, f[k - 1]>>]
      <4> HIDE DEF turn
      <4>1. k - 1 \in 0 .. n
        OBVIOUS
      <4>2. QED
        BY <1>2, <4>1 DEF IsStaged
    <3>2. QED
      <4> HIDE DEF turn
      <4>1. QED
        BY <1>1, <3>1
  <2>2. ASSUME NEW k \in 0 .. n
        PROVE  f[k] = g[k]
    <3>1. CASE k = 0
      <4>1. f[0] = a
        BY <1>2 DEF IsStaged
      <4>2. g[0] = a
        OBVIOUS
      <4>3. QED
        BY <3>1, <4>1, <4>2
    <3>2. CASE k # 0
      <4>1. k \in 1 .. n
        BY <3>2
      <4>2. g[k] = Advance(f[k - 1], text, old.root, old.start)
        BY <3>2
      <4>3. QED
        BY <2>1, <4>1, <4>2
    <3>3. QED
      BY <3>1, <3>2
  <2>3. f = [k \in 0 .. n |-> f[k]]
    BY <1>2 DEF IsStaged
  <2>4. g = [k \in 0 .. n |-> g[k]]
    OBVIOUS
  <2> HIDE DEF g
  <2>5. f = g
    BY <2>2, <2>3, <2>4
  <2>6. QED
    BY <2>5 DEF g
<1> HIDE DEF turn
<1>4. loop = Body(loop)
  <2> HIDE DEF Body
  <2>1. QED
    BY <1>3
<1>5. ts_parser_parse(text, old) = [root |-> loop[n].root, start |-> 0]
  BY DEF ts_parser_parse
<1> HIDE DEF loop
<1>6. loop[0] = a
  <2> DEFINE g == Body(loop)
  <2>1. g[0] = a
    OBVIOUS
  <2>2. QED
    BY <1>4, <2>1
<1>7. ASSUME NEW k \in 1 .. n
      PROVE  loop[k] = Advance(loop[k - 1], text, old.root, old.start)
  <2> DEFINE g == Body(loop)
  <2>1. g[k] = Advance(loop[k - 1], text, old.root, old.start)
    OBVIOUS
  <2>2. QED
    BY <1>4, <2>1
<1>8. \A k \in 0 .. n : loop[k] \in A[k]
  <2> DEFINE S == {k \in 0 .. n : loop[k] \in A[k]}
  <2>1. 0 \in S
    BY <1>6
  <2>2. ASSUME NEW k \in 0 .. n, k \in S, k < n
        PROVE  k + 1 \in S
    <3>1. k + 1 \in 1 .. n /\ (k + 1) - 1 = k
      BY <2>2
    <3>2. loop[k + 1] = Advance(loop[k], text, old.root, old.start) /\ loop[k] \in A[k]
      BY <1>7, <2>2, <3>1
    <3>3. QED
      BY <2>2, <3>1, <3>2
  <2> HIDE DEF S
  <2>3. 0 .. n \subseteq S
    BY <2>1, <2>2, InductiveUpTo
  <2>4. QED
    BY <2>3 DEF S
<1>9. QED
  BY <1>5, <1>6, <1>7, <1>8

(* What the lexers of finitely many nodes have read is bounded.            *)
LEMMA LooksAreBounded ==
  ASSUME NEW t, IsForest(t)
  PROVE  \E m \in Nat : \A i \in DOMAIN t : t[i].look <= m
<1>1. Len(t) \in Nat /\ DOMAIN t = 1 .. Len(t)
  BY DEF IsForest
<1> DEFINE S == {n \in 0 .. Len(t) : \E m \in Nat : \A i \in 1 .. n : t[i].look <= m}
<1>2. 0 \in S
  <2>1. \A i \in 1 .. 0 : t[i].look <= 0
    OBVIOUS
  <2>2. QED
    BY <1>1, <2>1
<1>3. ASSUME NEW n \in 0 .. Len(t), n \in S, n < Len(t)
      PROVE  n + 1 \in S
  <2>1. PICK m \in Nat : \A i \in 1 .. n : t[i].look <= m
    BY <1>3
  <2>2. n + 1 \in DOMAIN t
    BY <1>1, <1>3
  <2>3. PICK x \in Nat : x = t[n + 1].look
    BY <2>2, NodeFacts
  <2>4. ASSUME NEW i \in 1 .. n + 1
        PROVE  t[i].look <= m + x
    <3>1. CASE i = n + 1
      BY <2>3, <3>1
    <3>2. CASE i # n + 1
      <4>1. i \in 1 .. n
        BY <1>1, <3>2
      <4>2. i \in DOMAIN t
        BY <1>1, <1>3, <4>1
      <4>3. t[i].look \in Nat /\ t[i].look <= m
        BY <2>1, <4>1, <4>2, NodeFacts
      <4>4. QED
        BY <4>3
    <3>3. QED
      BY <3>1, <3>2
  <2>5. m + x \in Nat /\ n + 1 \in 0 .. Len(t)
    BY <1>1, <1>3
  <2>6. QED
    BY <2>4, <2>5
<1> HIDE DEF S
<1>4. Len(t) \in S
  <2>1. 0 .. Len(t) \subseteq S
    BY <1>1, <1>2, <1>3, InductiveUpTo
  <2>2. Len(t) \in 0 .. Len(t)
    BY <1>1
  <2>3. QED
    BY <2>1, <2>2
<1>5. QED
  BY <1>1, <1>4 DEF S

Symbols == {"id", "dot", "dots", "end", "list", "statement", "program"}

(* A node above the trees of a stack: it is as large as they are, and the  *)
(* lexers have read as far.                                                *)
IsAbove(u, sym, kids) ==
  /\ IsTree(u) /\ Len(u) = Len(kids) + 1
  /\ u[1].sym = sym /\ ~u[1].changed /\ ~Leaf(u[1])
  /\ EndOf(u) = EndOf(kids)
  /\ \A k \in 1 .. Len(kids) : u[k + 1] = kids[k] /\ Beyond(u, k + 1) = Beyond(kids, k) + 1
  /\ \A i \in Tops(kids) :
       Starts(kids)[Beyond(kids, i)].b + kids[i].look <= EndOf(kids) + u[1].look

(* ts_subtree_summarize_children makes such a node.                        *)
LEMMA NodeIsAbove ==
  ASSUME NEW sym \in Symbols, NEW kids, IsForest(kids), kids # <<>>
  PROVE  IsAbove(Node(sym, kids), sym, kids)
<1>1. /\ kids \in Seq(TreeNode) /\ Len(kids) \in Nat /\ DOMAIN kids = 1 .. Len(kids)
      /\ Len(kids) # 0
  BY EmptySeq DEF IsForest
<1>2. PICK start : start = Starts(kids)
  OBVIOUS
<1>3. \A j \in 1 .. Len(kids) + 1 : start[j] \in Lengths /\ start[j].b \in Positions
  BY <1>2, StartsAre, PlusLength
<1>4. PICK all \in Lengths : all = start[Len(kids) + 1]
  <2>1. Len(kids) + 1 \in 1 .. Len(kids) + 1
    BY <1>1
  <2>2. QED
    BY <1>3, <2>1
<1> DEFINE readTo == {start[Beyond(kids, i)].b + kids[i].look : i \in Tops(kids)}
<1>5. Max(readTo) - all.b \in Nat /\ Max(readTo) \in Nat /\ \A x \in readTo : x <= Max(readTo)
  <2>1. PICK m \in Nat : \A i \in DOMAIN kids : kids[i].look <= m
    BY LooksAreBounded
  <2>2. Width \in Nat
    BY WidthIsPositive
  <2>3. ASSUME NEW i \in Tops(kids)
        PROVE  start[Beyond(kids, i)].b + kids[i].look \in 0 .. Width + m
    <3>1. i \in DOMAIN kids
      BY DEF Tops
    <3>2. Beyond(kids, i) \in 1 .. Len(kids) + 1
      BY <1>1, <3>1, NodeFacts
    <3>3. PICK x \in Positions : x = start[Beyond(kids, i)].b
      BY <1>3, <3>2
    <3>4. PICK y \in Nat : y = kids[i].look /\ y <= m
      BY <2>1, <3>1, NodeFacts
    <3>5. x + y \in 0 .. Width + m
      <4>1. x \in Int /\ 0 <= x /\ x <= Width - 1
        BY <2>2, <3>3 DEF Positions
      <4>2. y \in Int /\ 0 <= y /\ y <= m
        BY <3>4
      <4>3. QED
        BY <2>1, <2>2, <4>1, <4>2
    <3>6. QED
      BY <3>3, <3>4, <3>5
  <2>4. PICK top : top = Top(kids)
    OBVIOUS
  <2>5. top \in Tops(kids) /\ Beyond(kids, top) = Len(kids) + 1 /\ top \in DOMAIN kids
    BY <2>4, TopIs
  <2>6. PICK y \in Nat : y = kids[top].look
    BY <2>5, NodeFacts
  <2>7. all.b + y \in readTo
    BY <1>4, <2>5, <2>6
  <2>8. Width + m \in Nat /\ readTo \in SUBSET (0 .. Width + m) /\ readTo # {}
    BY <2>2, <2>3, <2>7
  <2>9. all.b \in Nat
    BY <1>4, WidthIsPositive DEF Lengths
  <2> HIDE DEF readTo
  <2>10. Max(readTo) \in readTo /\ all.b + y <= Max(readTo)
    BY <2>7, <2>8, MaxIs
  <2>11. Max(readTo) \in Nat
    <3>1. \A x \in 0 .. Width + m : x \in Nat
      BY <2>8
    <3>2. Max(readTo) \in 0 .. Width + m
      BY <2>8, <2>10
    <3>3. QED
      BY <3>1, <3>2
  <2>12. \A x \in readTo : x <= Max(readTo)
    BY <2>7, <2>8, MaxIs
  <2>13. Max(readTo) - all.b \in Nat
    BY <2>6, <2>9, <2>10, <2>11
  <2>14. QED
    BY <2>11, <2>12, <2>13
<1>6. PICK pad \in Lengths : pad = kids[1].pad
  <2>1. 1 \in DOMAIN kids
    BY <1>1
  <2>2. QED
    BY <2>1, NodeFacts
<1>7. PICK size \in Lengths : size = length_sub(all, pad)
  BY PlusLength
<1>8. PICK look \in Nat : look = Max(readTo) - all.b
  BY <1>5
<1>9. PICK r : r = [sym |-> sym, pad |-> pad, size |-> size, look |-> look, changed |-> FALSE,
                    node_count |-> Len(kids) + 1]
  OBVIOUS
<1>10. r \in TreeNode /\ r.node_count = Len(kids) + 1 /\ r.sym = sym /\ ~r.changed /\ Total(r) = length_add(pad, size)
  BY <1>1, <1>9 DEF TreeNode, Symbols, Total
<1>11. Node(sym, kids) = <<r>> \o kids
  BY <1>2, <1>4, <1>6, <1>7, <1>8, <1>9 DEF Node
<1> HIDE DEF readTo
<1>12. PICK u : u = <<r>> \o kids
  OBVIOUS
<1>13. /\ u \in Seq(TreeNode) /\ Len(u) = Len(kids) + 1
       /\ u[1] = r /\ \A k \in 1 .. Len(kids) : u[k + 1] = kids[k]
  <2>1. <<r>> \in Seq(TreeNode) /\ Len(<<r>>) = 1 /\ <<r>>[1] = r
    BY <1>10
  <2>2. u \in Seq(TreeNode) /\ Len(u) = Len(kids) + 1
    BY <1>1, <1>12, <2>1, ConcatProperties
  <2>3. u[1] = r
    BY <1>1, <1>12, <2>1, ConcatProperties
  <2>4. ASSUME NEW k \in 1 .. Len(kids)
        PROVE  u[k + 1] = kids[k]
    <3>1. k + 1 \in 1 + 1 .. 1 + Len(kids) /\ (k + 1) - 1 = k
      BY <1>1
    <3>2. QED
      BY <1>1, <1>12, <2>1, <3>1, ConcatProperties
  <2>5. QED
    BY <2>2, <2>3, <2>4
<1>14. Beyond(u, 1) = Len(u) + 1
  BY <1>1, <1>10, <1>13 DEF Beyond
<1>15. ASSUME NEW k \in 1 .. Len(kids)
       PROVE  /\ Beyond(u, k + 1) = Beyond(kids, k) + 1
              /\ Beyond(kids, k) \in k + 1 .. Len(kids) + 1
  <2>1. PICK c \in Nat \ {0} : c = kids[k].node_count
    BY <1>1, NodeFacts
  <2>2. Beyond(kids, k) \in k + 1 .. Len(kids) + 1
    BY <1>1, NodeFacts
  <2>3. u[k + 1].node_count = c
    BY <1>13, <2>1
  <2>4. Beyond(u, k + 1) = (k + 1) + c /\ Beyond(kids, k) = k + c
    BY <2>1, <2>3 DEF Beyond
  <2>5. (k + 1) + c = (k + c) + 1
    <3>1. k \in Int /\ c \in Int
      BY <1>1, <2>1
    <3>2. QED
      BY <3>1
  <2>6. QED
    BY <2>2, <2>4, <2>5
<1>16. ASSUME NEW i \in DOMAIN u
       PROVE  /\ Beyond(u, i) <= Len(u) + 1
              /\ \A j \in Below(u, i) : Beyond(u, j) <= Beyond(u, i)
  <2>1. i \in 1 .. Len(kids) + 1
    BY <1>13
  <2>2. \A j \in 1 .. Len(kids) + 1 : Beyond(u, j) <= Len(u) + 1
    <3> SUFFICES ASSUME NEW j \in 1 .. Len(kids) + 1
                 PROVE  Beyond(u, j) <= Len(u) + 1
      OBVIOUS
    <3>1. CASE j = 1
      BY <1>1, <1>13, <1>14, <3>1
    <3>2. CASE j # 1
      <4>1. PICK k \in 1 .. Len(kids) : j = k + 1
        <5>1. j - 1 \in 1 .. Len(kids) /\ j = (j - 1) + 1
          BY <1>1, <3>2
        <5>2. QED
          BY <5>1
      <4>2. QED
        BY <1>1, <1>13, <1>15, <4>1
    <3>3. QED
      BY <3>1, <3>2
  <2>3. ASSUME NEW j \in Below(u, i)
        PROVE  Beyond(u, j) <= Beyond(u, i)
    <3>1. CASE i = 1
      <4>1. j \in 1 .. Len(kids) + 1
        BY <1>1, <1>13, <1>14, <2>3, <3>1 DEF Below
      <4>2. QED
        BY <1>14, <2>2, <3>1, <4>1
    <3>2. CASE i # 1
      <4>1. PICK k \in 1 .. Len(kids) : i = k + 1
        <5>1. i - 1 \in 1 .. Len(kids) /\ i = (i - 1) + 1
          BY <1>1, <2>1, <3>2
        <5>2. QED
          BY <5>1
      <4>2. PICK e \in k + 1 .. Len(kids) + 1 : e = Beyond(kids, k) /\ Beyond(u, i) = e + 1
        BY <1>15, <4>1
      <4>3. j \in k + 2 .. e
        BY <1>1, <2>3, <4>1, <4>2 DEF Below
      <4>4. PICK m \in k + 1 .. e - 1 : j = m + 1
        <5>1. j - 1 \in k + 1 .. e - 1 /\ j = (j - 1) + 1
          BY <1>1, <4>2, <4>3
        <5>2. QED
          BY <5>1
      <4>5. m \in Below(kids, k) /\ m \in 1 .. Len(kids)
        BY <1>1, <4>2, <4>4 DEF Below
      <4>6. Beyond(kids, m) <= e
        BY <1>1, <4>2, <4>5 DEF IsForest
      <4>7. PICK f \in m + 1 .. Len(kids) + 1 : f = Beyond(kids, m) /\ Beyond(u, j) = f + 1
        BY <1>15, <4>4, <4>5
      <4>8. QED
        BY <1>1, <4>2, <4>6, <4>7
    <3>3. QED
      BY <3>1, <3>2
  <2>4. QED
    BY <2>1, <2>2, <2>3
<1>17. u # <<>> /\ 1 \in DOMAIN u
  BY <1>1, <1>13, EmptySeq
<1>18. IsTree(u)
  <2>1. IsForest(u)
    BY <1>13, <1>16 DEF IsForest
  <2>2. QED
    BY <1>14, <1>17, <2>1 DEF IsTree
<1>19. EndOf(u) = EndOf(kids)
  <2>1. EndOf(u) = Total(r).b
    BY <1>13, <1>18, EndOfTree
  <2>2. Total(r).b = all.b
    BY <1>7, <1>10, PlusLength
  <2>3. QED
    BY <1>2, <1>4, <2>1, <2>2 DEF EndOf
<1>20. ~Leaf(u[1])
  BY <1>1, <1>10, <1>13 DEF Leaf
<1>21. \A i \in Tops(kids) :
         Starts(kids)[Beyond(kids, i)].b + kids[i].look <= EndOf(kids) + u[1].look
  <2> SUFFICES ASSUME NEW i \in Tops(kids)
               PROVE  Starts(kids)[Beyond(kids, i)].b + kids[i].look <= EndOf(kids) + u[1].look
    OBVIOUS
  <2>1. start[Beyond(kids, i)].b + kids[i].look \in readTo
    BY DEF readTo
  <2>2. start[Beyond(kids, i)].b + kids[i].look <= Max(readTo)
    BY <1>5, <2>1
  <2>3. PICK m \in Nat, a \in Nat : m = Max(readTo) /\ a = all.b
    BY <1>4, <1>5, WidthIsPositive DEF Lengths
  <2>4. EndOf(kids) = a /\ u[1].look = m - a
    BY <1>2, <1>4, <1>8, <1>9, <1>13, <2>3 DEF EndOf
  <2>5. a + (m - a) = m
    BY <2>3
  <2>6. QED
    BY <1>2, <2>2, <2>3, <2>4, <2>5
<1>22. u[1].sym = sym /\ ~u[1].changed
  BY <1>10, <1>13
<1>23. \A k \in 1 .. Len(kids) : u[k + 1] = kids[k] /\ Beyond(u, k + 1) = Beyond(kids, k) + 1
  BY <1>13, <1>15
<1>24. IsAbove(u, sym, kids)
  BY <1>13, <1>18, <1>19, <1>20, <1>21, <1>22, <1>23 DEF IsAbove
<1>25. QED
  BY <1>11, <1>12, <1>24

(* The tree it makes is as large as those below it.                        *)
LEMMA NodeIs ==
  ASSUME NEW sym \in Symbols, NEW kids, IsForest(kids), kids # <<>>
  PROVE  /\ IsTree(Node(sym, kids)) /\ Len(Node(sym, kids)) = Len(kids) + 1
         /\ Node(sym, kids)[1].sym = sym
         /\ ~Leaf(Node(sym, kids)[1])
         /\ EndOf(Node(sym, kids)) = EndOf(kids)
BY NodeIsAbove DEF IsAbove

Forests == {t \in Seq(TreeNode) : IsForest(t)}

(* The set of the stacks of trees.                                         *)
LEMMA ForestsAre ==
  /\ \A t : t \in Forests <=> IsForest(t)
  /\ <<>> \in Forests
<1>1. \A t : IsForest(t) => t \in Seq(TreeNode)
  BY DEF IsForest
<1>2. <<>> \in Seq(TreeNode) /\ DOMAIN <<>> = {}
  BY EmptySeq
<1>3. IsForest(<<>>)
  BY <1>2 DEF IsForest
<1>4. QED
  BY <1>1, <1>2, <1>3 DEF Forests

(* A stack can be cut where its trees end.                                 *)
IsCut(t, i) == i \in 1 .. Len(t) + 1 /\ \A k \in 1 .. i - 1 : Beyond(t, k) <= i

(* A stack of trees cut between two of its trees is two stacks, which      *)
(* measure what it measures.                                               *)
LEMMA CutsInTwo ==
  ASSUME NEW t, IsForest(t), NEW i, IsCut(t, i)
  PROVE  /\ IsForest(SubSeq(t, 1, i - 1)) /\ Len(SubSeq(t, 1, i - 1)) = i - 1
         /\ \A k \in 1 .. i - 1 : /\ SubSeq(t, 1, i - 1)[k] = t[k]
                                  /\ Beyond(SubSeq(t, 1, i - 1), k) = Beyond(t, k)
         /\ IsForest(SubSeq(t, i, Len(t))) /\ Len(SubSeq(t, i, Len(t))) = Len(t) - i + 1
         /\ \A k \in 1 .. Len(t) - i + 1 :
              /\ SubSeq(t, i, Len(t))[k] = t[i + k - 1]
              /\ Beyond(SubSeq(t, i, Len(t)), k) = Beyond(t, i + k - 1) - (i - 1)
         /\ t = SubSeq(t, 1, i - 1) \o SubSeq(t, i, Len(t))
         /\ EndOf(t) = Plus(EndOf(SubSeq(t, 1, i - 1)), EndOf(SubSeq(t, i, Len(t))))
<1>1. /\ t \in Seq(TreeNode) /\ Len(t) \in Nat /\ DOMAIN t = 1 .. Len(t)
      /\ i \in 1 .. Len(t) + 1 /\ \A k \in 1 .. i - 1 : Beyond(t, k) <= i
  BY DEF IsForest, IsCut
<1>2. PICK u : u = SubSeq(t, 1, i - 1)
  OBVIOUS
<1>3. PICK v : v = SubSeq(t, i, Len(t))
  OBVIOUS
<1>4. /\ IsForest(u) /\ Len(u) = i - 1
      /\ \A k \in 1 .. i - 1 : u[k] = t[k] /\ Beyond(u, k) = Beyond(t, k)
  <2>1. 1 \in 1 .. Len(t) + 1 /\ i - 1 \in 1 - 1 .. Len(t) /\ (i - 1) - 1 + 1 = i - 1 /\ (i - 1) + 1 = i
    BY <1>1
  <2>2. /\ IsForest(u) /\ Len(u) = (i - 1) - 1 + 1
        /\ \A k \in 1 .. (i - 1) - 1 + 1 : u[k] = t[1 + k - 1] /\ Beyond(u, k) = Beyond(t, 1 + k - 1) - (1 - 1)
    BY <1>1, <1>2, <2>1, PartIsForest
  <2>3. ASSUME NEW k \in 1 .. i - 1
        PROVE  u[k] = t[k] /\ Beyond(u, k) = Beyond(t, k)
    <3>1. 1 + k - 1 = k /\ k \in DOMAIN t
      BY <1>1
    <3>2. Beyond(t, k) \in Nat
      BY <1>1, <3>1, NodeFacts
    <3>3. QED
      BY <2>1, <2>2, <3>1, <3>2
  <2>4. QED
    BY <2>1, <2>2, <2>3
<1>5. /\ IsForest(v) /\ Len(v) = Len(t) - i + 1
      /\ \A k \in 1 .. Len(t) - i + 1 : v[k] = t[i + k - 1] /\ Beyond(v, k) = Beyond(t, i + k - 1) - (i - 1)
  <2>1. Len(t) \in i - 1 .. Len(t)
    BY <1>1
  <2>2. \A k \in i .. Len(t) : Beyond(t, k) <= Len(t) + 1
    BY <1>1 DEF IsForest
  <2>3. QED
    BY <1>1, <1>3, <2>1, <2>2, PartIsForest
<1>6. t = u \o v
  <2>1. PICK w : w = u \o v
    OBVIOUS
  <2>2. /\ IsForest(w) /\ Len(w) = Len(u) + Len(v)
        /\ \A k \in 1 .. Len(u) : w[k] = u[k]
        /\ \A k \in 1 .. Len(v) : w[Len(u) + k] = v[k]
    <3>1. IsForest(u) /\ IsForest(v)
      BY <1>4, <1>5
    <3>2. IsForest(u \o v) /\ Len(u \o v) = Len(u) + Len(v)
      BY <3>1, ConcatIsForest
    <3>3. \A k \in 1 .. Len(u) : (u \o v)[k] = u[k]
      BY <3>1, ConcatIsForest
    <3>4. \A k \in 1 .. Len(v) : (u \o v)[Len(u) + k] = v[k]
      BY <3>1, ConcatIsForest
    <3>5. QED
      BY <2>1, <3>2, <3>3, <3>4
  <2>3. w \in Seq(TreeNode) /\ Len(w) = Len(t)
    BY <1>1, <1>4, <1>5, <2>2 DEF IsForest
  <2>4. ASSUME NEW k \in 1 .. Len(t)
        PROVE  t[k] = w[k]
    <3>1. CASE k \in 1 .. i - 1
      BY <1>4, <2>2, <3>1
    <3>2. CASE k \notin 1 .. i - 1
      <4>1. PICK m \in 1 .. Len(t) - i + 1 : k = (i - 1) + m
        <5>1. k - (i - 1) \in 1 .. Len(t) - i + 1 /\ k = (i - 1) + (k - (i - 1))
          BY <1>1, <3>2
        <5>2. QED
          BY <5>1
      <4>2. w[k] = v[m] /\ v[m] = t[i + m - 1] /\ i + m - 1 = k
        BY <1>1, <1>4, <1>5, <2>2, <4>1
      <4>3. QED
        BY <4>2
    <3>3. QED
      BY <3>1, <3>2
  <2>5. t = w
    BY <1>1, <2>3, <2>4, SeqEqual
  <2>6. QED
    BY <2>1, <2>5
<1>7. EndOf(t) = Plus(EndOf(u), EndOf(v))
  BY <1>4, <1>5, <1>6, EndOfConcat
<1>8. QED
  BY <1>2, <1>3, <1>4, <1>5, <1>6, <1>7

(* A stack can be cut before its last tree, and before the last but one.   *)
LEMMA TopIsCut ==
  ASSUME NEW t, IsForest(t), t # <<>>
  PROVE  /\ IsCut(t, Top(t)) /\ Top(t) \in 1 .. Len(t)
         /\ IsForest(UnderTop(t))
         /\ UnderTop(t) # <<>> => IsCut(t, Top(UnderTop(t))) /\ Top(UnderTop(t)) \in 1 .. Len(t)
<1>1. Len(t) \in Nat
  BY DEF IsForest
<1>2. PICK top : top = Top(t)
  OBVIOUS
<1>3. top \in 1 .. Len(t) /\ \A i \in 1 .. top - 1 : Beyond(t, i) <= top
  BY <1>2, TopIs
<1>4. IsCut(t, top)
  BY <1>1, <1>3 DEF IsCut
<1>5. PICK u : u = UnderTop(t)
  OBVIOUS
<1>6. IsForest(u) /\ Len(u) = top - 1 /\ \A k \in 1 .. top - 1 : Beyond(u, k) = Beyond(t, k)
  <2>1. u = SubSeq(t, 1, top - 1)
    BY <1>2, <1>5 DEF UnderTop
  <2>2. IsForest(SubSeq(t, 1, top - 1))
    BY <1>4, CutsInTwo
  <2>3. Len(SubSeq(t, 1, top - 1)) = top - 1
    BY <1>4, CutsInTwo
  <2>4. \A k \in 1 .. top - 1 : Beyond(SubSeq(t, 1, top - 1), k) = Beyond(t, k)
    BY <1>4, CutsInTwo
  <2>5. QED
    BY <2>1, <2>2, <2>3, <2>4
<1>7. ASSUME u # <<>>
      PROVE  IsCut(t, Top(u)) /\ Top(u) \in 1 .. Len(t)
  <2>1. PICK x : x = Top(u)
    OBVIOUS
  <2>2. x \in 1 .. top - 1 /\ \A i \in 1 .. x - 1 : Beyond(u, i) <= x
    BY <1>6, <1>7, <2>1, TopIs
  <2>3. \A i \in 1 .. x - 1 : Beyond(t, i) <= x
    BY <1>3, <1>6, <2>2
  <2>4. x \in 1 .. Len(t) /\ x \in 1 .. Len(t) + 1
    BY <1>1, <1>3, <2>2
  <2>5. QED
    BY <2>1, <2>3, <2>4 DEF IsCut
<1>8. QED
  BY <1>2, <1>3, <1>4, <1>5, <1>6, <1>7

Stacks == [nodes : Forests, pending : SUBSET Int]

(* What the reductions keep of a stack: it ends where it has ended.        *)
SameEnd(stack, s) ==
  /\ s \in Stacks
  /\ EndOf(s.nodes) = EndOf(stack.nodes)
  /\ stack.nodes # <<>> => s.nodes # <<>>

(* A reduction moves no end: the new node is as large as the trees below   *)
(* it.                                                                     *)
LEMMA ReduceKeepsEnd ==
  ASSUME NEW stack \in Stacks, NEW sym \in Symbols, NEW i \in 1 .. Len(stack.nodes),
         IsCut(stack.nodes, i)
  PROVE  SameEnd(stack, Reduce(stack, sym, i)) /\ Reduce(stack, sym, i).nodes # <<>>
<1>1. PICK t : t = stack.nodes
  OBVIOUS
<1>2. IsForest(t) /\ stack.pending \in SUBSET Int
  BY <1>1, ForestsAre DEF Stacks
<1>3. Len(t) \in Nat
  BY <1>2 DEF IsForest
<1>4. PICK u : u = SubSeq(t, 1, i - 1)
  OBVIOUS
<1>5. PICK v : v = SubSeq(t, i, Len(t))
  OBVIOUS
<1>6. IsForest(u) /\ IsForest(v) /\ Len(v) = Len(t) - i + 1 /\ EndOf(t) = Plus(EndOf(u), EndOf(v))
  BY <1>1, <1>2, <1>4, <1>5, CutsInTwo
<1>7. v # <<>>
  <2>1. Len(v) # 0
    BY <1>1, <1>3, <1>6
  <2>2. QED
    BY <2>1, EmptySeq
<1>8. PICK n : n = Node(sym, v)
  OBVIOUS
<1>9. IsTree(n) /\ IsForest(n) /\ Len(n) = Len(v) + 1 /\ EndOf(n) = EndOf(v)
  BY <1>6, <1>7, <1>8, NodeIs DEF IsTree
<1>10. PICK w : w = u \o n
  OBVIOUS
<1>11. IsForest(w) /\ Len(w) = Len(u) + Len(n) /\ EndOf(w) = Plus(EndOf(u), EndOf(n))
  BY <1>6, <1>9, <1>10, ConcatIsForest, EndOfConcat
<1>12. w # <<>>
  <2>1. Len(u) \in Nat /\ Len(n) \in Nat /\ Len(n) # 0
    BY <1>6, <1>9, EndOfTree DEF IsForest
  <2>2. Len(w) # 0
    BY <1>11, <2>1
  <2>3. QED
    BY <2>2, EmptySeq
<1>13. Reduce(stack, sym, i) = [nodes |-> w, pending |-> {k \in stack.pending : k < i}]
  BY <1>1, <1>4, <1>5, <1>8, <1>10 DEF Reduce
<1>14. w \in Forests
  BY <1>11, ForestsAre
<1>15. {k \in stack.pending : k < i} \in SUBSET Int
  BY <1>2
<1>16. QED
  BY <1>1, <1>6, <1>9, <1>11, <1>12, <1>13, <1>14, <1>15 DEF SameEnd, Stacks

(* The reductions due before a token move no end.                          *)
LEMMA ReducedKeepsEnd ==
  ASSUME NEW stack \in Stacks, NEW sym
  PROVE  SameEnd(stack, Reduced(stack, sym))
<1>1. CASE stack.nodes = <<>>
  BY <1>1 DEF Reduced, SameEnd
<1>2. CASE stack.nodes # <<>>
  <2>1. ASSUME NEW s \in Stacks, s.nodes # <<>>
        PROVE  /\ SameEnd(s, Listed(s)) /\ Listed(s).nodes # <<>>
               /\ SameEnd(s, Closed(s, sym)) /\ Closed(s, sym).nodes # <<>>
    <3>1. IsForest(s.nodes)
      BY ForestsAre DEF Stacks
    <3>2. /\ IsCut(s.nodes, Top(s.nodes)) /\ Top(s.nodes) \in 1 .. Len(s.nodes)
          /\ UnderTop(s.nodes) # <<>> => /\ IsCut(s.nodes, Top(UnderTop(s.nodes)))
                                         /\ Top(UnderTop(s.nodes)) \in 1 .. Len(s.nodes)
      BY <2>1, <3>1, TopIsCut
    <3>3. "list" \in Symbols /\ "statement" \in Symbols
      BY DEF Symbols
    <3>4. InStatement(UnderTop(s.nodes)) => UnderTop(s.nodes) # <<>>
      BY DEF InStatement
    <3>5. SameEnd(s, s)
      BY DEF SameEnd
    <3>6. ASSUME NEW i \in {Top(s.nodes), Top(UnderTop(s.nodes))}, NEW x \in {"list", "statement"},
                 i = Top(s.nodes) \/ InStatement(UnderTop(s.nodes))
          PROVE  SameEnd(s, Reduce(s, x, i)) /\ Reduce(s, x, i).nodes # <<>>
      <4>1. i \in 1 .. Len(s.nodes) /\ IsCut(s.nodes, i)
        BY <3>2, <3>4, <3>6
      <4>2. x \in Symbols
        BY <3>3
      <4>3. QED
        BY <4>1, <4>2, ReduceKeepsEnd
    <3>7. SameEnd(s, Listed(s)) /\ Listed(s).nodes # <<>>
      BY <2>1, <3>5, <3>6 DEF Listed
    <3>8. \/ Closed(s, sym) = s
          \/ /\ InStatement(UnderTop(s.nodes))
             /\ Closed(s, sym) = Reduce(s, "statement", Top(UnderTop(s.nodes)))
          \/ Closed(s, sym) = Reduce(s, "statement", Top(s.nodes))
      BY DEF Closed
    <3>9. SameEnd(s, Closed(s, sym)) /\ Closed(s, sym).nodes # <<>>
      BY <2>1, <3>5, <3>6, <3>8
    <3>10. QED
      BY <3>7, <3>9
  <2>2. SameEnd(stack, Listed(stack)) /\ Listed(stack).nodes # <<>> /\ Listed(stack) \in Stacks
    BY <1>2, <2>1 DEF SameEnd
  <2>3. SameEnd(Listed(stack), Closed(Listed(stack), sym)) /\ Closed(Listed(stack), sym).nodes # <<>>
    BY <2>1, <2>2
  <2>4. Reduced(stack, sym) = Closed(Listed(stack), sym)
    BY <1>2 DEF Reduced
  <2>5. QED
    BY <2>2, <2>3, <2>4 DEF SameEnd
<1>3. QED
  BY <1>1, <1>2

(***************************************************************************)
(* Texts and tokens.                                                       *)
(***************************************************************************)
IsText(text) == text \in Seq(Characters) /\ Len(text) < Width

(* A character of a text, or the end of the text.                          *)
LEMMA CharacterIs ==
  ASSUME NEW text, IsText(text), NEW p \in Nat
  PROVE  /\ Len(text) \in Nat
         /\ p < Len(text) => Character(text, p) \in Characters
         /\ Character(text, p) = "eof" <=> p >= Len(text)
<1>1. text \in Seq(Characters) /\ Len(text) \in Nat
  BY DEF IsText
<1>2. CASE p < Len(text)
  <2>1. p + 1 \in 1 .. Len(text)
    BY <1>1, <1>2
  <2>2. text[p + 1] \in Characters
    BY <1>1, <2>1, ElementOfSeq
  <2>3. QED
    BY <1>1, <1>2, <2>2 DEF Character, Characters
<1>3. CASE ~(p < Len(text))
  BY <1>1, <1>3 DEF Character
<1>4. QED
  BY <1>2, <1>3

(* The first position past a run of one character.                         *)
LEMMA PastIs ==
  ASSUME NEW text, IsText(text), NEW p \in Nat, NEW ch \in Characters
  PROVE  /\ Past(text, p, ch) \in Nat /\ p <= Past(text, p, ch)
         /\ p <= Len(text) => Past(text, p, ch) <= Len(text)
         /\ p >= Len(text) => Past(text, p, ch) = p
         /\ Character(text, Past(text, p, ch)) # ch
         /\ \A i \in p .. Past(text, p, ch) - 1 : Character(text, i) = ch
<1>1. Len(text) \in Nat /\ ch # "eof"
  BY CharacterIs DEF Characters
<1>2. CASE Character(text, p) # ch
  <2>1. Past(text, p, ch) = p
    BY <1>2 DEF Past
  <2>2. QED
    BY <1>1, <1>2, <2>1
<1>3. CASE Character(text, p) = ch
  <2>1. p < Len(text)
    BY <1>1, <1>3, CharacterIs
  <2> DEFINE T == {q \in p .. Len(text) : Character(text, q) # ch}
  <2>2. Len(text) \in T
    BY <1>1, <2>1, CharacterIs
  <2>3. T \in SUBSET Nat /\ T # {}
    BY <1>1, <2>2
  <2>4. PICK q \in T : \A y \in T : q <= y
    <3> HIDE DEF T
    <3>1. QED
      BY <2>3, LeastElement
  <2>5. q \in p .. Len(text) /\ Character(text, q) # ch
    BY <2>4
  <2>6. \A i \in p .. q - 1 : Character(text, i) = ch
    <3> SUFFICES ASSUME NEW i \in p .. q - 1
                 PROVE  Character(text, i) = ch
      OBVIOUS
    <3>1. i \in p .. Len(text) /\ i < q /\ i \in Int
      BY <1>1, <2>5
    <3>2. i \notin T
      BY <2>4, <2>5, <3>1
    <3>3. QED
      BY <3>1, <3>2
  <2>7. \E x \in p .. Len(text) :
           Character(text, x) # ch /\ \A i \in p .. x - 1 : Character(text, i) = ch
    BY <2>5, <2>6
  <2>8. PICK z : z = Past(text, p, ch)
    OBVIOUS
  <2>9. z \in p .. Len(text) /\ Character(text, z) # ch /\ \A i \in p .. z - 1 : Character(text, i) = ch
    BY <1>3, <2>7, <2>8 DEF Past
  <2>10. QED
    BY <1>1, <2>1, <2>8, <2>9
<1>4. QED
  BY <1>2, <1>3

(* The rows in a span are counted.                                         *)
LEMMA RowsAreNat ==
  ASSUME NEW text, NEW p \in Int, NEW q \in Int
  PROVE  RowsIn(text, p, q) \in Nat
<1> DEFINE T == {i \in p .. q - 1 : Character(text, i) = "n"}
<1>1. IsFiniteSet(p .. q - 1)
  BY FS_Interval
<1>2. IsFiniteSet(T)
  <2>1. T \in SUBSET (p .. q - 1)
    OBVIOUS
  <2> HIDE DEF T
  <2>2. QED
    BY <1>1, <2>1, FS_Subset
<1>3. RowsIn(text, p, q) = Cardinality(T)
  BY DEF RowsIn
<1> HIDE DEF T
<1>4. QED
  BY <1>2, <1>3, FS_CardinalityType

(* A token is a leaf of the measures it was made with.                     *)
LEMMA TokenIs ==
  ASSUME NEW sym \in Symbols, NEW text, NEW p \in Nat, NEW q \in Nat, NEW e \in Nat, NEW r \in Nat,
         p <= q, q <= e, e <= r, q - p < Width, e - q < Width,
         NEW n, n = Token(sym, text, p, q, e, r)
  PROVE  /\ n \in TreeNode /\ n.sym = sym /\ n.node_count = 1
         /\ n.pad.b = q - p /\ n.size.b = e - q /\ n.look = r - e
<1>1. RowsIn(text, p, q) \in Nat
  BY RowsAreNat
<1>2. q - p \in 0 .. Width - 1 /\ e - q \in 0 .. Width - 1 /\ r - e \in Nat
  BY WidthIsPositive
<1>3. PICK pad : pad = [b |-> q - p, r |-> RowsIn(text, p, q)]
  OBVIOUS
<1>4. PICK size : size = [b |-> e - q, r |-> 0]
  OBVIOUS
<1>5. pad \in Lengths /\ size \in Lengths
  BY <1>1, <1>2, <1>3, <1>4 DEF Lengths
<1>7. n = [sym |-> sym, pad |-> pad, size |-> size, look |-> r - e, changed |-> FALSE, node_count |-> 1]
  BY <1>3, <1>4 DEF Token
<1>8. n \in TreeNode
  BY <1>2, <1>5, <1>7 DEF TreeNode, Symbols
<1>9. QED
  BY <1>3, <1>4, <1>7, <1>8

(* A token from q to e, for which the characters before r are read.        *)
LexedAs(text, p, sym, q, e, r) ==
  /\ Lex(text, p) = Token(sym, text, p, q, e, r)
  /\ p <= q /\ q <= e /\ e < r /\ q - p < Width /\ e - q < Width
  /\ q = Past(text, p, "n")
  /\ sym = "end" =>
       /\ e = q /\ r = q + 1 /\ q >= Len(text)
       /\ p <= Len(text) => q = Len(text)
  /\ sym # "end" => q < e /\ e <= Len(text)
  /\ sym = "id" => Character(text, q) = "a" /\ e = Past(text, q, "a") /\ r = e + 1
  /\ sym = "dots" =>
       /\ Character(text, q) = "." /\ e = q + 3 /\ r = q + 4 /\ e <= Past(text, q, ".")
  /\ sym = "dot" =>
       /\ Character(text, q) = "." /\ e = q + 1 /\ r = Past(text, q, ".") + 1 /\ r < q + 4

(* The token at a place: which bytes it takes and which it has read.       *)
LEMMA LexIs ==
  ASSUME NEW text, IsText(text), NEW p \in Nat, p < Width
  PROVE  \E q \in Nat, e \in Nat, r \in Nat, sym \in {"id", "dot", "dots", "end"} :
           LexedAs(text, p, sym, q, e, r)
<1>1. Len(text) \in Nat /\ Len(text) < Width /\ Width \in Nat
  BY CharacterIs, WidthIsPositive DEF IsText
<1>2. "a" \in Characters /\ "." \in Characters /\ "n" \in Characters
  BY DEF Characters
<1>3. PICK q : q = Past(text, p, "n")
  OBVIOUS
<1>4. /\ q \in Nat /\ p <= q
      /\ p <= Len(text) => q <= Len(text)
      /\ p >= Len(text) => q = p
      /\ Character(text, q) # "n"
  BY <1>2, <1>3, PastIs
<1>5. PICK y : y = Past(text, q, ".")
  OBVIOUS
<1>6. PICK z : z = Past(text, q, "a")
  OBVIOUS
<1>7. /\ y \in Nat /\ q <= y /\ Character(text, y) # "."
      /\ q <= Len(text) => y <= Len(text)
      /\ z \in Nat /\ q <= z /\ Character(text, z) # "a"
      /\ q <= Len(text) => z <= Len(text)
      /\ q >= Len(text) => y = q
  <2>1. /\ y \in Nat /\ q <= y /\ Character(text, y) # "."
        /\ q <= Len(text) => y <= Len(text)
        /\ q >= Len(text) => y = q
    <3>1. q \in Nat /\ "." \in Characters
      BY <1>2, <1>4
    <3>2. /\ Past(text, q, ".") \in Nat /\ q <= Past(text, q, ".")
          /\ Character(text, Past(text, q, ".")) # "."
          /\ q <= Len(text) => Past(text, q, ".") <= Len(text)
          /\ q >= Len(text) => Past(text, q, ".") = q
      BY <3>1, PastIs
    <3>3. QED
      BY <1>5, <3>2
  <2>2. /\ z \in Nat /\ q <= z /\ Character(text, z) # "a"
        /\ q <= Len(text) => z <= Len(text)
    BY <1>2, <1>4, <1>6, PastIs
  <2>3. QED
    BY <2>1, <2>2
<1>8. CASE Character(text, q) = "eof"
  <2>1. Lex(text, p) = Token("end", text, p, q, q, q + 1)
    BY <1>3, <1>8 DEF Lex
  <2>2. q >= Len(text)
    BY <1>4, <1>8, CharacterIs
  <2>3. q - p < Width /\ q - q < Width /\ p <= q /\ q <= q /\ q < q + 1
        /\ (p <= Len(text) => q = Len(text)) /\ q + 1 \in Nat
    BY <1>1, <1>4, <2>2
  <2>4. LexedAs(text, p, "end", q, q, q + 1)
    BY <1>3, <1>4, <2>1, <2>2, <2>3 DEF LexedAs
  <2>5. QED
    BY <1>4, <2>3, <2>4
<1>9. CASE Character(text, q) # "eof"
  <2>1. q < Len(text) /\ Character(text, q) \in Characters
    BY <1>1, <1>4, <1>9, CharacterIs
  <2>2. Character(text, q) \in {"a", "."}
    BY <1>4, <2>1 DEF Characters
  <2>3. p <= Len(text) /\ q - p < Width /\ z - q < Width /\ y - q < Width /\ 3 \in Nat
    BY <1>1, <1>4, <1>7, <2>1
  <2>4. CASE Character(text, q) = "a"
    <3>1. Lex(text, p) = Token("id", text, p, q, z, z + 1)
      BY <1>3, <1>6, <2>4 DEF Lex
    <3>2. z # q
      BY <1>7, <2>4
    <3>3. q < z /\ z <= Len(text) /\ z < z + 1 /\ z + 1 \in Nat
      BY <1>1, <1>4, <1>7, <2>1, <3>2
    <3>4. LexedAs(text, p, "id", q, z, z + 1)
      BY <1>3, <1>4, <1>6, <1>7, <2>3, <2>4, <3>1, <3>3 DEF LexedAs
    <3>5. QED
      BY <1>4, <1>7, <3>3, <3>4
  <2>5. CASE Character(text, q) = "." /\ y >= q + 3
    <3>1. Lex(text, p) = Token("dots", text, p, q, q + 3, q + 4)
      <4>1. Character(text, q) # "eof" /\ Character(text, q) # "a"
        BY <2>5
      <4>2. ~(y < q + 3)
        BY <1>4, <1>7, <2>5
      <4>3. Past(text, q, IF Character(text, q) = "a" THEN "a" ELSE ".") = y
        BY <1>5, <4>1
      <4>4. QED
        BY <1>3, <2>5, <4>1, <4>2, <4>3 DEF Lex
    <3>2. q + 3 \in Nat /\ q + 4 \in Nat /\ q + 3 <= Len(text) /\ q <= q + 3 /\ q + 3 < q + 4
          /\ (q + 3) - q < Width
      BY <1>1, <1>4, <1>7, <2>1, <2>5
    <3>3. LexedAs(text, p, "dots", q, q + 3, q + 4)
      BY <1>3, <1>4, <1>5, <2>3, <2>5, <3>1, <3>2 DEF LexedAs
    <3>4. QED
      BY <1>4, <3>2, <3>3
  <2>6. CASE Character(text, q) = "." /\ ~(y >= q + 3)
    <3>1. Lex(text, p) = Token("dot", text, p, q, q + 1, y + 1)
      <4>1. Character(text, q) # "eof" /\ Character(text, q) # "a"
        BY <2>6
      <4>2. y < q + 3
        BY <1>4, <1>7, <2>6
      <4>3. Past(text, q, IF Character(text, q) = "a" THEN "a" ELSE ".") = y
        BY <1>5, <4>1
      <4>4. QED
        BY <1>3, <2>6, <4>1, <4>2, <4>3 DEF Lex
    <3>2. y # q
      BY <1>7, <2>6
    <3>3. q + 1 \in Nat /\ y + 1 \in Nat /\ q + 1 <= Len(text) /\ q <= q + 1 /\ q + 1 < y + 1
          /\ (q + 1) - q < Width /\ y + 1 < q + 4
      BY <1>1, <1>4, <1>7, <2>1, <2>6, <3>2
    <3>4. LexedAs(text, p, "dot", q, q + 1, y + 1)
      BY <1>3, <1>4, <1>5, <2>3, <2>6, <3>1, <3>3 DEF LexedAs
    <3>5. QED
      BY <1>4, <3>3, <3>4
  <2>7. QED
    BY <2>2, <2>4, <2>5, <2>6
<1>10. QED
  BY <1>8, <1>9

(* What a token measures: the lexer takes a character, or ends the text.   *)
LEMMA LexMeasures ==
  ASSUME NEW text, IsText(text), NEW p \in Nat, p < Width
  PROVE  /\ Lex(text, p) \in TreeNode /\ Leaf(Lex(text, p)) /\ ~Lex(text, p).changed
         /\ Lex(text, p).sym \in {"id", "dot", "dots", "end"}
         /\ Lex(text, p).pad.b + Lex(text, p).size.b < Width
         /\ Total(Lex(text, p)).b = Lex(text, p).pad.b + Lex(text, p).size.b
         /\ Lex(text, p).look >= 1
         /\ Lex(text, p).sym = "end" =>
              /\ Lex(text, p).size.b = 0 /\ Lex(text, p).look = 1
              /\ p <= Len(text) => p + Total(Lex(text, p)).b = Len(text)
         /\ Lex(text, p).sym # "end" =>
              /\ p < Len(text) /\ Lex(text, p).size.b >= 1
              /\ p + Total(Lex(text, p)).b <= Len(text)
<1>0. PICK q \in Nat, e \in Nat, r \in Nat, sym \in {"id", "dot", "dots", "end"} :
           LexedAs(text, p, sym, q, e, r)
  BY LexIs
<1>1. /\ Lex(text, p) = Token(sym, text, p, q, e, r)
      /\ p <= q /\ q <= e /\ e < r /\ q - p < Width /\ e - q < Width
      /\ sym = "end" => /\ e = q /\ r = q + 1 /\ q >= Len(text)
                        /\ p <= Len(text) => q = Len(text)
      /\ sym # "end" => q < e /\ e <= Len(text)
  BY <1>0 DEF LexedAs
<1>2. PICK n : n = Lex(text, p)
  OBVIOUS
<1>3. /\ n \in TreeNode /\ n.sym = sym /\ n.node_count = 1 /\ n.changed = FALSE
      /\ n.pad.b = q - p /\ n.size.b = e - q /\ n.look = r - e
  <2>1. sym \in Symbols /\ e <= r
    BY <1>1 DEF Symbols
  <2>2. n = Token(sym, text, p, q, e, r)
    BY <1>1, <1>2
  <2>3. p <= q /\ q <= e /\ q - p < Width /\ e - q < Width
    BY <1>1
  <2>4. /\ n \in TreeNode /\ n.sym = sym /\ n.node_count = 1
        /\ n.pad.b = q - p /\ n.size.b = e - q /\ n.look = r - e
    BY <2>1, <2>2, <2>3, TokenIs
  <2>5. n.changed = FALSE
    BY <2>2 DEF Token
  <2>6. QED
    BY <2>4, <2>5
<1>4. Len(text) \in Nat /\ Len(text) < Width /\ Width \in Nat
  BY CharacterIs, WidthIsPositive DEF IsText
<1>5. e - p < Width
  BY <1>1, <1>4
<1>6. n.pad.b + n.size.b = e - p
  BY <1>3
<1>7. Total(n).b = e - p
  <2>1. n.pad \in Lengths /\ n.size \in Lengths
    BY <1>3 DEF TreeNode
  <2>2. Total(n).b = Plus(n.pad.b, n.size.b)
    BY <2>1, AddIsPlus DEF Total
  <2>3. QED
    BY <1>5, <1>6, <2>2 DEF Plus
<1>8. Leaf(n)
  BY <1>3 DEF Leaf
<1>9. n.look >= 1 /\ (sym = "end" => n.size.b = 0 /\ n.look = 1)
  BY <1>1, <1>3
<1>10. sym = "end" /\ p <= Len(text) => p + Total(n).b = Len(text)
  BY <1>1, <1>4, <1>7
<1>11. sym # "end" => p < Len(text) /\ n.size.b >= 1 /\ p + Total(n).b <= Len(text)
  BY <1>1, <1>3, <1>4, <1>7
<1>12. QED
  BY <1>1, <1>2, <1>3, <1>5, <1>6, <1>7, <1>8, <1>9, <1>10, <1>11

(***************************************************************************)
(* The parser.                                                             *)
(***************************************************************************)
LEMMA LeafIsTree ==
  ASSUME NEW n \in TreeNode, Leaf(n)
  PROVE  IsTree(<<n>>) /\ IsForest(<<n>>) /\ EndOf(<<n>>) = Total(n).b
<1>1. <<n>> \in Seq(TreeNode) /\ Len(<<n>>) = 1 /\ <<n>>[1] = n /\ DOMAIN <<n>> = {1}
  OBVIOUS
<1>2. PICK t : t = <<n>>
  OBVIOUS
<1>3. Beyond(t, 1) = 2
  BY <1>1, <1>2 DEF Beyond, Leaf
<1>4. Below(t, 1) = {}
  BY <1>3 DEF Below
<1>5. IsForest(t)
  BY <1>1, <1>2, <1>3, <1>4 DEF IsForest
<1>6. t # <<>>
  BY <1>1, <1>2, EmptySeq
<1>7. IsTree(t)
  BY <1>1, <1>2, <1>3, <1>5, <1>6 DEF IsTree
<1>8. QED
  BY <1>1, <1>2, <1>5, <1>7, EndOfTree

(* The nodes from one on to the end of its subtree are a tree.             *)
LEMMA SubtreeIsTree ==
  ASSUME NEW t, IsForest(t), NEW i \in DOMAIN t
  PROVE  /\ IsTree(Subtree(t, i)) /\ IsForest(Subtree(t, i))
         /\ Len(Subtree(t, i)) = t[i].node_count
         /\ Subtree(t, i)[1] = t[i]
         /\ \A k \in 1 .. t[i].node_count :
              /\ Subtree(t, i)[k] = t[i + k - 1]
              /\ Beyond(Subtree(t, i), k) = Beyond(t, i + k - 1) - (i - 1)
<1>1. Len(t) \in Nat /\ i \in 1 .. Len(t) /\ Beyond(t, i) \in i + 1 .. Len(t) + 1
  BY NodeFacts
<1>2. PICK c \in Nat \ {0} : c = t[i].node_count
  BY NodeFacts
<1>3. Beyond(t, i) = i + c
  BY <1>2 DEF Beyond
<1>4. PICK b \in Int : b = i + c - 1
  BY <1>1
<1>5. i \in 1 .. Len(t) + 1 /\ b \in i - 1 .. Len(t) /\ b - i + 1 = c /\ b + 1 = Beyond(t, i)
  <2>1. PICK x \in Int : x = Beyond(t, i)
    BY <1>1
  <2>2. PICK n \in Nat : n = Len(t)
    BY <1>1
  <2>3. i \in 1 .. n /\ x \in i + 1 .. n + 1 /\ x = i + c
    BY <1>1, <1>3, <2>1, <2>2
  <2>4. i \in 1 .. n + 1 /\ b \in i - 1 .. n /\ b - i + 1 = c /\ b + 1 = x
    BY <1>2, <1>4, <2>2, <2>3
  <2>5. QED
    BY <2>1, <2>2, <2>4
<1>6. \A k \in i .. b : Beyond(t, k) <= b + 1
  <2> SUFFICES ASSUME NEW k \in i .. b
               PROVE  Beyond(t, k) <= b + 1
    OBVIOUS
  <2>1. CASE k = i
    BY <1>1, <1>5, <2>1
  <2>2. CASE k # i
    <3>1. k \in Below(t, i)
      BY <1>1, <1>3, <1>4, <2>2 DEF Below
    <3>2. Beyond(t, k) <= Beyond(t, i)
      BY <3>1 DEF IsForest
    <3>3. QED
      BY <1>5, <3>2
  <2>3. QED
    BY <2>1, <2>2
<1>7. PICK u : u = Subtree(t, i)
  OBVIOUS
<1>8. u = SubSeq(t, i, b)
  <2>1. Beyond(t, i) - 1 = b
    BY <1>1, <1>2, <1>3, <1>4
  <2>2. QED
    BY <1>7, <2>1 DEF Subtree
<1>9. /\ IsForest(u) /\ Len(u) = c
      /\ \A k \in 1 .. c : u[k] = t[i + k - 1] /\ Beyond(u, k) = Beyond(t, i + k - 1) - (i - 1)
  BY <1>5, <1>6, <1>8, PartIsForest
<1>10. 1 \in 1 .. c /\ i + 1 - 1 = i
  BY <1>1, <1>2
<1>11. u[1] = t[i] /\ Beyond(u, 1) = Beyond(t, i) - (i - 1)
  <2>1. u[1] = t[i + 1 - 1] /\ Beyond(u, 1) = Beyond(t, i + 1 - 1) - (i - 1)
    BY <1>9, <1>10
  <2>2. QED
    BY <1>10, <2>1
<1>12. Beyond(u, 1) = Len(u) + 1
  <2>1. i \in Int /\ c \in Int
    BY <1>1, <1>2
  <2>2. Len(u) = c
    BY <1>9
  <2>3. PICK x \in Int : x = Beyond(t, i)
    BY <1>1
  <2>4. x = i + c
    BY <1>3, <2>3
  <2>5. Beyond(u, 1) = x - (i - 1)
    BY <1>11, <2>3
  <2>6. x - (i - 1) = c + 1
    BY <2>1, <2>3, <2>4
  <2>7. QED
    BY <2>2, <2>5, <2>6
<1>13. u # <<>>
  BY <1>2, <1>9, EmptySeq
<1>14. IsTree(u)
  BY <1>9, <1>12, <1>13 DEF IsTree
<1>15. QED
  BY <1>2, <1>7, <1>9, <1>11, <1>14

(* The first leaf of a subtree, which only nodes with children come        *)
(* before.                                                                 *)
LEMMA FirstLeafIs ==
  ASSUME NEW t, IsForest(t), NEW i \in DOMAIN t
  PROVE  /\ FirstLeaf(t, i) \in i .. Len(t) /\ FirstLeaf(t, i) \in DOMAIN t /\ Leaf(t[FirstLeaf(t, i)])
         /\ \A j \in i .. FirstLeaf(t, i) - 1 : ~Leaf(t[j])
<1>1. Len(t) \in Nat /\ i \in 1 .. Len(t) /\ DOMAIN t = 1 .. Len(t)
  BY NodeFacts
<1> DEFINE T == {j \in i .. Len(t) : Leaf(t[j])}
<1>2. Len(t) \in T
  <2>1. Len(t) \in DOMAIN t
    BY <1>1
  <2>2. Beyond(t, Len(t)) \in Len(t) + 1 .. Len(t) + 1
    BY <2>1, NodeFacts
  <2>3. Beyond(t, Len(t)) = Len(t) + 1
    BY <1>1, <2>2
  <2>4. QED
    BY <1>1, <2>1, <2>3, NodeFacts
<1>3. T \in SUBSET Nat /\ T # {}
  BY <1>1, <1>2
<1>4. PICK x : x = FirstLeaf(t, i)
  OBVIOUS
<1>5. x \in T /\ \A y \in T : x <= y
  <2>1. x = Min(T)
    BY <1>4 DEF FirstLeaf
  <2> HIDE DEF T
  <2>2. QED
    BY <1>3, <2>1, MinIs
<1>6. \A j \in i .. x - 1 : ~Leaf(t[j])
  <2> SUFFICES ASSUME NEW j \in i .. x - 1, Leaf(t[j])
               PROVE  FALSE
    OBVIOUS
  <2>1. j \in T /\ j < x
    BY <1>1, <1>5
  <2>2. QED
    BY <1>5, <2>1
<1>7. QED
  BY <1>1, <1>4, <1>5, <1>6

(* What is pushed on the parse stack comes after what it holds.            *)
LEMMA PushIsStack ==
  ASSUME NEW stack \in Stacks, NEW t, IsForest(t), NEW pending
  PROVE  /\ ts_stack_push(stack, t, pending) \in Stacks
         /\ EndOf(ts_stack_push(stack, t, pending).nodes) = Plus(EndOf(stack.nodes), EndOf(t))
<1>1. IsForest(stack.nodes) /\ stack.pending \in SUBSET Int
  BY ForestsAre DEF Stacks
<1>2. Len(stack.nodes) + 1 \in Int
  BY <1>1 DEF IsForest
<1>3. stack.nodes \o t \in Forests /\ EndOf(stack.nodes \o t) = Plus(EndOf(stack.nodes), EndOf(t))
  BY <1>1, ConcatIsForest, EndOfConcat, ForestsAre
<1>4. stack.pending \cup (IF pending THEN {Len(stack.nodes) + 1} ELSE {}) \in SUBSET Int
  BY <1>1, <1>2
<1>5. QED
  BY <1>3, <1>4 DEF ts_stack_push, Stacks

(* A pending top broken down leaves a stack of trees.                      *)
LEMMA BreakDownIsStack ==
  ASSUME NEW stack \in Stacks
  PROVE  BreakDown(stack) \in Stacks
<1>1. IsForest(stack.nodes) /\ stack.pending \in SUBSET Int
  BY ForestsAre DEF Stacks
<1>2. PICK t : t = stack.nodes
  OBVIOUS
<1>3. CASE t = <<>>
  BY <1>2, <1>3 DEF BreakDown
<1>4. CASE t # <<>>
  <2>1. PICK top : top = Top(t)
    OBVIOUS
  <2>2. Len(t) \in Nat /\ top \in 1 .. Len(t) /\ IsCut(t, top)
    BY <1>1, <1>2, <1>4, <2>1, TopIsCut DEF IsForest
  <2>3. IsForest(SubSeq(t, 1, top - 1))
    BY <1>1, <1>2, <2>2, CutsInTwo
  <2>4. IsForest(SubSeq(t, top + 1, Len(t)))
    <3>1. top + 1 \in 1 .. Len(t) + 1 /\ Len(t) \in (top + 1) - 1 .. Len(t)
      BY <2>2
    <3>2. \A i \in top + 1 .. Len(t) : Beyond(t, i) <= Len(t) + 1
      BY <1>1, <1>2, <2>2 DEF IsForest
    <3>3. QED
      BY <1>1, <1>2, <3>1, <3>2, PartIsForest
  <2>5. SubSeq(t, 1, top - 1) \o SubSeq(t, top + 1, Len(t)) \in Forests
    BY <2>3, <2>4, ConcatIsForest, ForestsAre
  <2>6. \A k \in Kids(t, top) : k \in Int
    <3>1. Below(t, top) \in SUBSET Int
      BY <1>1, <1>2, <2>2 DEF Below
    <3>2. Kids(t, top) \in SUBSET Below(t, top)
      BY DEF Kids
    <3>3. QED
      BY <3>1, <3>2
  <2>7. {i - 1 : i \in {k \in Kids(t, top) : ~Leaf(t[k])}} \in SUBSET Int
    BY <2>6
  <2>8. (stack.pending \ {top}) \cup {i - 1 : i \in {k \in Kids(t, top) : ~Leaf(t[k])}} \in SUBSET Int
    BY <1>1, <2>7
  <2>9. \/ BreakDown(stack) = stack
        \/ BreakDown(stack) =
             [nodes   |-> SubSeq(t, 1, top - 1) \o SubSeq(t, top + 1, Len(t)),
              pending |-> (stack.pending \ {top})
                            \cup {i - 1 : i \in {k \in Kids(t, top) : ~Leaf(t[k])}}]
    BY <1>2, <2>1 DEF BreakDown
  <2>10. ASSUME NEW x \in Forests, NEW y \in SUBSET Int
         PROVE  [nodes |-> x, pending |-> y] \in Stacks
    BY DEF Stacks
  <2>11. QED
    BY <2>5, <2>8, <2>9, <2>10
<1>5. QED
  BY <1>3, <1>4

(* So does breaking the top of the stack down until it stays.              *)
LEMMA BrokenIsStack ==
  ASSUME NEW stack \in Stacks
  PROVE  ts_parser__breakdown_top_of_stack(stack) \in Stacks
<1>1. PICK n \in Nat : n = Len(stack.nodes)
  BY ForestsAre DEF Stacks, IsForest
<1> DEFINE A == [k \in 0 .. n |-> Stacks]
<1>2. stack \in A[0]
  BY <1>1
<1>3. \A k \in 1 .. n : \A x \in A[k - 1] : BreakDown(x) \in A[k]
  BY <1>1, BreakDownIsStack
<1>4. PICK loop : /\ \A k \in 0 .. n : loop[k] \in A[k]
                  /\ ts_parser__breakdown_top_of_stack(stack) = loop[n]
  <2> HIDE DEF A
  <2>1. QED
    BY <1>1, <1>2, <1>3, BreakDownTurns
<1>5. n \in 0 .. n
  BY <1>1
<1>6. QED
  BY <1>4, <1>5

(* A parser of a text that walks over an old tree of n nodes.              *)
Roots == {<<>>} \cup {r \in Forests : IsTree(r) /\ r[1].sym = "program"}

Walks(n) == [i : 2 .. n + 1, at : Positions]

Parsers(n) == [reusable : Walks(n), stack : Stacks, root : Roots]

(* What the turns of the loop make smaller: what is left of the old tree,  *)
(* or, while a token is lexed, what is left of the text.                   *)
RestOfText(p, text) ==
  IF EndOf(p.stack.nodes) < Len(text) THEN Len(text) - EndOf(p.stack.nodes) ELSE 0

Variant(p, text, n) ==
  IF p.root # <<>> THEN 0
  ELSE (n + 1 - p.reusable.i) * (Len(text) + 2) + RestOfText(p, text) + 1

(* Products of natural numbers, as the variant of the loop needs them.     *)
LEMMA Steps ==
  ASSUME NEW a \in Nat, NEW b \in Nat, NEW c \in Nat, a < b
  PROVE  a * c + c <= b * c /\ a * c \in Nat /\ b * c \in Nat
<1>1. PICK d \in Nat : b = a + 1 + d
  <2>1. b - a - 1 \in Nat /\ b = a + 1 + (b - a - 1)
    OBVIOUS
  <2>2. QED
    BY <2>1
<1>2. d * c \in Nat /\ a * c \in Nat
  OBVIOUS
<1>3. b * c = a * c + c + d * c
  BY <1>1
<1>4. QED
  BY <1>2, <1>3

(* The tree that is accepted is a tree whose root is the program.          *)
LEMMA AcceptIsRoot ==
  ASSUME NEW stack \in Stacks, NEW end, IsTree(end)
  PROVE  Accept(stack, end) \in Roots /\ Accept(stack, end) # <<>>
<1>1. IsForest(stack.nodes) /\ IsForest(end) /\ Len(end) \in Nat \ {0}
  BY ForestsAre, EndOfTree DEF Stacks, IsTree
<1>2. PICK t : t = stack.nodes \o end
  OBVIOUS
<1>3. IsForest(t) /\ Len(t) = Len(stack.nodes) + Len(end)
  BY <1>1, <1>2, ConcatIsForest
<1>4. t # <<>>
  <2>1. Len(stack.nodes) \in Nat
    BY <1>1 DEF IsForest
  <2>2. Len(t) # 0
    BY <1>1, <1>3, <2>1
  <2>3. QED
    BY <2>2, EmptySeq
<1>5. "program" \in Symbols
  BY DEF Symbols
<1>6. IsTree(Node("program", t)) /\ Node("program", t)[1].sym = "program"
  BY <1>3, <1>4, <1>5, NodeIs
<1>7. QED
  BY <1>2, <1>6, ForestsAre DEF Accept, Roots, IsTree

(* A move in the old tree.                                                 *)
LEMMA WalkMoves ==
  ASSUME NEW old, IsForest(old), NEW w \in Walks(Len(old)), w.i <= Len(old)
  PROVE  /\ reusable_node_advance(old, w) \in Walks(Len(old))
         /\ reusable_node_advance(old, w).i > w.i
         /\ reusable_node_descend(w) \in Walks(Len(old))
         /\ reusable_node_descend(w).i > w.i
<1>1. /\ Len(old) \in Nat /\ DOMAIN old = 1 .. Len(old)
      /\ w.i \in 2 .. Len(old) + 1 /\ w.i \in DOMAIN old /\ w.at \in Positions
  BY DEF IsForest, Walks
<1>2. Beyond(old, w.i) \in w.i + 1 .. Len(old) + 1
  BY <1>1, NodeFacts
<1>3. (w.at + Total(old[w.i]).b) % Width \in Positions
  <2>1. Total(old[w.i]).b \in Positions
    BY <1>1, NodeFacts, PlusLength
  <2>2. QED
    BY <1>1, <2>1, PlusFacts
<1>4. reusable_node_advance(old, w) \in Walks(Len(old)) /\ reusable_node_advance(old, w).i > w.i
  <2>1. Beyond(old, w.i) \in 2 .. Len(old) + 1 /\ Beyond(old, w.i) > w.i
    BY <1>1, <1>2
  <2>2. QED
    BY <1>3, <2>1 DEF reusable_node_advance, Walks
<1>5. reusable_node_descend(w) = [i |-> w.i + 1, at |-> w.at]
  BY DEF reusable_node_descend, Walks
<1>6. w.i + 1 \in 2 .. Len(old) + 1 /\ w.i + 1 > w.i
  BY <1>1
<1>7. QED
  BY <1>1, <1>4, <1>5, <1>6 DEF Walks

(* Going on in the old tree makes the variant smaller, whatever happens to *)
(* the stack.                                                              *)
LEMMA WalkOn ==
  ASSUME NEW old, IsForest(old), NEW text, IsText(text),
         NEW p \in Parsers(Len(old)), p.root = <<>>,
         NEW w \in Walks(Len(old)), w.i > p.reusable.i,
         NEW s \in Stacks
  PROVE  Variant([p EXCEPT !.reusable = w, !.stack = s], text, Len(old)) < Variant(p, text, Len(old))
<1>1. /\ Len(old) \in Nat /\ Len(text) \in Nat
      /\ p.reusable.i \in 2 .. Len(old) + 1 /\ w.i \in 2 .. Len(old) + 1
  BY CharacterIs DEF IsForest, Parsers, Walks
<1>2. PICK a \in Nat : a = Len(old) + 1 - w.i
  BY <1>1
<1>3. PICK b \in Nat : b = Len(old) + 1 - p.reusable.i
  BY <1>1
<1>4. PICK c \in Nat : c = Len(text) + 2
  BY <1>1
<1>5. a < b
  <2>1. PICK m \in Int : m = Len(old) + 1
    BY <1>1
  <2>2. PICK x \in Int : x = p.reusable.i
    BY <1>1
  <2>3. PICK y \in Int : y = w.i
    BY <1>1
  <2>4. a = m - y
    BY <1>2, <2>1, <2>3
  <2>5. b = m - x
    BY <1>3, <2>1, <2>2
  <2>6. y > x
    BY <2>2, <2>3
  <2>7. QED
    BY <2>4, <2>5, <2>6
<1>6. a * c + c <= b * c /\ a * c \in Nat /\ b * c \in Nat
  BY <1>5, Steps
<1>7. PICK q : q = [p EXCEPT !.reusable = w, !.stack = s]
  OBVIOUS
<1>8. q.root = <<>> /\ q.reusable = w /\ q.stack = s
  BY <1>7 DEF Parsers
<1>9. \A x \in Stacks : EndOf(x.nodes) \in Nat
  <2> SUFFICES ASSUME NEW x \in Stacks
               PROVE  EndOf(x.nodes) \in Nat
    OBVIOUS
  <2>1. IsForest(x.nodes)
    BY ForestsAre DEF Stacks
  <2>2. QED
    BY <2>1, EndOfTyped DEF Positions
<1>10. PICK x \in Nat : x = RestOfText(q, text) /\ x < c
  <2>1. EndOf(q.stack.nodes) \in Nat
    BY <1>8, <1>9
  <2>2. RestOfText(q, text) \in Nat /\ RestOfText(q, text) < c
    BY <1>1, <1>4, <2>1 DEF RestOfText
  <2>3. QED
    BY <2>2
<1>11. PICK y \in Nat : y = RestOfText(p, text)
  <2>1. EndOf(p.stack.nodes) \in Nat
    BY <1>9 DEF Parsers
  <2>2. RestOfText(p, text) \in Nat
    BY <1>1, <2>1 DEF RestOfText
  <2>3. QED
    BY <2>2
<1>12. Variant(q, text, Len(old)) = a * c + x + 1
  BY <1>2, <1>4, <1>8, <1>10 DEF Variant
<1>13. Variant(p, text, Len(old)) = b * c + y + 1
  BY <1>3, <1>4, <1>11 DEF Variant
<1>14. PICK ac \in Nat : ac = a * c
  BY <1>6
<1>15. PICK bc \in Nat : bc = b * c
  BY <1>6
<1>16. ac + x + 1 < bc + y + 1
  BY <1>6, <1>10, <1>14, <1>15
<1>17. QED
  BY <1>7, <1>12, <1>13, <1>14, <1>15, <1>16

(* Shifting a token that was lexed leaves a parser, and makes the variant  *)
(* smaller: either the text is over or a character is taken.               *)
LEMMA ShiftTokenKeeps ==
  ASSUME NEW n \in Nat, NEW text, IsText(text), NEW p \in Parsers(n), p.root = <<>>,
         NEW q, q = ShiftToken(p, Lex(text, EndOf(p.stack.nodes)))
  PROVE  /\ q \in Parsers(n)
         /\ q.root # <<>> \/ Variant(q, text, n) < Variant(p, text, n)
<1>1. p.stack \in Stacks /\ p.reusable \in Walks(n) /\ p.reusable.i \in 2 .. n + 1
  BY DEF Parsers, Walks
<1>2. PICK e \in Positions : e = EndOf(p.stack.nodes)
  BY <1>1, ForestsAre, EndOfTyped DEF Stacks
<1>3. e \in Nat /\ e < Width /\ Len(text) \in Nat /\ Len(text) < Width
  BY <1>2, WidthIsPositive, CharacterIs DEF Positions, IsText
<1>4. PICK token : token = Lex(text, e)
  OBVIOUS
<1>5. /\ token \in TreeNode /\ Leaf(token)
      /\ token.sym # "end" => token.size.b >= 1 /\ e < Len(text) /\ e + Total(token).b <= Len(text)
      /\ Total(token).b = token.pad.b + token.size.b
  BY <1>3, <1>4, LexMeasures
<1>6. PICK ready \in Stacks : ready = Reduced(p.stack, token.sym) /\ EndOf(ready.nodes) = e
  BY <1>1, <1>2, ReducedKeepsEnd DEF SameEnd
<1>7. IsTree(<<token>>) /\ IsForest(<<token>>) /\ EndOf(<<token>>) = Total(token).b
  BY <1>5, LeafIsTree
<1>8. CASE token.sym = "end"
  <2>1. q = [p EXCEPT !.root = Accept(ready, <<token>>)]
    BY <1>2, <1>4, <1>6, <1>8 DEF ShiftToken
  <2>2. Accept(ready, <<token>>) \in Roots /\ Accept(ready, <<token>>) # <<>>
    BY <1>6, <1>7, AcceptIsRoot
  <2>3. q \in Parsers(n) /\ q.root # <<>>
    BY <2>1, <2>2 DEF Parsers
  <2>4. QED
    BY <2>3
<1>9. CASE token.sym # "end"
  <2>1. PICK s : s = ts_stack_push(ready, <<token>>, FALSE)
    OBVIOUS
  <2>2. q = [p EXCEPT !.stack = s]
    BY <1>2, <1>4, <1>6, <1>9, <2>1 DEF ShiftToken
  <2>3. s \in Stacks /\ EndOf(s.nodes) = Plus(e, Total(token).b)
    BY <1>6, <1>7, <2>1, PushIsStack
  <2>4. PICK d \in Nat : d = Total(token).b /\ d >= 1 /\ e + d <= Len(text)
    <3>1. token.pad.b \in Nat /\ token.size.b \in Nat
      BY <1>5 DEF TreeNode, Lengths
    <3>2. QED
      BY <1>5, <1>9, <3>1
  <2>5. EndOf(s.nodes) = e + d
    <3>1. EndOf(s.nodes) = Plus(e, d) /\ e + d < Width
      BY <1>3, <2>3, <2>4, WidthIsPositive
    <3>2. QED
      BY <3>1 DEF Plus
  <2>6. /\ q \in Parsers(n) /\ q.reusable = p.reusable /\ q.root = <<>> /\ q.stack = s
    BY <2>2, <2>3 DEF Parsers
  <2>7. RestOfText(p, text) = Len(text) - e
    BY <1>2, <1>5, <1>9 DEF RestOfText
  <2>8. RestOfText(q, text) = Len(text) - (e + d)
    BY <1>3, <2>4, <2>5, <2>6 DEF RestOfText
  <2>9. PICK z \in Int : z = (n + 1 - p.reusable.i) * (Len(text) + 2)
    BY <1>1, <1>3
  <2>10. Variant(p, text, n) = z + (Len(text) - e) + 1
    BY <2>7, <2>9 DEF Variant
  <2>11. Variant(q, text, n) = z + (Len(text) - (e + d)) + 1
    BY <2>6, <2>8, <2>9 DEF Variant
  <2>12. z + (Len(text) - (e + d)) + 1 < z + (Len(text) - e) + 1
    <3>1. PICK l \in Int : l = Len(text)
      BY <1>3
    <3>2. e \in Int /\ d \in Int /\ d >= 1 /\ z \in Int
      BY <1>3, <2>4, <2>9
    <3>3. z + (l - (e + d)) + 1 < z + (l - e) + 1
      BY <3>1, <3>2
    <3>4. QED
      BY <3>1, <3>3
  <2>13. QED
    BY <2>6, <2>10, <2>11, <2>12
<1>10. QED
  BY <1>8, <1>9

(* Shifting a node of the old tree leaves a parser that has gone on in the *)
(* old tree.                                                               *)
LEMMA ShiftReusedKeeps ==
  ASSUME NEW old, IsForest(old), NEW text, IsText(text),
         NEW p \in Parsers(Len(old)), p.root = <<>>, p.reusable.i <= Len(old),
         NEW q, q = ShiftReused(p, old)
  PROVE  /\ q \in Parsers(Len(old))
         /\ q.root # <<>> \/ Variant(q, text, Len(old)) < Variant(p, text, Len(old))
<1>1. /\ p.stack \in Stacks /\ p.reusable \in Walks(Len(old)) /\ p.reusable.i \in 2 .. Len(old) + 1
      /\ p.reusable.at \in Positions
      /\ Len(old) \in Nat /\ DOMAIN old = 1 .. Len(old) /\ p.reusable.i \in DOMAIN old
  BY DEF Parsers, Walks, IsForest
<1>2. PICK ready \in Stacks : ready = Reduced(p.stack, old[FirstLeaf(old, p.reusable.i)].sym)
  BY <1>1, ReducedKeepsEnd DEF SameEnd
<1>3. PICK broken : broken = ts_parser__breakdown_lookahead(old, p.reusable, InStatement(ready.nodes))
  OBVIOUS
<1>4. broken \in Walks(Len(old)) /\ broken.i >= p.reusable.i /\ broken.i <= Len(old)
  <2>1. FirstLeaf(old, p.reusable.i) \in p.reusable.i .. Len(old)
    BY <1>1, FirstLeafIs
  <2>2. [p.reusable EXCEPT !.i = FirstLeaf(old, p.reusable.i)] =
          [i |-> FirstLeaf(old, p.reusable.i), at |-> p.reusable.at]
    BY <1>1 DEF Walks
  <2>3. FirstLeaf(old, p.reusable.i) \in 2 .. Len(old) + 1
    BY <1>1, <2>1
  <2>4. CASE broken = [p.reusable EXCEPT !.i = FirstLeaf(old, p.reusable.i)]
    BY <1>1, <2>1, <2>2, <2>3, <2>4 DEF Walks
  <2>5. CASE broken = p.reusable
    BY <1>1, <2>5
  <2>6. QED
    BY <1>3, <2>4, <2>5 DEF ts_parser__breakdown_lookahead
<1>5. broken.i \in DOMAIN old
  BY <1>1, <1>4 DEF Walks
<1>6. PICK shifted : shifted = Subtree(old, broken.i)
  OBVIOUS
<1>7. IsTree(shifted) /\ IsForest(shifted)
  BY <1>5, <1>6, SubtreeIsTree
<1>8. CASE shifted[1].sym = "end"
  <2>1. q = [p EXCEPT !.root = Accept(ready, shifted)]
    BY <1>2, <1>3, <1>6, <1>8 DEF ShiftReused
  <2>2. Accept(ready, shifted) \in Roots /\ Accept(ready, shifted) # <<>>
    BY <1>7, AcceptIsRoot
  <2>3. QED
    BY <2>1, <2>2 DEF Parsers
<1>9. CASE shifted[1].sym # "end"
  <2>1. PICK s : s = ts_stack_push(ready, shifted, ~Leaf(shifted[1]))
    OBVIOUS
  <2>2. s \in Stacks
    BY <1>7, <2>1, PushIsStack
  <2>3. PICK w : w = reusable_node_advance(old, broken)
    OBVIOUS
  <2>4. w \in Walks(Len(old)) /\ w.i > p.reusable.i
    <3>1. w \in Walks(Len(old)) /\ w.i > broken.i
      BY <1>4, <2>3, WalkMoves
    <3>2. w.i \in Int /\ broken.i \in Int
      BY <1>1, <1>4, <3>1 DEF Walks
    <3>3. QED
      BY <1>1, <1>4, <3>1, <3>2
  <2>5. q = [p EXCEPT !.reusable = w, !.stack = s]
    BY <1>2, <1>3, <1>6, <1>9, <2>1, <2>3 DEF ShiftReused
  <2>6. q \in Parsers(Len(old))
    BY <2>2, <2>4, <2>5 DEF Parsers
  <2>7. Variant(q, text, Len(old)) < Variant(p, text, Len(old))
    BY <2>2, <2>4, <2>5, WalkOn
  <2>8. QED
    BY <2>6, <2>7
<1>10. QED
  BY <1>8, <1>9

(* What a turn of the parser does, case by case.                           *)
Turn(p, text, old, start, q) ==
  \/ p.root # <<>> /\ q = p
  \/ /\ p.root = <<>>
     /\ \/ /\ p.reusable.i > Len(old) \/ p.reusable.at > EndOf(p.stack.nodes)
           /\ q = ShiftToken(p, Lex(text, EndOf(p.stack.nodes)))
        \/ /\ ~(p.reusable.i > Len(old)) /\ ~(p.reusable.at > EndOf(p.stack.nodes))
           /\ \/ /\ p.reusable.at < EndOf(p.stack.nodes)
                 /\ \/ (p.reusable.at + Total(old[p.reusable.i]).b) % Width
                         <= EndOf(p.stack.nodes)
                    \/ Leaf(old[p.reusable.i])
                 /\ q = [p EXCEPT !.reusable = reusable_node_advance(old, p.reusable)]
              \/ /\ ~(p.reusable.at < EndOf(p.stack.nodes))
                 /\ CanReuse(old[p.reusable.i], p.reusable.at, start)
                 /\ q = ShiftReused(p, old)
              \/ /\ ~(p.reusable.at < EndOf(p.stack.nodes))
                 /\ Leaf(old[p.reusable.i])
                 /\ q = [[p EXCEPT !.reusable = reusable_node_advance(old, p.reusable)] EXCEPT
                           !.stack = ts_parser__breakdown_top_of_stack(@)]
              \/ /\ ~Leaf(old[p.reusable.i])
                 /\ q = [p EXCEPT !.reusable = reusable_node_descend(p.reusable)]

(* A turn of the loop is one of these.                                     *)
LEMMA AdvanceCases ==
  ASSUME NEW p, NEW text, NEW old, NEW start, NEW q, q = Advance(p, text, old, start)
  PROVE  Turn(p, text, old, start, q)
  BY DEF Advance, EndOf, ts_stack_position, Turn

(* A turn of the loop leaves a parser, and makes the variant smaller until *)
(* a tree is accepted.                                                     *)
LEMMA AdvanceKeeps ==
  ASSUME NEW old, IsForest(old), NEW text, IsText(text), NEW start,
         NEW p \in Parsers(Len(old)), NEW q, q = Advance(p, text, old, start)
  PROVE  /\ q \in Parsers(Len(old))
         /\ \/ q.root # <<>>
            \/ p.root = <<>> /\ Variant(q, text, Len(old)) < Variant(p, text, Len(old))
<1>1. /\ p.stack \in Stacks /\ p.reusable \in Walks(Len(old))
      /\ Len(old) \in Nat /\ p.reusable.i \in 2 .. Len(old) + 1
  BY DEF Parsers, Walks, IsForest
<1>2. CASE p.root # <<>> /\ q = p
  BY <1>2
<1>3. CASE p.root = <<>> /\ q = ShiftToken(p, Lex(text, EndOf(p.stack.nodes)))
  BY <1>1, <1>3, ShiftTokenKeeps
<1>4. CASE p.root = <<>> /\ p.reusable.i <= Len(old) /\ q = ShiftReused(p, old)
  BY <1>4, ShiftReusedKeeps
<1>5. ASSUME NEW w, w \in {reusable_node_advance(old, p.reusable), reusable_node_descend(p.reusable)},
             NEW s, s \in {p.stack, ts_parser__breakdown_top_of_stack(p.stack)},
             p.root = <<>>, p.reusable.i <= Len(old), q = [p EXCEPT !.reusable = w, !.stack = s]
      PROVE  q \in Parsers(Len(old)) /\ Variant(q, text, Len(old)) < Variant(p, text, Len(old))
  <2>1. w \in Walks(Len(old)) /\ w.i > p.reusable.i
    BY <1>1, <1>5, WalkMoves
  <2>2. s \in Stacks
    BY <1>1, <1>5, BrokenIsStack
  <2>3. q \in Parsers(Len(old))
    BY <1>5, <2>1, <2>2 DEF Parsers
  <2>4. QED
    BY <1>5, <2>1, <2>2, <2>3, WalkOn
<1>6. CASE /\ p.root = <<>> /\ p.reusable.i <= Len(old)
           /\ q = [p EXCEPT !.reusable = reusable_node_advance(old, p.reusable)]
  <2>1. q = [p EXCEPT !.reusable = reusable_node_advance(old, p.reusable), !.stack = p.stack]
    BY <1>6 DEF Parsers
  <2>2. QED
    BY <1>5, <1>6, <2>1
<1>7. CASE /\ p.root = <<>> /\ p.reusable.i <= Len(old)
           /\ q = [p EXCEPT !.reusable = reusable_node_descend(p.reusable)]
  <2>1. q = [p EXCEPT !.reusable = reusable_node_descend(p.reusable), !.stack = p.stack]
    BY <1>7 DEF Parsers
  <2>2. QED
    BY <1>5, <1>7, <2>1
<1>8. CASE /\ p.root = <<>> /\ p.reusable.i <= Len(old)
           /\ q = [[p EXCEPT !.reusable = reusable_node_advance(old, p.reusable)] EXCEPT
                     !.stack = ts_parser__breakdown_top_of_stack(@)]
  <2>1. q = [p EXCEPT !.reusable = reusable_node_advance(old, p.reusable),
                      !.stack = ts_parser__breakdown_top_of_stack(p.stack)]
    BY <1>8 DEF Parsers
  <2>2. QED
    BY <1>5, <1>8, <2>1
<1>9. ~(p.reusable.i > Len(old)) => p.reusable.i <= Len(old)
  BY <1>1
<1>10. \/ p.root # <<>> /\ q = p
       \/ p.root = <<>> /\ q = ShiftToken(p, Lex(text, EndOf(p.stack.nodes)))
       \/ p.root = <<>> /\ p.reusable.i <= Len(old) /\ q = ShiftReused(p, old)
       \/ /\ p.root = <<>> /\ p.reusable.i <= Len(old)
          /\ q = [p EXCEPT !.reusable = reusable_node_advance(old, p.reusable)]
       \/ /\ p.root = <<>> /\ p.reusable.i <= Len(old)
          /\ q = [p EXCEPT !.reusable = reusable_node_descend(p.reusable)]
       \/ /\ p.root = <<>> /\ p.reusable.i <= Len(old)
          /\ q = [[p EXCEPT !.reusable = reusable_node_advance(old, p.reusable)] EXCEPT
                     !.stack = ts_parser__breakdown_top_of_stack(@)]
  <2>1. Turn(p, text, old, start, q)
    BY AdvanceCases
  <2>2. QED
    BY <1>9, <2>1 DEF Turn
<1>11. QED
  BY <1>2, <1>3, <1>4, <1>6, <1>7, <1>8, <1>10

(* ts_parser_parse ends, with the tree of a program.                       *)
IsSyntaxTree(r) == IsTree(r) /\ r[1].sym = "program"

IsKept(I, text, old) ==
  /\ I \in SUBSET Parsers(Len(old.root))
  /\ NewParser(old.root) \in I
  /\ \A p \in I : Advance(p, text, old.root, old.start) \in I

(* The parser's loop ends with a tree it accepted, in every set of parsers *)
(* that holds the new parser and is closed under its turns.                *)
LEMMA ParserEnds ==
  ASSUME NEW text, IsText(text), NEW old, IsTree(old.root), NEW I, IsKept(I, text, old)
  PROVE  \E p \in I : p.root # <<>> /\ ts_parser_parse(text, old) = [root |-> p.root, start |-> 0]
<1>1. IsForest(old.root) /\ Len(old.root) \in Nat \ {0} /\ Len(text) \in Nat
  BY CharacterIs, EndOfTree DEF IsTree
<1>2. PICK N \in Nat \ {0} : N = Len(old.root)
  BY <1>1
<1>3. PICK n \in Nat : n = MaxTurns(text, old.root)
  <2>1. MaxTurns(text, old.root) \in Nat
    <3>1. PICK a \in Nat : a = Len(old.root) + 1
      BY <1>1
    <3>2. PICK b \in Nat : b = Len(text) + 2
      BY <1>1
    <3>3. a * b \in Nat
      OBVIOUS
    <3>4. QED
      BY <3>1, <3>2, <3>3 DEF MaxTurns
  <2>2. QED
    BY <2>1
<1> DEFINE first == NewParser(old.root)
           A == [k \in 0 .. n |-> I]
           V == [p \in Parsers(N) |-> Variant(p, text, N)]
           Over == {p \in Parsers(N) : p.root # <<>>}
<1>4. first = [reusable |-> [i |-> 2, at |-> 0], stack |-> [nodes |-> <<>>, pending |-> {}], root |-> <<>>]
  BY DEF NewParser, reusable_node_reset, EmptyStack
<1>5. I \in SUBSET Parsers(N) /\ first \in I /\ first \in Parsers(N)
  BY <1>2 DEF IsKept
<1>6. \A k \in 1 .. n : \A x \in A[k - 1] : Advance(x, text, old.root, old.start) \in A[k]
  BY DEF IsKept
<1>7. first \in A[0]
  BY <1>3, <1>5
<1>first. first = NewParser(old.root)
  OBVIOUS
<1>8. PICK loop : /\ \A k \in 0 .. n : loop[k] \in A[k]
                  /\ loop[0] = first
                  /\ \A k \in 1 .. n : loop[k] = Advance(loop[k - 1], text, old.root, old.start)
                  /\ ts_parser_parse(text, old) = [root |-> loop[n].root, start |-> 0]
  <2> HIDE DEF A, first
  <2>1. QED
    BY <1>3, <1>6, <1>7, <1>first, ParserTurns
<1>9. \A k \in 0 .. n : loop[k] \in I /\ loop[k] \in Parsers(N)
  BY <1>5, <1>8
<1>10. \A x \in Parsers(N) : V[x] \in Nat /\ (V[x] = 0 => x \in Over)
  <2> SUFFICES ASSUME NEW x \in Parsers(N)
               PROVE  Variant(x, text, N) \in Nat /\ (Variant(x, text, N) = 0 => x.root # <<>>)
    OBVIOUS
  <2>1. CASE x.root # <<>>
    BY <2>1 DEF Variant
  <2>2. CASE x.root = <<>>
    <3>1. PICK a \in Nat : a = N + 1 - x.reusable.i
      <4>1. x.reusable.i \in 2 .. N + 1
        BY DEF Parsers, Walks
      <4>2. N + 1 - x.reusable.i \in Nat
        BY <4>1
      <4>3. QED
        BY <4>2
    <3>2. PICK c \in Nat : c = Len(text) + 2
      BY <1>1
    <3>3. PICK m \in Nat : m = a * c
      OBVIOUS
    <3>4. PICK r \in Nat : r = RestOfText(x, text)
      <4>1. IsForest(x.stack.nodes)
        BY ForestsAre DEF Parsers, Stacks
      <4>2. EndOf(x.stack.nodes) \in Nat
        BY <4>1, EndOfTyped DEF Positions
      <4>3. RestOfText(x, text) \in Nat
        BY <1>1, <4>2 DEF RestOfText
      <4>4. QED
        BY <4>3
    <3>5. Variant(x, text, N) = m + r + 1
      BY <2>2, <3>1, <3>2, <3>3, <3>4 DEF Variant
    <3>6. QED
      BY <3>5
  <2>3. QED
    BY <2>1, <2>2
<1>11. V[loop[0]] <= n
  <2>1. V[loop[0]] = Variant(first, text, N)
    BY <1>5, <1>8
  <2>2. PICK r \in Nat : r = RestOfText(first, text) /\ r <= Len(text)
    <3>1. EndOf(<<>>) \in Nat
      BY ForestsAre, EndOfTyped DEF Positions
    <3>2. first.stack.nodes = <<>>
      BY <1>4
    <3>3. RestOfText(first, text) \in Nat /\ RestOfText(first, text) <= Len(text)
      BY <1>1, <3>1, <3>2 DEF RestOfText
    <3>4. QED
      BY <3>3
  <2>3. PICK c \in Nat : c = Len(text) + 2
    BY <1>1
  <2>4. PICK m \in Nat : m = N * c
    OBVIOUS
  <2>5. Variant(first, text, N) = (N + 1 - 2) * c + r + 1
    BY <1>4, <2>2, <2>3 DEF Variant
  <2>6. (N + 1 - 2) * c = m - c /\ n = m + c
    <3>1. (N + 1 - 2) * c = N * c - c /\ (N + 1) * c = N * c + c
      BY <1>2
    <3>2. QED
      BY <1>2, <1>3, <2>3, <2>4, <3>1 DEF MaxTurns
  <2>7. (m - c) + r + 1 <= m + c
    BY <1>1, <2>2, <2>3
  <2>8. QED
    BY <2>1, <2>5, <2>6, <2>7
<1>12. \A k \in 1 .. n : loop[k] \in Over \/ (loop[k - 1] \notin Over /\ V[loop[k]] < V[loop[k - 1]])
  <2> SUFFICES ASSUME NEW k \in 1 .. n
               PROVE  loop[k] \in Over \/ (loop[k - 1] \notin Over /\ V[loop[k]] < V[loop[k - 1]])
    OBVIOUS
  <2>1. loop[k] \in Parsers(N) /\ loop[k - 1] \in Parsers(N)
    BY <1>9
  <2>2. \/ loop[k].root # <<>>
        \/ loop[k - 1].root = <<>> /\ Variant(loop[k], text, N) < Variant(loop[k - 1], text, N)
    BY <1>1, <1>2, <1>8, <2>1, AdvanceKeeps
  <2>3. QED
    BY <2>1, <2>2
<1>13. loop[n] \in Over
  <2> HIDE DEF V, Over, first, A
  <2>1. QED
    BY <1>9, <1>10, <1>11, <1>12, LoopEnds
<1>14. n \in 0 .. n /\ loop[n].root # <<>>
  BY <1>3, <1>13
<1>15. QED
  BY <1>8, <1>9, <1>14

(* A new parser is at the second node of the old tree, with an empty       *)
(* stack.                                                                  *)
LEMMA NewParserIs ==
  ASSUME NEW old, NEW N \in Nat \ {0}
  PROVE  /\ NewParser(old) \in Parsers(N)
         /\ NewParser(old) =
              [reusable |-> [i |-> 2, at |-> 0], stack |-> [nodes |-> <<>>, pending |-> {}], root |-> <<>>]
<1>1. NewParser(old) =
        [reusable |-> [i |-> 2, at |-> 0], stack |-> [nodes |-> <<>>, pending |-> {}], root |-> <<>>]
  BY DEF NewParser, reusable_node_reset, EmptyStack
<1>2. [i |-> 2, at |-> 0] \in Walks(N)
  BY WidthIsPositive DEF Walks, Positions
<1>3. [nodes |-> <<>>, pending |-> {}] \in Stacks
  BY ForestsAre DEF Stacks
<1>4. <<>> \in Roots
  BY DEF Roots
<1>5. QED
  BY <1>1, <1>2, <1>3, <1>4 DEF Parsers

(* ts_parser_parse comes to an end, with a tree whose root is the program, *)
(* whatever old tree it is given: MaxTurns turns are enough for every      *)
(* text.                                                                   *)
LEMMA ParsedIsTree ==
  ASSUME NEW text, IsText(text), NEW old, IsTree(old.root)
  PROVE  /\ IsSyntaxTree(ts_parser_parse(text, old).root)
         /\ ts_parser_parse(text, old).start = 0
<1>1. IsForest(old.root) /\ Len(old.root) \in Nat \ {0}
  BY EndOfTree DEF IsTree
<1>2. PICK I : I = Parsers(Len(old.root))
  OBVIOUS
<1>3. IsKept(I, text, old)
  <2>1. NewParser(old.root) \in I
    BY <1>1, <1>2, NewParserIs
  <2>2. \A p \in I : Advance(p, text, old.root, old.start) \in I
    BY <1>1, <1>2, AdvanceKeeps
  <2>3. QED
    BY <1>2, <2>1, <2>2 DEF IsKept
<1>4. PICK p \in I : p.root # <<>> /\ ts_parser_parse(text, old) = [root |-> p.root, start |-> 0]
  BY <1>3, ParserEnds
<1>5. p.root \in Roots
  BY <1>2 DEF Parsers
<1>6. QED
  BY <1>4, <1>5 DEF Roots, IsSyntaxTree

(***************************************************************************)
(* ts_subtree_edit.                                                        *)
(***************************************************************************)
Edits == [start : Lengths, old : Lengths, new : Lengths]

EditedNodes == [right : Lengths, own : Edits, edited : BOOLEAN, edit : Edits, live : BOOLEAN]

(* The edit a child is given is an edit.                                   *)
LEMMA ChildEditTyped ==
  ASSUME NEW e \in Edits, NEW left \in Lengths, NEW right \in Lengths
  PROVE  ChildEdit(e, left, right) \in Edits
<1> DEFINE moved(x) == IF x.b < left.b THEN Zero ELSE length_sub(x, left)
<1>1. \A x \in Lengths : moved(x) \in Lengths
  BY ZeroIsLength, PlusLength
<1>2. e.start \in Lengths /\ e.old \in Lengths /\ e.new \in Lengths
  BY DEF Edits
<1>3. PICK s \in Lengths : s = moved(e.start)
  BY <1>1, <1>2
<1>4. PICK o \in Lengths : o = moved(e.old)
  BY <1>1, <1>2
<1>5. PICK n \in Lengths : n = moved(e.new)
  BY <1>1, <1>2
<1>6. PICK d \in Lengths : d = length_sub(right, left)
  BY PlusLength
<1>7. ChildEdit(e, left, right) =
        [start |-> s,
         old |-> IF ~Touches(e, right) THEN s ELSE IF e.old.b > right.b THEN d ELSE o,
         new |-> IF Touches(e, right) THEN n ELSE s]
  BY <1>3, <1>4, <1>5, <1>6 DEF ChildEdit
<1>8. QED
  BY <1>7 DEF Edits

(* What the loop over children makes of a child.                           *)
LEMMA EditChildTyped ==
  ASSUME NEW n \in TreeNode, Total(n) \in Lengths, NEW left \in Lengths, NEW e \in Edits,
         NEW live \in BOOLEAN, NEW first \in BOOLEAN
  PROVE  EditChild(n, left, e, live, first) \in EditedNodes
<1>1. PICK right \in Lengths : right = length_add(left, Total(n))
  BY PlusLength
<1>2. PICK own \in Edits : own = ChildEdit(e, left, right)
  BY ChildEditTyped
<1>0. right.b \in Int /\ n.look \in Int /\ e.start.b \in Int /\ e.old.b \in Int /\ left.b \in Int
      /\ Total(n).b \in Int
  <2>1. e.start \in Lengths /\ e.old \in Lengths
    BY DEF Edits
  <2>2. \A x \in Lengths : x.b \in Int
    BY WidthIsPositive DEF Lengths
  <2>3. QED
    BY <2>1, <2>2 DEF TreeNode
<1>3. PICK skips \in BOOLEAN : skips <=> (right.b + n.look < e.start.b)
  <2>1. \E skips \in {TRUE, FALSE} : skips <=> (right.b + n.look < e.start.b)
    BY Zenon
  <2>2. QED
    BY <2>1
<1>4. PICK stops \in BOOLEAN :
        stops <=> (~skips /\ (left.b > e.old.b \/ (left.b = e.old.b /\ Total(n).b > 0 /\ ~first)))
  <2>1. \E stops \in {TRUE, FALSE} :
        stops <=> (~skips /\ (left.b > e.old.b \/ (left.b = e.old.b /\ Total(n).b > 0 /\ ~first)))
    BY Zenon
  <2>2. QED
    BY <2>1
<1>5. PICK untouched \in BOOLEAN : untouched = Untouched(n, own)
  BY DEF Untouched
<1>6. PICK edit \in Edits :
        edit = IF ~skips /\ Touches(e, right) THEN [e EXCEPT !.new = e.start] ELSE e
  <2>1. [e EXCEPT !.new = e.start] \in Edits
    BY DEF Edits
  <2>2. QED
    BY <2>1
<1>7. EditChild(n, left, e, live, first) =
        [right |-> right, own |-> own, edited |-> live /\ ~skips /\ ~stops /\ ~untouched,
         edit |-> edit, live |-> live /\ ~stops]
  BY <1>1, <1>2, <1>3, <1>4, <1>5, <1>6 DEF EditChild
<1>8. QED
  BY <1>7 DEF EditedNodes

(* What an edit is when it comes to a node.                                *)
LEMMA EditOfTyped ==
  ASSUME NEW t, IsForest(t), NEW e \in Edits, NEW j \in 1 .. Len(t),
         NEW c \in Seq(EditedNodes), Len(c) >= j - 1
  PROVE  EditOf(t, e, c, j) \in EditedNodes
<1>1. Len(t) \in Nat /\ j \in DOMAIN t /\ Total(t[j]) \in Lengths
  BY NodeFacts DEF IsForest
<1>2. \A i \in 1 .. j - 1 : c[i] \in EditedNodes
  <2> SUFFICES ASSUME NEW i \in 1 .. j - 1
               PROVE  c[i] \in EditedNodes
    OBVIOUS
  <2>1. i \in 1 .. Len(c)
    BY <1>1
  <2>2. QED
    BY <2>1
<1>3. CASE j = 1
  <2>1. PICK b \in BOOLEAN : b = ~Untouched(t[1], e)
    BY DEF Untouched
  <2>2. EditOf(t, e, c, j) = [right |-> Total(t[1]), own |-> e, edited |-> b, edit |-> e, live |-> FALSE]
    BY <1>3, <2>1 DEF EditOf
  <2>3. [right |-> Total(t[1]), own |-> e, edited |-> b, edit |-> e, live |-> FALSE] \in EditedNodes
    <3>1. FALSE \in BOOLEAN /\ Total(t[1]) \in Lengths
      BY <1>1, <1>3
    <3>2. \A x \in Lengths, no \in BOOLEAN :
            [right |-> x, own |-> e, edited |-> b, edit |-> e, live |-> no] \in EditedNodes
      BY DEF EditedNodes
    <3>3. QED
      BY <3>1, <3>2, Zenon
  <2>4. QED
    BY <2>2, <2>3, Zenon
<1>4. CASE j > 1 /\ ~Leaf(t[j - 1])
  <2>1. j - 1 \in 1 .. j - 1
    BY <1>1, <1>4
  <2>2. c[j - 1] \in EditedNodes
    BY <1>2, <2>1
  <2>3. c[j - 1].own \in Edits /\ c[j - 1].edited \in BOOLEAN
    BY <2>2 DEF EditedNodes
  <2>4. j # 1
    BY <1>1, <1>4
  <2>5. EditOf(t, e, c, j) = EditChild(t[j], Zero, c[j - 1].own, c[j - 1].edited, TRUE)
    BY <1>4, <2>4, Zenon DEF EditOf
  <2>6. t[j] \in TreeNode
    BY <1>1 DEF IsForest
  <2>7. EditChild(t[j], Zero, c[j - 1].own, c[j - 1].edited, TRUE) \in EditedNodes
    <3>1. TRUE \in BOOLEAN
      OBVIOUS
    <3>2. QED
      BY <1>1, <2>3, <2>6, <3>1, ZeroIsLength, EditChildTyped, Zenon
  <2>8. QED
    BY <2>5, <2>7, Zenon
<1>5. CASE j > 1 /\ Leaf(t[j - 1])
  <2>1. j \in 2 .. Len(t) + 1
    BY <1>1, <1>5
  <2>2. PICK i \in 1 .. j - 1 : i = Before(t, j)
    BY <1>5, <2>1, BeforeIs
  <2>3. c[i] \in EditedNodes
    BY <1>2
  <2>4. c[i].right \in Lengths /\ c[i].edit \in Edits /\ c[i].live \in BOOLEAN
    BY <2>3 DEF EditedNodes
  <2>5. j # 1
    BY <1>1, <1>5
  <2>6. EditOf(t, e, c, j) = EditChild(t[j], c[i].right, c[i].edit, c[i].live, FALSE)
    BY <1>5, <2>2, <2>5, Zenon DEF EditOf
  <2>7. t[j] \in TreeNode
    BY <1>1 DEF IsForest
  <2>8. EditChild(t[j], c[i].right, c[i].edit, c[i].live, FALSE) \in EditedNodes
    <3>1. FALSE \in BOOLEAN
      OBVIOUS
    <3>2. QED
      BY <1>1, <2>4, <2>7, <3>1, EditChildTyped, Zenon
  <2>9. QED
    BY <2>6, <2>8, Zenon
<1>6. QED
  BY <1>1, <1>3, <1>4, <1>5

(* It depends on the nodes before it only.                                 *)
LEMMA EditOfLocal ==
  ASSUME NEW t, IsForest(t), NEW e, NEW j \in 1 .. Len(t), NEW c, NEW d,
         \A i \in 1 .. j - 1 : c[i] = d[i]
  PROVE  EditOf(t, e, c, j) = EditOf(t, e, d, j)
<1>1. Len(t) \in Nat
  BY DEF IsForest
<1>2. CASE j = 1
  BY <1>2 DEF EditOf
<1>3. CASE j > 1 /\ ~Leaf(t[j - 1])
  <2>1. j - 1 \in 1 .. j - 1
    BY <1>1, <1>3
  <2>2. c[j - 1] = d[j - 1]
    BY <2>1
  <2>3. QED
    BY <1>3, <2>2 DEF EditOf
<1>4. CASE j > 1 /\ Leaf(t[j - 1])
  <2>1. j \in 2 .. Len(t) + 1
    BY <1>1, <1>4
  <2>2. Before(t, j) \in 1 .. j - 1
    BY <1>4, <2>1, BeforeIs
  <2>3. c[Before(t, j)] = d[Before(t, j)]
    BY <2>2
  <2>4. QED
    BY <1>4, <2>1, <2>3 DEF EditOf
<1>5. QED
  BY <1>1, <1>2, <1>3, <1>4

(* EditChildren gives each node the edit as it comes to it.                *)
LEMMA EditsAre ==
  ASSUME NEW t, IsForest(t), NEW e \in Edits
  PROVE  /\ EditChildren(t, e) \in Seq(EditedNodes)
         /\ Len(EditChildren(t, e)) = Len(t)
         /\ \A j \in 1 .. Len(t) : /\ EditChildren(t, e)[j] \in EditedNodes
                                   /\ EditChildren(t, e)[j] = EditOf(t, e, EditChildren(t, e), j)
<1> DEFINE n == Len(t)
           A == [k \in 0 .. n |-> {s \in Seq(EditedNodes) :
                   Len(s) = k /\ \A j \in 1 .. k : s[j] = EditOf(t, e, s, j)}]
<1>1. n \in Nat /\ Len(t) \in Nat
  BY DEF IsForest
<1>2. <<>> \in A[0]
  BY <1>1
<1>3. ASSUME NEW k \in 1 .. n, NEW s \in A[k - 1]
      PROVE  WithEdit(t, e, s, k) \in A[k]
  <2>1. k - 1 \in 0 .. n
    BY <1>1
  <2>2. s \in Seq(EditedNodes) /\ Len(s) = k - 1 /\ \A j \in 1 .. k - 1 : s[j] = EditOf(t, e, s, j)
    BY <2>1
  <2>3. EditOf(t, e, s, k) \in EditedNodes
    BY <1>1, <2>2, EditOfTyped
  <2>4. PICK x \in EditedNodes : x = EditOf(t, e, s, k)
    BY <2>3
  <2>5. PICK u : u = WithEdit(t, e, s, k)
    OBVIOUS
  <2>6. u = Append(s, x)
    BY <2>4, <2>5 DEF WithEdit
  <2>7. u \in Seq(EditedNodes) /\ Len(u) = k
    BY <1>1, <2>2, <2>6, AppendProperties
  <2>8. \A j \in 1 .. k - 1 : u[j] = s[j]
    BY <2>2, <2>6, AppendProperties
  <2>9. u[k] = x
    BY <1>1, <2>2, <2>6, AppendProperties
  <2>10. ASSUME NEW j \in 1 .. k
         PROVE  u[j] = EditOf(t, e, u, j)
    <3>1. j \in 1 .. Len(t) /\ \A i \in 1 .. j - 1 : i \in 1 .. k - 1
      BY <1>1
    <3>2. EditOf(t, e, u, j) = EditOf(t, e, s, j)
      <4>1. \A i \in 1 .. j - 1 : u[i] = s[i]
        BY <2>8, <3>1
      <4>2. QED
        BY <3>1, <4>1, EditOfLocal
    <3>3. CASE j = k
      BY <2>4, <2>9, <3>2, <3>3
    <3>4. CASE j # k
      <4>1. j \in 1 .. k - 1
        BY <1>1, <3>4
      <4>2. QED
        BY <2>2, <2>8, <3>2, <4>1
    <3>5. QED
      BY <3>3, <3>4
  <2>11. k \in 0 .. n
    BY <1>1
  <2>12. QED
    BY <2>5, <2>7, <2>10, <2>11
<1>4. EditChildren(t, e) \in A[n]
  <2>1. n \in 0 .. n
    BY <1>1
  <2> HIDE DEF A
  <2>2. PICK loop : (\A k \in 0 .. n : loop[k] \in A[k]) /\ EditChildren(t, e) = loop[n]
    BY <1>1, <1>2, <1>3, EditTurns
  <2>3. QED
    BY <2>1, <2>2
<1>5. n \in 0 .. n
  BY <1>1
<1>6. EditChildren(t, e) \in Seq(EditedNodes) /\ Len(EditChildren(t, e)) = n
      /\ \A j \in 1 .. n : EditChildren(t, e)[j] = EditOf(t, e, EditChildren(t, e), j)
  BY <1>4, <1>5
<1>7. QED
  BY <1>1, <1>6

(* A node that is reshaped stays a node of its kind, with as many nodes    *)
(* below it.                                                               *)
LEMMA ReshapeTyped ==
  ASSUME NEW n \in TreeNode, NEW e \in Edits
  PROVE  /\ Reshape(n, e) \in TreeNode
         /\ Reshape(n, e).sym = n.sym /\ Reshape(n, e).node_count = n.node_count
         /\ Reshape(n, e).look = n.look
<1>1. e.start \in Lengths /\ e.old \in Lengths /\ e.new \in Lengths /\ n.pad \in Lengths /\ n.size \in Lengths
  BY DEF Edits, TreeNode
<1>2. ASSUME NEW pad \in Lengths, NEW size \in Lengths
      PROVE  /\ [n EXCEPT !.pad = pad] \in TreeNode /\ [n EXCEPT !.pad = pad].sym = n.sym
             /\ [n EXCEPT !.pad = pad].node_count = n.node_count /\ [n EXCEPT !.pad = pad].look = n.look
             /\ [n EXCEPT !.size = size] \in TreeNode /\ [n EXCEPT !.size = size].sym = n.sym
             /\ [n EXCEPT !.size = size].node_count = n.node_count /\ [n EXCEPT !.size = size].look = n.look
             /\ [n EXCEPT !.size = size, !.pad = pad] \in TreeNode
             /\ [n EXCEPT !.size = size, !.pad = pad].sym = n.sym
             /\ [n EXCEPT !.size = size, !.pad = pad].node_count = n.node_count
             /\ [n EXCEPT !.size = size, !.pad = pad].look = n.look
  BY DEF TreeNode
<1>3. PICK p1 \in Lengths : p1 = length_add(e.new, length_sub(n.pad, e.old))
  BY <1>1, PlusLength
<1>4. PICK s2 \in Lengths : s2 = length_sub(n.size, length_sub(e.old, n.pad))
  BY <1>1, PlusLength
<1>5. PICK s3 \in Lengths :
        s3 = length_add(length_sub(e.new, n.pad), length_sub(n.size, length_sub(e.old, n.pad)))
  <2>1. PICK x \in Lengths : x = length_sub(e.new, n.pad)
    BY <1>1, PlusLength
  <2>2. length_add(x, s2) \in Lengths
    BY PlusLength
  <2>3. QED
    BY <1>4, <2>1, <2>2
<1>6. e.start.b \in Int /\ e.old.b \in Int /\ n.pad.b \in Int
  BY <1>1 DEF Lengths
<1>7. \/ Reshape(n, e) = [n EXCEPT !.pad = p1]
      \/ Reshape(n, e) = [n EXCEPT !.size = s2, !.pad = e.new]
      \/ Reshape(n, e) = [n EXCEPT !.size = s3]
      \/ Reshape(n, e) = n
  BY <1>3, <1>4, <1>5, <1>6 DEF Reshape
<1> DEFINE Same(m) == m \in TreeNode /\ m.sym = n.sym /\ m.node_count = n.node_count /\ m.look = n.look
<1>8. PICK v1 : v1 = [n EXCEPT !.pad = p1]
  OBVIOUS
<1>9. PICK v2 : v2 = [n EXCEPT !.size = s2, !.pad = e.new]
  OBVIOUS
<1>10. PICK v3 : v3 = [n EXCEPT !.size = s3]
  OBVIOUS
<1>11. Same(v1) /\ Same(v3) /\ Same(n)
  BY <1>2, <1>8, <1>10
<1>12. Same(v2)
  BY <1>1, <1>9 DEF TreeNode
<1>13. Reshape(n, e) \in {v1, v2, v3, n}
  BY <1>7, <1>8, <1>9, <1>10
<1>14. Same(Reshape(n, e))
  <2> HIDE DEF Same
  <2>1. QED
    BY <1>11, <1>12, <1>13
<1>15. QED
  BY <1>14

(* What an edit does to each node.                                         *)
LEMMA EditIs ==
  ASSUME NEW t, IsForest(t), NEW e \in Edits, NEW u, u = ts_subtree_edit(t, e)
  PROVE  /\ IsForest(u) /\ Len(u) = Len(t)
         /\ \A j \in 1 .. Len(t) :
              /\ u[j].sym = t[j].sym /\ u[j].node_count = t[j].node_count /\ u[j].look = t[j].look
              /\ Beyond(u, j) = Beyond(t, j) /\ (Leaf(u[j]) <=> Leaf(t[j]))
<1>1. t \in Seq(TreeNode) /\ Len(t) \in Nat /\ DOMAIN t = 1 .. Len(t)
  BY DEF IsForest
<1>2. PICK c : c = EditChildren(t, e)
  OBVIOUS
<1>3. u = [j \in 1 .. Len(t) |->
            IF c[j].edited THEN [Reshape(t[j], c[j].own) EXCEPT !.changed = TRUE] ELSE t[j]]
  BY <1>1, <1>2 DEF ts_subtree_edit
<1>4. ASSUME NEW j \in 1 .. Len(t)
      PROVE  /\ u[j] \in TreeNode /\ u[j].sym = t[j].sym /\ u[j].node_count = t[j].node_count
             /\ u[j].look = t[j].look
  <2>1. t[j] \in TreeNode /\ c[j].own \in Edits
    <3>1. c[j] \in EditedNodes
      BY <1>2, EditsAre
    <3>2. QED
      BY <1>1, <3>1 DEF EditedNodes
  <2>2. PICK m \in TreeNode : /\ m = Reshape(t[j], c[j].own)
                              /\ m.sym = t[j].sym /\ m.node_count = t[j].node_count /\ m.look = t[j].look
    BY <2>1, ReshapeTyped
  <2>3. PICK v : v = [m EXCEPT !.changed = TRUE]
    OBVIOUS
  <2>4. v \in TreeNode /\ v.sym = m.sym /\ v.node_count = m.node_count /\ v.look = m.look
    BY <2>3 DEF TreeNode
  <2>5. u[j] = IF c[j].edited THEN v ELSE t[j]
    BY <1>3, <2>2, <2>3
  <2>6. QED
    BY <2>1, <2>2, <2>4, <2>5
<1>5. u \in Seq(TreeNode) /\ Len(u) = Len(t)
  <2>1. u = [j \in 1 .. Len(t) |-> u[j]]
    BY <1>3
  <2>2. u \in [1 .. Len(t) -> TreeNode]
    BY <1>4, <2>1
  <2>3. QED
    BY <1>1, <2>2
<1>6. ASSUME NEW j \in 1 .. Len(t)
      PROVE  Beyond(u, j) = Beyond(t, j) /\ (Leaf(u[j]) <=> Leaf(t[j])) /\ Below(u, j) = Below(t, j)
  <2>1. Beyond(u, j) = Beyond(t, j) /\ (Leaf(u[j]) <=> Leaf(t[j]))
    BY <1>4 DEF Beyond, Leaf
  <2>2. QED
    BY <2>1 DEF Below
<1>7. ASSUME NEW i \in DOMAIN u
      PROVE  /\ Beyond(u, i) <= Len(u) + 1
             /\ \A j \in Below(u, i) : Beyond(u, j) <= Beyond(u, i)
  <2>1. i \in 1 .. Len(t)
    BY <1>5
  <2>2. Beyond(u, i) <= Len(u) + 1
    BY <1>1, <1>5, <1>6, <2>1 DEF IsForest
  <2>3. ASSUME NEW j \in Below(u, i)
        PROVE  Beyond(u, j) <= Beyond(u, i)
    <3>1. j \in Below(t, i) /\ j \in 1 .. Len(t)
      <4>1. j \in Below(t, i)
        BY <1>6, <2>1, <2>3
      <4>2. QED
        BY <1>1, <2>1, <4>1, NodeFacts
    <3>2. Beyond(t, j) <= Beyond(t, i)
      BY <1>1, <2>1, <3>1 DEF IsForest
    <3>3. QED
      BY <1>6, <2>1, <3>1, <3>2
  <2>4. QED
    BY <2>2, <2>3
<1>8. IsForest(u)
  BY <1>5, <1>7 DEF IsForest
<1>9. QED
  BY <1>2, <1>4, <1>5, <1>6, <1>8

(* ts_tree_edit leaves a tree with the nodes it had, whatever the edit.    *)
LEMMA EditedIsTree ==
  ASSUME NEW t, IsSyntaxTree(t), NEW e \in Edits
  PROVE  IsSyntaxTree(ts_subtree_edit(t, e))
<1>1. IsTree(t) /\ IsForest(t) /\ t # <<>> /\ Beyond(t, 1) = Len(t) + 1 /\ t[1].sym = "program"
  BY DEF IsSyntaxTree, IsTree
<1>2. Len(t) \in Nat \ {0}
  BY <1>1, EndOfTree
<1>3. PICK u : u = ts_subtree_edit(t, e)
  OBVIOUS
<1>4. 1 \in 1 .. Len(t)
  BY <1>2
<1>5. IsForest(u) /\ Len(u) = Len(t) /\ u[1].sym = t[1].sym /\ Beyond(u, 1) = Beyond(t, 1)
  BY <1>1, <1>3, <1>4, EditIs
<1>6. u # <<>>
  BY <1>2, <1>5, EmptySeq
<1>7. QED
  BY <1>1, <1>3, <1>5, <1>6 DEF IsSyntaxTree, IsTree

(***************************************************************************)
(* Positions without wrapping: P tells where each node begins, and where   *)
(* the last one ends.                                                      *)
(***************************************************************************)
Pos(t) == [j \in 1 .. Len(t) + 1 |-> Starts(t)[j].b]

Measured(t, P) ==
  /\ IsForest(t)
  /\ P \in [1 .. Len(t) + 1 -> Nat]
  /\ P[1] = 0
  /\ \A i \in DOMAIN t : P[Beyond(t, i)] = P[i] + Total(t[i]).b
  /\ \A i \in DOMAIN t : ~Leaf(t[i]) => P[i + 1] = P[i]

(* The positions of a measured stack do not decrease.                      *)
LEMMA MeasureGrows ==
  ASSUME NEW t, NEW P, Measured(t, P), NEW i \in 1 .. Len(t) + 1, NEW j \in 1 .. Len(t) + 1, i <= j
  PROVE  P[i] <= P[j] /\ P[i] \in Nat /\ P[j] \in Nat
<1>1. IsForest(t) /\ Len(t) \in Nat /\ DOMAIN t = 1 .. Len(t) /\ P \in [1 .. Len(t) + 1 -> Nat]
  BY DEF Measured, IsForest
<1>2. PICK n \in Nat : n = Len(t)
  BY <1>1
<1> DEFINE S == {k \in Nat : k <= j - i => P[i] <= P[i + k]}
<1>3. 0 \in S
  BY <1>1
<1>4. \A k \in Nat : k \in S => k + 1 \in S
  <2> SUFFICES ASSUME NEW k \in Nat, k \in S, k + 1 <= j - i
               PROVE  P[i] <= P[i + (k + 1)]
    OBVIOUS
  <2>1. PICK x \in 1 .. n : x = i + k
    BY <1>2
  <2>2. P[i] <= P[x] /\ x \in DOMAIN t
    BY <1>1, <1>2, <2>1
  <2>3. P[x] <= P[x + 1]
    <3>1. CASE Leaf(t[x])
      <4>1. Beyond(t, x) = x + 1 /\ Total(t[x]).b \in Nat
        BY <1>1, <2>2, <3>1, NodeFacts, PlusLength DEF Lengths
      <4>2. P[x + 1] = P[x] + Total(t[x]).b
        BY <2>2, <4>1 DEF Measured
      <4>3. P[x] \in Nat
        BY <1>1, <1>2, <2>1
      <4>4. QED
        BY <4>1, <4>2, <4>3
    <3>2. CASE ~Leaf(t[x])
      <4>1. P[x + 1] = P[x] /\ P[x] \in Nat
        BY <1>1, <1>2, <2>1, <2>2, <3>2 DEF Measured
      <4>2. QED
        BY <4>1
    <3>3. QED
      BY <3>1, <3>2
  <2>4. P[i] \in Nat /\ P[x] \in Nat /\ P[x + 1] \in Nat /\ x + 1 = i + (k + 1)
    BY <1>1, <1>2, <2>1
  <2>5. QED
    BY <2>2, <2>3, <2>4
<1>5. Nat \subseteq S
  <2> HIDE DEF S
  <2> QED BY <1>3, <1>4, Inductive
<1>6. j - i \in Nat /\ i + (j - i) = j
  BY <1>1
<1>7. j - i \in S
  BY <1>5, <1>6
<1>8. QED
  BY <1>1, <1>6, <1>7

(* Positions that fit are those Starts gives.                              *)
LEMMA MeasureIs ==
  ASSUME NEW t, NEW P, Measured(t, P), P[Len(t) + 1] < Width
  PROVE  Pos(t) = P /\ EndOf(t) = P[Len(t) + 1]
<1>1. IsForest(t) /\ Len(t) \in Nat /\ DOMAIN t = 1 .. Len(t) /\ P \in [1 .. Len(t) + 1 -> Nat]
  BY DEF Measured, IsForest
<1>2. PICK n \in Nat : n = Len(t)
  BY <1>1
<1>3. \A j \in 1 .. n + 1 : P[j] \in Positions
  <2> SUFFICES ASSUME NEW j \in 1 .. n + 1
               PROVE  P[j] \in Positions
    OBVIOUS
  <2>1. P[j] \in Nat /\ P[j] <= P[n + 1] /\ P[n + 1] \in Nat
    BY <1>2, MeasureGrows
  <2>2. QED
    BY <1>2, <2>1, WidthIsPositive DEF Positions
<1> DEFINE Ok(j) == Starts(t)[j].b = P[j]
           S == {m \in 0 .. n : \A j \in 1 .. m + 1 : Ok(j)}
<1>4. 0 \in S
  <2>1. Starts(t)[1].b = 0 /\ P[1] = 0
    BY <1>1, StartsStep, ZeroIsLength DEF Measured
  <2>2. QED
    BY <2>1
<1>5. \A m \in 0 .. n : m \in S /\ m < n => m + 1 \in S
  <2> SUFFICES ASSUME NEW m \in 0 .. n, m \in S, m < n
               PROVE  m + 1 \in S
    OBVIOUS
  <2>1. PICK x \in 1 .. n : x = m + 1
    OBVIOUS
  <2>2. x \in DOMAIN t /\ \A j \in 1 .. x : Ok(j)
    BY <1>1, <1>2, <2>1
  <2>3. Ok(x + 1)
    <3>1. CASE ~Leaf(t[x])
      <4>1. P[x + 1] = P[x] /\ Starts(t)[x + 1] = Starts(t)[x]
        BY <1>1, <2>2, <3>1, StartsStep DEF Measured
      <4>2. QED
        BY <2>2, <4>1
    <3>2. CASE Leaf(t[x])
      <4>1. PICK y : y = x + 1
        OBVIOUS
      <4>2. y \in 2 .. Len(t) + 1 /\ Leaf(t[y - 1])
        BY <1>2, <3>2, <4>1
      <4>3. PICK b : b = Before(t, y)
        OBVIOUS
      <4>4. b \in 1 .. y - 1 /\ b \in DOMAIN t /\ Beyond(t, b) = y
        BY <1>1, <4>2, <4>3, BeforeIs
      <4>5. Starts(t)[y] = length_add(Starts(t)[b], Total(t[b]))
        BY <1>1, <4>2, <4>3, StartsStep
      <4>6. Starts(t)[b] \in Lengths
        BY <1>1, <4>2, <4>4, StartsAre
      <4>7. Total(t[b]) \in Lengths /\ Total(t[b]).b \in Positions
        <5>1. Total(t[b]) \in Lengths
          BY <1>1, <4>4, NodeFacts
        <5>2. QED
          BY <5>1, PlusLength
      <4>8. Starts(t)[y].b = Plus(Starts(t)[b].b, Total(t[b]).b)
        BY <4>5, <4>6, <4>7, AddIsPlus
      <4>9. Starts(t)[b].b = P[b]
        BY <2>2, <4>1, <4>4
      <4>10. P[y] = P[b] + Total(t[b]).b
        BY <4>4 DEF Measured
      <4>11. y \in 1 .. n + 1 /\ b \in 1 .. n + 1
        BY <1>1, <1>2, <4>2, <4>4
      <4>12. P[y] \in Positions /\ P[b] \in Positions
        BY <1>3, <4>11
      <4>13. PICK g \in Positions : g = Total(t[b]).b
        BY <4>7
      <4>14. PICK v \in Positions : v = P[b]
        BY <4>12
      <4>15. v + g < Width
        BY <4>10, <4>12, <4>13, <4>14, WidthIsPositive DEF Positions
      <4>16. Plus(v, g) = v + g
        BY <4>15 DEF Plus
      <4>17. QED
        BY <4>1, <4>8, <4>9, <4>10, <4>13, <4>14, <4>16
    <3>3. QED
      BY <3>1, <3>2
  <2>4. m + 1 \in 0 .. n /\ m + 1 = x
    BY <2>1
  <2>5. \A j \in 1 .. x + 1 : Ok(j)
    <3> HIDE DEF Ok
    <3> QED BY <2>2, <2>3
  <2>6. QED
    <3> HIDE DEF Ok
    <3> QED BY <2>4, <2>5
<1>6. 0 .. n \subseteq S
  <2> HIDE DEF S
  <2> QED BY <1>4, <1>5, InductiveUpTo
<1>7. \A j \in 1 .. n + 1 : Ok(j)
  BY <1>6
<1>8. Pos(t) = [j \in 1 .. n + 1 |-> P[j]]
  BY <1>2, <1>7 DEF Pos
<1>9. P = [j \in 1 .. n + 1 |-> P[j]]
  BY <1>1, <1>2
<1>10. n + 1 \in 1 .. n + 1
  OBVIOUS
<1>11. QED
  BY <1>2, <1>7, <1>8, <1>9, <1>10 DEF EndOf

(* What lies below a node.                                                 *)
Inner(t, i) == SubSeq(t, i + 1, Beyond(t, i) - 1)

(* The nodes below a node are a stack of trees.                            *)
LEMMA InnerIs ==
  ASSUME NEW t, IsForest(t), NEW i \in DOMAIN t
  PROVE  /\ Inner(t, i) \in Seq(TreeNode) /\ IsForest(Inner(t, i))
         /\ Len(Inner(t, i)) = Beyond(t, i) - 1 - i
         /\ \A k \in 1 .. Beyond(t, i) - 1 - i : /\ Inner(t, i)[k] = t[i + k]
                                               /\ Beyond(Inner(t, i), k) = Beyond(t, i + k) - i
<1>1. Len(t) \in Nat /\ i \in 1 .. Len(t) /\ Beyond(t, i) \in i + 1 .. Len(t) + 1
  BY NodeFacts
<1>2. PICK a \in 1 .. Len(t) + 1 : a = i + 1
  BY <1>1
<1>3. PICK b \in a - 1 .. Len(t) : b = Beyond(t, i) - 1
  BY <1>1, <1>2
<1>4. Inner(t, i) = SubSeq(t, a, b)
  BY <1>2, <1>3 DEF Inner
<1>5. b + 1 = Beyond(t, i)
  BY <1>1, <1>3
<1>6. \A k \in a .. b : Beyond(t, k) <= b + 1
  <2>1. \A k \in Below(t, i) : Beyond(t, k) <= Beyond(t, i)
    BY DEF IsForest
  <2>2. Below(t, i) = a .. b
    BY <1>2, <1>3 DEF Below
  <2>3. QED
    BY <1>5, <2>1, <2>2
<1>7. /\ IsForest(SubSeq(t, a, b)) /\ Len(SubSeq(t, a, b)) = b - a + 1
      /\ \A k \in 1 .. b - a + 1 : /\ SubSeq(t, a, b)[k] = t[a + k - 1]
                                   /\ Beyond(SubSeq(t, a, b), k) = Beyond(t, a + k - 1) - (a - 1)
  BY <1>2, <1>6, PartIsForest
<1>8. b - a + 1 = Beyond(t, i) - 1 - i /\ a - 1 = i
  BY <1>1, <1>2, <1>3
<1>9. \A k \in 1 .. b - a + 1 : a + k - 1 = i + k
  BY <1>2
<1>10. Inner(t, i) \in Seq(TreeNode)
  BY <1>4, <1>7 DEF IsForest
<1>11. QED
  BY <1>4, <1>7, <1>8, <1>9, <1>10

(* The nodes below a node.                                                 *)
LEMMA BelowIs ==
  ASSUME NEW t, IsForest(t), NEW i \in DOMAIN t
  PROVE  \A m : m \in Below(t, i) <=> m \in 1 .. Len(t) /\ i < m /\ m < Beyond(t, i)
BY NodeFacts

(* The nodes of u are those of t from the one after a on, R tells where    *)
(* they are in u, P where they are in t.                                   *)
IsPart(t, P, u, R, a) ==
  /\ IsForest(t) /\ IsForest(u) /\ a \in Nat /\ a + Len(u) <= Len(t)
  /\ \A k \in 1 .. Len(u) : u[k] = t[a + k]
  /\ P \in [1 .. Len(t) + 1 -> Nat] /\ R \in [1 .. Len(u) + 1 -> Nat]
  /\ \A k \in 1 .. Len(u) + 1 : P[a + k] = P[a + 1] + R[k]

(* The nodes of a part are nodes of the whole, with subtrees of the same   *)
(* size.                                                                   *)
LEMMA PartFacts ==
  ASSUME NEW t, NEW P, NEW u, NEW R, NEW a, IsPart(t, P, u, R, a)
  PROVE  /\ Len(t) \in Nat /\ Len(u) \in Nat /\ DOMAIN t = 1 .. Len(t) /\ DOMAIN u = 1 .. Len(u)
         /\ a \in Nat /\ a + Len(u) <= Len(t)
         /\ \A k \in 1 .. Len(u) : /\ a + k \in DOMAIN t /\ u[k] = t[a + k]
                                   /\ Beyond(t, a + k) = a + Beyond(u, k)
                                   /\ Beyond(u, k) \in k + 1 .. Len(u) + 1
<1>1. IsForest(t) /\ IsForest(u) /\ a \in Nat /\ a + Len(u) <= Len(t)
  BY DEF IsPart
<1>2. Len(t) \in Nat /\ Len(u) \in Nat /\ DOMAIN t = 1 .. Len(t) /\ DOMAIN u = 1 .. Len(u)
  BY <1>1 DEF IsForest
<1>3. ASSUME NEW k \in 1 .. Len(u)
      PROVE  /\ a + k \in DOMAIN t /\ u[k] = t[a + k]
             /\ Beyond(t, a + k) = a + Beyond(u, k)
             /\ Beyond(u, k) \in k + 1 .. Len(u) + 1
  <2>1. a + k \in DOMAIN t
    BY <1>1, <1>2
  <2>2. u[k] = t[a + k]
    BY DEF IsPart
  <2>3. PICK c \in Nat : c = u[k].node_count
    BY <1>1, <1>2, NodeFacts
  <2>4. Beyond(u, k) = k + c /\ Beyond(t, a + k) = (a + k) + c
    BY <2>2, <2>3 DEF Beyond
  <2>5. Beyond(u, k) \in k + 1 .. Len(u) + 1
    BY <1>1, <1>2, NodeFacts
  <2>6. QED
    BY <1>1, <2>1, <2>2, <2>3, <2>4, <2>5
<1>4. QED
  BY <1>1, <1>2, <1>3

(* What is below a node is the same in the part.                           *)
LEMMA InnerOfPart ==
  ASSUME NEW t, NEW P, NEW u, NEW R, NEW a, IsPart(t, P, u, R, a), NEW k \in 1 .. Len(u)
  PROVE  Inner(u, k) = Inner(t, a + k)
<1>1. /\ Len(t) \in Nat /\ Len(u) \in Nat /\ a \in Nat /\ a + Len(u) <= Len(t)
      /\ \A x \in 1 .. Len(u) : u[x] = t[a + x]
      /\ IsForest(t) /\ IsForest(u) /\ k \in DOMAIN u /\ a + k \in DOMAIN t
  BY PartFacts DEF IsPart
<1>2. PICK e \in k + 1 .. Len(u) + 1 : e = Beyond(u, k) /\ Beyond(t, a + k) = a + e
  BY PartFacts
<1>3. PICK i \in DOMAIN t : i = a + k
  BY <1>1
<1>4. PICK m \in Nat : m = e - 1 - k
  BY <1>1, <1>2
<1>5. /\ Inner(u, k) \in Seq(TreeNode) /\ Len(Inner(u, k)) = m
      /\ \A x \in 1 .. m : Inner(u, k)[x] = u[k + x]
  <2>1. Beyond(u, k) - 1 - k = m
    BY <1>2, <1>4
  <2>2. /\ Inner(u, k) \in Seq(TreeNode) /\ Len(Inner(u, k)) = Beyond(u, k) - 1 - k
        /\ \A x \in 1 .. Beyond(u, k) - 1 - k : Inner(u, k)[x] = u[k + x]
    BY <1>1, InnerIs, SMTT(60)
  <2>3. QED
    BY <2>1, <2>2
<1>6. /\ Inner(t, i) \in Seq(TreeNode) /\ Len(Inner(t, i)) = m
      /\ \A x \in 1 .. m : Inner(t, i)[x] = t[i + x]
  <2>1. Beyond(t, i) - 1 - i = m
    BY <1>1, <1>2, <1>3, <1>4
  <2>2. QED
    BY <1>1, <2>1, InnerIs, SMTT(60)
<1>7. \A x \in 1 .. m : u[k + x] = t[i + x]
  <2> SUFFICES ASSUME NEW x \in 1 .. m
               PROVE  u[k + x] = t[i + x]
    OBVIOUS
  <2>0. k \in Int /\ k >= 1 /\ a \in Int /\ e \in Int /\ e <= Len(u) + 1 /\ Len(u) \in Int
    BY <1>1, <1>2
  <2>1. k + x \in 1 .. Len(u) /\ a + (k + x) = i + x
    BY <1>3, <1>4, <2>0
  <2>2. QED
    BY <1>1, <2>1
<1>8. Inner(u, k) = Inner(t, i)
  BY <1>5, <1>6, <1>7, SeqEqual
<1>9. QED
  BY <1>3, <1>8

(* What a part measures.                                                   *)
Moved(P, a, n) == [k \in 1 .. n + 1 |-> P[a + k] - P[a + 1]]

(* A part of a measured stack is measured.                                 *)
LEMMA PartMeasured ==
  ASSUME NEW t, NEW P, Measured(t, P), NEW u, IsForest(u), NEW a \in Nat, a + Len(u) <= Len(t),
         \A k \in 1 .. Len(u) : u[k] = t[a + k],
         NEW R, R = Moved(P, a, Len(u))
  PROVE  Measured(u, R) /\ IsPart(t, P, u, R, a)
<1>1. IsForest(t) /\ P \in [1 .. Len(t) + 1 -> Nat] /\ Len(t) \in Nat /\ Len(u) \in Nat
      /\ DOMAIN t = 1 .. Len(t) /\ DOMAIN u = 1 .. Len(u)
  BY DEF Measured, IsForest
<1>2. ASSUME NEW k \in 1 .. Len(u) + 1
      PROVE  R[k] \in Nat /\ P[a + k] = P[a + 1] + R[k] /\ P[a + k] \in Nat /\ P[a + 1] \in Nat
  <2>1. a + k \in 1 .. Len(t) + 1 /\ a + 1 \in 1 .. Len(t) + 1 /\ a + 1 <= a + k
    BY <1>1
  <2>2. P[a + 1] <= P[a + k] /\ P[a + 1] \in Nat /\ P[a + k] \in Nat
    BY <2>1, MeasureGrows
  <2>3. R[k] = P[a + k] - P[a + 1]
    BY DEF Moved
  <2>4. QED
    BY <2>2, <2>3
<1>3. R \in [1 .. Len(u) + 1 -> Nat]
  <2>1. R = [k \in 1 .. Len(u) + 1 |-> P[a + k] - P[a + 1]]
    BY DEF Moved
  <2>2. \A k \in 1 .. Len(u) + 1 : P[a + k] - P[a + 1] \in Nat
    BY <1>2, <2>1
  <2>3. QED
    BY <2>1, <2>2
<1>4. IsPart(t, P, u, R, a)
  BY <1>1, <1>2, <1>3 DEF IsPart
<1>5. R[1] = 0
  <2>1. 1 \in 1 .. Len(u) + 1
    BY <1>1
  <2>2. R[1] = P[a + 1] - P[a + 1] /\ P[a + 1] \in Nat
    BY <1>2, <2>1 DEF Moved
  <2>3. QED
    BY <2>2
<1>6. ASSUME NEW k \in DOMAIN u
      PROVE  R[Beyond(u, k)] = R[k] + Total(u[k]).b
  <2>1. /\ k \in 1 .. Len(u) /\ a + k \in DOMAIN t /\ u[k] = t[a + k]
        /\ Beyond(t, a + k) = a + Beyond(u, k) /\ Beyond(u, k) \in k + 1 .. Len(u) + 1
    BY <1>1, <1>4, PartFacts
  <2>2. PICK x \in 1 .. Len(u) + 1 : x = Beyond(u, k)
    BY <1>1, <2>1
  <2>3. P[a + x] = P[a + k] + Total(u[k]).b
    BY <2>1, <2>2 DEF Measured
  <2>4. P[a + x] = P[a + 1] + R[x] /\ R[x] \in Nat /\ P[a + 1] \in Nat
    BY <1>2
  <2>5. P[a + k] = P[a + 1] + R[k] /\ R[k] \in Nat
    BY <1>1, <1>2, SMTT(60)
  <2>6. Total(u[k]).b \in Nat
    <3>1. Total(u[k]) \in Lengths
      BY NodeFacts
    <3>2. QED
      BY <3>1 DEF Lengths
  <2>7. PICK b \in Nat, x1 \in Nat, k1 \in Nat, g \in Nat :
          b = P[a + 1] /\ x1 = R[x] /\ k1 = R[k] /\ g = Total(u[k]).b
    BY <2>4, <2>5, <2>6
  <2>8. b + x1 = b + k1 + g
    BY <2>3, <2>4, <2>5, <2>7
  <2>9. x1 = k1 + g
    BY <2>8
  <2>10. QED
    BY <2>2, <2>7, <2>9
<1>7. ASSUME NEW k \in DOMAIN u, ~Leaf(u[k])
      PROVE  R[k + 1] = R[k]
  <2>1. k \in 1 .. Len(u) /\ a + k \in DOMAIN t /\ u[k] = t[a + k]
    BY <1>1, <1>4, PartFacts
  <2>2. P[(a + k) + 1] = P[a + k]
    BY <1>7, <2>1 DEF Measured
  <2>3. P[a + k] = P[a + 1] + R[k] /\ R[k] \in Nat /\ P[a + 1] \in Nat
    BY <1>1, <1>2
  <2>4. k + 1 \in 1 .. Len(u) + 1 /\ a + (k + 1) = (a + k) + 1
    BY <1>1, <2>1
  <2>5. P[a + (k + 1)] = P[a + 1] + R[k + 1] /\ R[k + 1] \in Nat
    BY <1>2, <2>4
  <2>6. QED
    BY <2>2, <2>3, <2>4, <2>5, SMTT(60)
<1>8. QED
  BY <1>3, <1>4, <1>5, <1>6, <1>7 DEF Measured

(***************************************************************************)
(* A node as the parser makes it for the text, where d bytes lie before    *)
(* the stack it is on.                                                     *)
(***************************************************************************)
Whole(text, d, t, P, i) ==
  /\ ~t[i].changed /\ t[i].look >= 1
  /\ Leaf(t[i]) => t[i] = Lex(text, d + P[i])
  /\ ~Leaf(t[i]) => t[i] = Node(t[i].sym, Inner(t, i))[1]
  /\ \A j \in Below(t, i) : P[Beyond(t, j)] + t[j].look <= P[Beyond(t, i)] + t[i].look

(* A node is whole in the part when it is in the stack.                    *)
LEMMA WholeOfPart ==
  ASSUME NEW t, NEW P, NEW u, NEW R, NEW a, IsPart(t, P, u, R, a), NEW k \in 1 .. Len(u),
         NEW text, NEW d \in Nat
  PROVE  Whole(text, d + P[a + 1], u, R, k) <=> Whole(text, d, t, P, a + k)
<1>1. /\ Len(t) \in Nat /\ Len(u) \in Nat /\ DOMAIN t = 1 .. Len(t) /\ DOMAIN u = 1 .. Len(u)
      /\ a \in Nat /\ a + Len(u) <= Len(t)
      /\ \A x \in 1 .. Len(u) : /\ a + x \in DOMAIN t /\ u[x] = t[a + x]
                                /\ Beyond(t, a + x) = a + Beyond(u, x)
                                /\ Beyond(u, x) \in x + 1 .. Len(u) + 1
  BY PartFacts
<1>2. /\ IsForest(t) /\ IsForest(u) /\ P \in [1 .. Len(t) + 1 -> Nat] /\ R \in [1 .. Len(u) + 1 -> Nat]
      /\ \A x \in 1 .. Len(u) + 1 : P[a + x] = P[a + 1] + R[x]
  BY DEF IsPart
<1>3. PICK i \in DOMAIN t : i = a + k /\ u[k] = t[i]
  BY <1>1
<1>4. Inner(u, k) = Inner(t, i)
  BY <1>3, InnerOfPart
<1>5. PICK b \in Nat : b = P[a + 1]
  <2>1. a + 1 \in 1 .. Len(t) + 1
    BY <1>1
  <2>2. QED
    BY <1>2, <2>1
<1>6. d + b + R[k] = d + P[i]
  <2>1. k \in 1 .. Len(u) + 1
    BY <1>1
  <2>2. R[k] \in Nat /\ P[i] = b + R[k]
    BY <1>2, <1>3, <1>5, <2>1
  <2>3. QED
    BY <2>2
<1> DEFINE E(j) == R[Beyond(u, j)] + u[j].look <= R[Beyond(u, k)] + u[k].look
           F(j) == P[Beyond(t, j)] + t[j].look <= P[Beyond(t, i)] + t[i].look
<1>7. \A j \in 1 .. Len(u) : E(j) <=> F(a + j)
  <2> SUFFICES ASSUME NEW j \in 1 .. Len(u)
               PROVE  E(j) <=> F(a + j)
    OBVIOUS
  <2>1. PICK x \in 1 .. Len(u) + 1 : x = Beyond(u, j) /\ Beyond(t, a + j) = a + x /\ u[j] = t[a + j]
    BY <1>1
  <2>2. PICK y \in 1 .. Len(u) + 1 : y = Beyond(u, k) /\ Beyond(t, i) = a + y
    BY <1>1, <1>3
  <2>3. P[a + x] = b + R[x] /\ P[a + y] = b + R[y] /\ R[x] \in Nat /\ R[y] \in Nat
    BY <1>2, <1>5
  <2>4. u[j].look \in Nat /\ u[k].look \in Nat
    BY <1>1, <1>2, NodeFacts
  <2>5. E(j) <=> R[x] + u[j].look <= R[y] + u[k].look
    BY <2>1, <2>2
  <2>6. F(a + j) <=> P[a + x] + u[j].look <= P[a + y] + u[k].look
    BY <1>3, <2>1, <2>2
  <2>7. PICK x1 \in Nat, y1 \in Nat, l \in Nat, m \in Nat :
          x1 = R[x] /\ y1 = R[y] /\ l = u[j].look /\ m = u[k].look
    BY <2>3, <2>4
  <2>8. x1 + l <= y1 + m <=> b + x1 + l <= b + y1 + m
    OBVIOUS
  <2>9. P[a + x] = b + x1 /\ P[a + y] = b + y1
    BY <2>3, <2>7
  <2> HIDE DEF E, F
  <2>10. E(j) <=> x1 + l <= y1 + m
    BY <2>5, <2>7
  <2>11. F(a + j) <=> b + x1 + l <= b + y1 + m
    BY <2>6, <2>7, <2>9
  <2>12. QED
    BY <2>8, <2>10, <2>11
<1>8. \A j : j \in Below(u, k) => j \in 1 .. Len(u) /\ a + j \in Below(t, i)
  <2> SUFFICES ASSUME NEW j \in Below(u, k)
               PROVE  j \in 1 .. Len(u) /\ a + j \in Below(t, i)
    OBVIOUS
  <2>1. PICK y \in k + 1 .. Len(u) + 1 : y = Beyond(u, k) /\ Beyond(t, i) = a + y
    BY <1>1, <1>3
  <2>2. j \in 1 .. Len(u) /\ k < j /\ j < y
    BY <1>1, <1>2, <2>1, BelowIs
  <2>3. a + j \in 1 .. Len(t) /\ i < a + j /\ a + j < a + y
    BY <1>1, <1>3, <2>1, <2>2
  <2>4. QED
    BY <1>2, <2>1, <2>2, <2>3, BelowIs
<1>9. \A m : m \in Below(t, i) => \E j \in Below(u, k) : m = a + j
  <2> SUFFICES ASSUME NEW m \in Below(t, i)
               PROVE  \E j \in Below(u, k) : m = a + j
    OBVIOUS
  <2>1. PICK y \in k + 1 .. Len(u) + 1 : y = Beyond(u, k) /\ Beyond(t, i) = a + y
    BY <1>1, <1>3
  <2>2. m \in 1 .. Len(t) /\ i < m /\ m < a + y
    BY <1>2, <2>1, BelowIs
  <2>3. PICK j \in 1 .. Len(u) : j = m - a /\ k < j /\ j < y /\ m = a + j
    BY <1>1, <1>3, <2>1, <2>2
  <2>4. j \in Below(u, k)
    BY <1>1, <1>2, <2>1, <2>3, BelowIs
  <2>5. QED
    BY <2>3, <2>4
<1>10. (\A j \in Below(u, k) : E(j)) <=> (\A m \in Below(t, i) : F(m))
  <2> HIDE DEF E, F
  <2>1. ASSUME \A j \in Below(u, k) : E(j), NEW m \in Below(t, i)
        PROVE  F(m)
    <3>1. PICK j \in Below(u, k) : m = a + j
      BY <1>9
    <3>2. QED
      BY <1>7, <1>8, <2>1, <3>1
  <2>2. ASSUME \A m \in Below(t, i) : F(m), NEW j \in Below(u, k)
        PROVE  E(j)
    BY <1>7, <1>8, <2>2
  <2>3. QED
    BY <2>1, <2>2
<1>11. Whole(text, d + b, u, R, k) <=> Whole(text, d, t, P, i)
  <2>1. Whole(text, d + b, u, R, k) <=>
          /\ ~u[k].changed /\ u[k].look >= 1
          /\ Leaf(u[k]) => u[k] = Lex(text, d + b + R[k])
          /\ ~Leaf(u[k]) => u[k] = Node(u[k].sym, Inner(u, k))[1]
          /\ \A j \in Below(u, k) : E(j)
    BY DEF Whole
  <2>2. Whole(text, d, t, P, i) <=>
          /\ ~t[i].changed /\ t[i].look >= 1
          /\ Leaf(t[i]) => t[i] = Lex(text, d + P[i])
          /\ ~Leaf(t[i]) => t[i] = Node(t[i].sym, Inner(t, i))[1]
          /\ \A m \in Below(t, i) : F(m)
    BY DEF Whole
  <2> HIDE DEF E, F
  <2>3. QED
    BY <1>3, <1>4, <1>6, <1>10, <2>1, <2>2, Zenon
<1>12. QED
  BY <1>3, <1>5, <1>11

(***************************************************************************)
(* What the grammar asks of a node and those below it.                     *)
(***************************************************************************)
Letters(n) == n.sym \in {"id", "list"}

Formed(t, i) ==
  LET e == Beyond(t, i)
  IN  /\ Leaf(t[i]) => t[i].sym \in {"id", "dot", "dots", "end"}
      /\ ~Leaf(t[i]) =>
           \/ /\ t[i].sym = "list"
              /\ Letters(t[i + 1]) /\ Beyond(t, i + 1) = e - 1 /\ t[e - 1].sym = "id"
           \/ /\ t[i].sym = "statement"
              /\ Beyond(t, i + 1) = e /\ t[i + 1].sym \in {"id", "list", "dot", "dots"}
           \/ /\ t[i].sym = "statement"
              /\ Letters(t[i + 1]) /\ Beyond(t, i + 1) = e - 1 /\ t[e - 1].sym \in {"dot", "dots"}
           \/ t[i].sym = "program"

(* A node has its form in the part when it has it in the stack.            *)
LEMMA FormedOfPart ==
  ASSUME NEW t, NEW P, NEW u, NEW R, NEW a, IsPart(t, P, u, R, a), NEW k \in 1 .. Len(u)
  PROVE  Formed(u, k) <=> Formed(t, a + k)
<1>1. /\ Len(t) \in Nat /\ Len(u) \in Nat /\ DOMAIN u = 1 .. Len(u) /\ a \in Nat
      /\ \A x \in 1 .. Len(u) : /\ a + x \in DOMAIN t /\ u[x] = t[a + x]
                                /\ Beyond(t, a + x) = a + Beyond(u, x)
                                /\ Beyond(u, x) \in x + 1 .. Len(u) + 1
  BY PartFacts
<1>2. PICK i \in DOMAIN t : i = a + k /\ u[k] = t[i]
  BY <1>1
<1>3. PICK e \in k + 1 .. Len(u) + 1 : e = Beyond(u, k) /\ Beyond(t, i) = a + e
  BY <1>1, <1>2
<1>4. CASE Leaf(u[k])
  BY <1>2, <1>4 DEF Formed
<1>5. CASE ~Leaf(u[k])
  <2>1. e # k + 1
    BY <1>1, <1>3, <1>5, NodeFacts DEF IsPart
  <2>2. PICK x \in 1 .. Len(u) : x = k + 1
    BY <1>1, <1>3, <2>1, SMTT(60)
  <2>3. PICK y \in 1 .. Len(u) : y = e - 1
    BY <1>1, <1>3, <2>1, SMTT(60)
  <2>4. a + x = i + 1 /\ a + y = (a + e) - 1
    BY <1>1, <1>2, <1>3, <2>2, <2>3
  <2>5. u[x] = t[i + 1] /\ u[y] = t[Beyond(t, i) - 1]
    BY <1>1, <1>3, <2>4
  <2>6. PICK z \in Int : z = Beyond(u, x) /\ Beyond(t, i + 1) = a + z
    BY <1>1, <2>4
  <2>7. /\ Beyond(u, x) = Beyond(u, k) - 1 <=> Beyond(t, i + 1) = Beyond(t, i) - 1
        /\ Beyond(u, x) = Beyond(u, k) <=> Beyond(t, i + 1) = Beyond(t, i)
    <3>1. a \in Int /\ e \in Int
      BY <1>1, <1>3
    <3>2. (z = e - 1 <=> a + z = (a + e) - 1) /\ (z = e <=> a + z = a + e)
      BY <2>6, <3>1
    <3>3. QED
      BY <1>3, <2>6, <3>2, Zenon
  <2>8. x = k + 1 /\ y = Beyond(u, k) - 1
    BY <1>3, <2>2, <2>3
  <2>9. QED
    BY <1>2, <2>5, <2>7, <2>8, Zenon DEF Formed
<1>6. QED
  BY <1>4, <1>5

(* A stack of trees that the parser could have made for the text from its  *)
(* d-th byte on.                                                           *)
Sound(text, d, t, P) ==
  /\ Measured(t, P)
  /\ d + P[Len(t) + 1] <= Len(text)
  /\ \A i \in DOMAIN t : Whole(text, d, t, P, i)

(* Its nodes are those of statements.                                      *)
Firm(t) ==
  \A i \in DOMAIN t : /\ Total(t[i]).b > 0
                      /\ t[i].sym \notin {"end", "program"} /\ Formed(t, i)

(* A part of it, from the node after a on.                                 *)
IsPartOf(text, d, t, P, u, R, a) ==
  /\ IsText(text) /\ d \in Nat /\ Sound(text, d, t, P)
  /\ IsForest(u) /\ a \in Nat /\ a + Len(u) <= Len(t)
  /\ \A k \in 1 .. Len(u) : u[k] = t[a + k]
  /\ R = Moved(P, a, Len(u))

(* A part of a sound stack is sound at its own place.                      *)
LEMMA SoundPart ==
  ASSUME NEW text, NEW d, NEW t, NEW P, NEW u, NEW R, NEW a, IsPartOf(text, d, t, P, u, R, a)
  PROVE  /\ P[a + 1] \in Nat /\ Sound(text, d + P[a + 1], u, R)
         /\ R[Len(u) + 1] = P[a + Len(u) + 1] - P[a + 1]
         /\ Firm(t) => Firm(u)
<1>0. /\ IsText(text) /\ d \in Nat /\ Sound(text, d, t, P)
      /\ IsForest(u) /\ a \in Nat /\ a + Len(u) <= Len(t)
      /\ \A k \in 1 .. Len(u) : u[k] = t[a + k]
      /\ R = Moved(P, a, Len(u))
  BY DEF IsPartOf
<1> USE <1>0
<1>1. Measured(t, P) /\ IsForest(t) /\ Len(t) \in Nat /\ Len(u) \in Nat /\ P \in [1 .. Len(t) + 1 -> Nat]
      /\ DOMAIN t = 1 .. Len(t) /\ DOMAIN u = 1 .. Len(u)
  BY DEF Sound, Measured, IsForest
<1>2. Measured(u, R) /\ IsPart(t, P, u, R, a)
  BY <1>1, PartMeasured
<1>3. /\ a + 1 \in 1 .. Len(t) + 1 /\ a + Len(u) + 1 \in 1 .. Len(t) + 1
      /\ a + (Len(u) + 1) = a + Len(u) + 1 /\ Len(u) + 1 \in 1 .. Len(u) + 1
  BY <1>1
<1>4. P[a + 1] \in Nat /\ P[a + Len(u) + 1] \in Nat
  BY <1>1, <1>3
<1>5. R[Len(u) + 1] = P[a + Len(u) + 1] - P[a + 1]
  BY <1>3 DEF Moved
<1>6. d + P[a + 1] + R[Len(u) + 1] <= Len(text)
  <2>1. P[a + Len(u) + 1] <= P[Len(t) + 1] /\ P[Len(t) + 1] \in Nat
    <3>1. Len(t) + 1 \in 1 .. Len(t) + 1 /\ a + Len(u) + 1 <= Len(t) + 1
      BY <1>1, <1>3
    <3>2. QED
      BY <1>1, <1>3, <3>1, MeasureGrows
  <2>2. d + P[Len(t) + 1] <= Len(text) /\ Len(text) \in Nat
    BY CharacterIs DEF Sound
  <2>3. PICK x \in Nat, y \in Nat, z \in Nat, l \in Nat :
          x = P[a + 1] /\ y = P[a + Len(u) + 1] /\ z = P[Len(t) + 1] /\ l = Len(text)
    BY <1>4, <2>1, <2>2
  <2>4. y <= z /\ d + z <= l
    BY <2>1, <2>2, <2>3
  <2>5. d + x + (y - x) <= l
    BY <2>4
  <2>6. QED
    BY <1>5, <2>3, <2>5
<1>7. \A k \in DOMAIN u : Whole(text, d + P[a + 1], u, R, k)
  <2> SUFFICES ASSUME NEW k \in DOMAIN u
               PROVE  Whole(text, d + P[a + 1], u, R, k)
    OBVIOUS
  <2>1. k \in 1 .. Len(u) /\ a + k \in DOMAIN t
    BY <1>1
  <2>2. Whole(text, d, t, P, a + k)
    BY <2>1 DEF Sound
  <2>3. QED
    BY <1>2, <2>1, <2>2, WholeOfPart
<1>8. ASSUME Firm(t)
      PROVE  Firm(u)
  <2> SUFFICES ASSUME NEW k \in DOMAIN u
               PROVE  Total(u[k]).b > 0 /\ u[k].sym \notin {"end", "program"} /\ Formed(u, k)
    BY DEF Firm
  <2>1. a + k \in DOMAIN t /\ u[k] = t[a + k] /\ k \in 1 .. Len(u)
    BY <1>1
  <2>2. Formed(u, k) <=> Formed(t, a + k)
    BY <1>2, <2>1, FormedOfPart
  <2>3. QED
    BY <1>8, <2>1, <2>2 DEF Firm
<1>9. QED
  BY <1>2, <1>4, <1>5, <1>6, <1>7, <1>8 DEF Sound

(* One stack upon another.                                                 *)
Joined(P, R, n, m) == [j \in 1 .. n + m + 1 |-> IF j <= n + 1 THEN P[j] ELSE P[n + 1] + R[j - n]]

(* The places of two stacks, one upon the other.                           *)
LEMMA JoinedIs ==
  ASSUME NEW t, NEW P, Measured(t, P), NEW u, NEW R, Measured(u, R),
         NEW v, v = t \o u, NEW Q, Q = Joined(P, R, Len(t), Len(u))
  PROVE  /\ Measured(v, Q) /\ IsPart(v, Q, t, P, 0) /\ IsPart(v, Q, u, R, Len(t))
         /\ Q[1] = 0 /\ Q[Len(t) + 1] = P[Len(t) + 1]
         /\ Len(v) = Len(t) + Len(u) /\ Q[Len(v) + 1] = P[Len(t) + 1] + R[Len(u) + 1]
<1>1. /\ IsForest(t) /\ IsForest(u) /\ P \in [1 .. Len(t) + 1 -> Nat] /\ R \in [1 .. Len(u) + 1 -> Nat]
      /\ P[1] = 0 /\ R[1] = 0
      /\ DOMAIN t = 1 .. Len(t) /\ DOMAIN u = 1 .. Len(u) /\ Len(t) \in Nat /\ Len(u) \in Nat
  BY DEF Measured, IsForest
<1>2. PICK n \in Nat : n = Len(t)
  BY <1>1
<1>3. PICK m \in Nat : m = Len(u)
  BY <1>1
<1>4. /\ IsForest(v) /\ Len(v) = n + m
      /\ \A i \in 1 .. n : v[i] = t[i] /\ Beyond(v, i) = Beyond(t, i)
      /\ \A k \in 1 .. m : v[n + k] = u[k] /\ Beyond(v, n + k) = n + Beyond(u, k)
  <2>1. /\ IsForest(v) /\ Len(v) = Len(t) + Len(u)
        /\ \A i \in 1 .. Len(t) : v[i] = t[i] /\ Beyond(v, i) = Beyond(t, i)
        /\ \A k \in 1 .. Len(u) : v[Len(t) + k] = u[k] /\ Beyond(v, Len(t) + k) = Len(t) + Beyond(u, k)
    <3>1. IsForest(t \o u) /\ Len(t \o u) = Len(t) + Len(u)
      BY <1>1, ConcatIsForest
    <3>2. \A i \in 1 .. Len(t) : (t \o u)[i] = t[i] /\ Beyond(t \o u, i) = Beyond(t, i)
      BY <1>1, ConcatIsForest
    <3>3. \A k \in 1 .. Len(u) : /\ (t \o u)[Len(t) + k] = u[k]
                                 /\ Beyond(t \o u, Len(t) + k) = Len(t) + Beyond(u, k)
      BY <1>1, ConcatIsForest
    <3>4. QED
      BY <3>1, <3>2, <3>3
  <2>2. QED
    BY <1>2, <1>3, <2>1
<1>5. \A j \in 1 .. n + 1 : Q[j] = P[j] /\ P[j] \in Nat
  BY <1>1, <1>2, <1>3 DEF Joined
<1>6. \A k \in 1 .. m + 1 : Q[n + k] = P[n + 1] + R[k] /\ R[k] \in Nat
  <2> SUFFICES ASSUME NEW k \in 1 .. m + 1
               PROVE  Q[n + k] = P[n + 1] + R[k] /\ R[k] \in Nat
    OBVIOUS
  <2>1. R[k] \in Nat /\ P[n + 1] \in Nat
    BY <1>1, <1>2, <1>3
  <2>2. CASE k = 1
    <3>1. n + k \in 1 .. n + 1 /\ n + k = n + 1
      BY <2>2
    <3>2. Q[n + k] = P[n + 1] /\ R[k] = 0
      BY <1>1, <1>5, <2>2, <3>1
    <3>3. QED
      BY <2>1, <3>2
  <2>3. CASE k # 1
    <3>1. n + k \in 1 .. n + m + 1 /\ ~(n + k <= n + 1) /\ n + k - n = k
      BY <2>3
    <3>2. Q[n + k] = P[n + 1] + R[n + k - n]
      BY <1>2, <1>3, <3>1 DEF Joined
    <3>3. QED
      BY <2>1, <3>1, <3>2
  <2>4. QED
    BY <2>2, <2>3
<1>7. P[n + 1] \in Nat
  BY <1>1, <1>2
<1>8. Q \in [1 .. Len(v) + 1 -> Nat]
  <2>1. Q = [j \in 1 .. n + m + 1 |-> Q[j]]
    BY <1>2, <1>3 DEF Joined
  <2>2. \A j \in 1 .. n + m + 1 : Q[j] \in Nat
    <3>0. PICK b \in Nat : b = P[n + 1]
      BY <1>7
    <3> SUFFICES ASSUME NEW j \in 1 .. n + m + 1
                 PROVE  Q[j] \in Nat
      OBVIOUS
    <3>1. CASE j <= n + 1
      <4>1. j \in 1 .. n + 1
        BY <3>1
      <4>2. QED
        BY <1>5, <4>1
    <3>2. CASE ~(j <= n + 1)
      <4>1. PICK k \in 1 .. m + 1 : j = n + k
        <5>1. j - n \in 1 .. m + 1 /\ j = n + (j - n)
          BY <3>2
        <5>2. QED
          BY <5>1
      <4>2. QED
        <5>1. Q[n + k] = b + R[k] /\ R[k] \in Nat
          BY <1>6, <3>0
        <5>2. QED
          BY <4>1, <5>1
    <3>3. QED
      BY <3>1, <3>2
  <2>3. QED
    BY <1>4, <2>1, <2>2
<1>9. IsPart(v, Q, t, P, 0)
  <2>1. \A k \in 1 .. n : t[k] = v[0 + k]
    BY <1>4
  <2>2. \A k \in 1 .. n + 1 : Q[0 + k] = Q[0 + 1] + P[k]
    <3> SUFFICES ASSUME NEW k \in 1 .. n + 1
                 PROVE  Q[0 + k] = Q[0 + 1] + P[k]
      OBVIOUS
    <3>1. 1 \in 1 .. n + 1 /\ 0 + k = k /\ 0 + 1 = 1
      OBVIOUS
    <3>2. Q[k] = P[k] /\ P[k] \in Nat /\ Q[1] = 0
      BY <1>1, <1>5, <3>1
    <3>3. QED
      BY <3>1, <3>2
  <2>3. 0 + n <= n + m /\ 0 \in Nat
    OBVIOUS
  <2>4. QED
    BY <1>1, <1>2, <1>4, <1>8, <2>1, <2>2, <2>3 DEF IsPart
<1>10. IsPart(v, Q, u, R, n)
  <2>1. Q[n + 1] = P[n + 1]
    <3>1. n + 1 \in 1 .. n + 1
      OBVIOUS
    <3>2. QED
      BY <1>5, <3>1
  <2>2. \A k \in 1 .. m + 1 : Q[n + k] = Q[n + 1] + R[k]
    BY <1>6, <2>1
  <2>3. n + m <= n + m
    OBVIOUS
  <2>4. QED
    BY <1>1, <1>3, <1>4, <1>8, <2>2, <2>3 DEF IsPart
<1>11. Q[1] = 0
  <2>1. 1 \in 1 .. n + 1
    OBVIOUS
  <2>2. QED
    BY <1>1, <1>5, <2>1
<1>12. ASSUME NEW i \in DOMAIN v
       PROVE  /\ Q[Beyond(v, i)] = Q[i] + Total(v[i]).b
              /\ ~Leaf(v[i]) => Q[i + 1] = Q[i]
  <2>0. i \in 1 .. n + m
    BY <1>4 DEF IsForest
  <2>1. CASE i <= n
    <3>1. i \in 1 .. n /\ i \in DOMAIN t /\ i \in 1 .. n + 1 /\ i + 1 \in 1 .. n + 1
      BY <1>1, <1>2, <2>0, <2>1
    <3>2. v[i] = t[i] /\ Beyond(v, i) = Beyond(t, i)
      BY <1>4, <3>1
    <3>3. PICK x \in 1 .. n + 1 : x = Beyond(t, i)
      <4>1. Beyond(t, i) \in i + 1 .. Len(t) + 1
        BY <1>1, <3>1, NodeFacts
      <4>2. QED
        BY <1>2, <3>1, <4>1
    <3>4. P[x] = P[i] + Total(t[i]).b
      BY <3>1, <3>3 DEF Measured
    <3>5. ~Leaf(t[i]) => P[i + 1] = P[i]
      BY <3>1 DEF Measured
    <3>6. Q[x] = P[x] /\ Q[i] = P[i] /\ Q[i + 1] = P[i + 1]
      BY <1>5, <3>1, <3>3
    <3>7. QED
      BY <3>2, <3>3, <3>4, <3>5, <3>6
  <2>2. CASE ~(i <= n)
    <3>1. PICK k \in 1 .. m : i = n + k
      <4>1. i - n \in 1 .. m /\ i = n + (i - n)
        BY <2>0, <2>2
      <4>2. QED
        BY <4>1
    <3>2. /\ k \in DOMAIN u /\ k \in 1 .. m + 1 /\ k + 1 \in 1 .. m + 1 /\ i + 1 = n + (k + 1)
          /\ v[i] = u[k] /\ Beyond(v, i) = n + Beyond(u, k)
      BY <1>1, <1>3, <1>4, <3>1
    <3>3. PICK x \in 1 .. m + 1 : x = Beyond(u, k)
      <4>1. Beyond(u, k) \in k + 1 .. Len(u) + 1
        BY <1>1, <3>2, NodeFacts
      <4>2. QED
        BY <1>3, <3>1, <4>1
    <3>4. R[x] = R[k] + Total(u[k]).b
      BY <3>2, <3>3 DEF Measured
    <3>5. ~Leaf(u[k]) => R[k + 1] = R[k]
      BY <3>2 DEF Measured
    <3>6. PICK b \in Nat : b = P[n + 1]
      BY <1>7
    <3>7. /\ Q[n + x] = b + R[x] /\ Q[n + k] = b + R[k] /\ Q[n + (k + 1)] = b + R[k + 1]
          /\ R[x] \in Nat /\ R[k] \in Nat /\ R[k + 1] \in Nat
      BY <1>6, <3>2, <3>3, <3>6
    <3>8. PICK g \in Nat : g = Total(u[k]).b
      <4>1. Total(u[k]) \in Lengths
        BY <1>1, <3>2, NodeFacts
      <4>2. QED
        BY <4>1 DEF Lengths
    <3>9. Q[n + x] = Q[n + k] + g
      <4>1. PICK y \in Nat : y = R[k]
        BY <3>7
      <4>2. R[x] = y + g
        BY <3>4, <3>8, <4>1
      <4>3. QED
        BY <3>7, <4>1, <4>2, SMTT(60)
    <3>10. ~Leaf(u[k]) => Q[n + (k + 1)] = Q[n + k]
      BY <3>5, <3>7
    <3>11. QED
      BY <3>1, <3>2, <3>3, <3>8, <3>9, <3>10
  <2>3. QED
    BY <2>1, <2>2
<1>13. Q[Len(v) + 1] = P[n + 1] + R[m + 1]
  <2>1. m + 1 \in 1 .. m + 1 /\ n + (m + 1) = n + m + 1
    OBVIOUS
  <2>2. QED
    BY <1>4, <1>6, <2>1
<1>14. Q[n + 1] = P[n + 1]
  <2>1. n + 1 \in 1 .. n + 1
    OBVIOUS
  <2>2. QED
    BY <1>5, <2>1
<1>15. Measured(v, Q)
  BY <1>4, <1>8, <1>11, <1>12 DEF Measured
<1>16. QED
  BY <1>2, <1>3, <1>4, <1>9, <1>10, <1>11, <1>13, <1>14, <1>15

IsJoin(text, d, t, P, u, R, v, Q) ==
  /\ IsText(text) /\ d \in Nat /\ Sound(text, d, t, P)
  /\ Sound(text, d + P[Len(t) + 1], u, R)
  /\ v = t \o u /\ Q = Joined(P, R, Len(t), Len(u))

(* Two sound stacks, one upon the other, are sound.                        *)
LEMMA SoundJoined ==
  ASSUME NEW text, NEW d, NEW t, NEW P, NEW u, NEW R, NEW v, NEW Q, IsJoin(text, d, t, P, u, R, v, Q)
  PROVE  /\ Sound(text, d, v, Q) /\ Q[Len(v) + 1] = P[Len(t) + 1] + R[Len(u) + 1]
         /\ Firm(t) /\ Firm(u) => Firm(v)
         /\ Len(v) = Len(t) + Len(u)
<1>0. /\ IsText(text) /\ d \in Nat /\ Sound(text, d, t, P)
      /\ Sound(text, d + P[Len(t) + 1], u, R)
      /\ v = t \o u /\ Q = Joined(P, R, Len(t), Len(u))
  BY DEF IsJoin
<1> USE <1>0
<1>1. /\ Measured(v, Q) /\ IsPart(v, Q, t, P, 0) /\ IsPart(v, Q, u, R, Len(t))
      /\ Q[1] = 0 /\ Q[Len(t) + 1] = P[Len(t) + 1]
      /\ Len(v) = Len(t) + Len(u) /\ Q[Len(v) + 1] = P[Len(t) + 1] + R[Len(u) + 1]
  <2>1. Measured(t, P) /\ Measured(u, R)
    BY DEF Sound
  <2>2. Measured(v, Q)
    BY <2>1, JoinedIs, ZenonT(60)
  <2>3. IsPart(v, Q, t, P, 0)
    BY <2>1, JoinedIs, ZenonT(60)
  <2>4. IsPart(v, Q, u, R, Len(t))
    BY <2>1, JoinedIs, ZenonT(60)
  <2>5. Q[1] = 0 /\ Q[Len(t) + 1] = P[Len(t) + 1]
    BY <2>1, JoinedIs, SMTT(60)
  <2>6. Len(v) = Len(t) + Len(u)
    BY <2>1, JoinedIs, SMTT(60)
  <2>7. Q[Len(v) + 1] = P[Len(t) + 1] + R[Len(u) + 1]
    <3>1. Len(t) \in Nat /\ Len(u) \in Nat
      BY <2>1 DEF Measured, IsForest
    <3>2. PICK n \in Nat, m \in Nat : n = Len(t) /\ m = Len(u)
      BY <3>1
    <3>3. Q[n + (m + 1)] = Q[n + 1] + R[m + 1]
      <4>1. m + 1 \in 1 .. m + 1
        OBVIOUS
      <4>2. \A k \in 1 .. m + 1 : Q[n + k] = Q[n + 1] + R[k]
        BY <2>4, <3>2 DEF IsPart
      <4>3. QED
        BY <4>1, <4>2
    <3>4. n + (m + 1) = Len(v) + 1
      BY <2>6, <3>2
    <3>5. QED
      BY <2>5, <3>2, <3>3, <3>4
  <2>8. QED
    BY <2>2, <2>3, <2>4, <2>5, <2>6, <2>7
<1>2. /\ IsForest(t) /\ IsForest(u) /\ IsForest(v)
      /\ DOMAIN t = 1 .. Len(t) /\ DOMAIN u = 1 .. Len(u) /\ DOMAIN v = 1 .. Len(v)
      /\ P \in [1 .. Len(t) + 1 -> Nat] /\ R \in [1 .. Len(u) + 1 -> Nat]
      /\ Len(t) \in Nat /\ Len(u) \in Nat
  BY <1>1 DEF Sound, Measured, IsForest
<1>3. PICK n \in Nat : n = Len(t)
  BY <1>2
<1>4. PICK m \in Nat : m = Len(u)
  BY <1>2
<1>5. PICK b \in Nat : b = P[n + 1]
  BY <1>2, <1>3
<1>6. d + Q[Len(v) + 1] <= Len(text)
  <2>1. PICK c \in Nat : c = R[m + 1]
    BY <1>2, <1>4
  <2>2. d + b + c <= Len(text)
    BY <1>3, <1>4, <1>5, <2>1 DEF Sound
  <2>3. Q[Len(v) + 1] = b + c /\ d + (b + c) = d + b + c
    BY <1>1, <1>3, <1>4, <1>5, <2>1
  <2>4. QED
    BY <2>2, <2>3
<1>7. ASSUME NEW i \in DOMAIN v
      PROVE  /\ \/ \E k \in DOMAIN t : i = 0 + k /\ v[i] = t[k]
                \/ \E k \in DOMAIN u : i = n + k /\ v[i] = u[k]
  <2>1. i \in 1 .. n + m
    BY <1>1, <1>2, <1>3, <1>4
  <2>2. CASE i <= n
    <3>1. i \in DOMAIN t /\ i = 0 + i
      BY <1>2, <1>3, <2>1, <2>2
    <3>2. v[i] = t[i]
      BY <1>1, <1>2, <3>1 DEF IsPart
    <3>3. QED
      BY <3>1, <3>2
  <2>3. CASE ~(i <= n)
    <3>1. i - n \in DOMAIN u /\ i = n + (i - n)
      BY <1>2, <1>4, <2>1, <2>3
    <3>2. v[i] = u[i - n]
      <4>1. PICK k \in 1 .. m : k = i - n /\ i = n + k
        BY <1>2, <1>4, <3>1
      <4>2. v[n + k] = u[k]
        BY <1>1, <1>3, <1>4, <4>1 DEF IsPart
      <4>3. QED
        BY <4>1, <4>2
    <3>3. QED
      BY <3>1, <3>2
  <2>4. QED
    BY <2>2, <2>3
<1>8. \A i \in DOMAIN v : Whole(text, d, v, Q, i)
  <2> SUFFICES ASSUME NEW i \in DOMAIN v
               PROVE  Whole(text, d, v, Q, i)
    OBVIOUS
  <2>1. ASSUME NEW k \in DOMAIN t, i = 0 + k
        PROVE  Whole(text, d, v, Q, i)
    <3>1. Whole(text, d, t, P, k) /\ k \in 1 .. Len(t)
      BY <1>2 DEF Sound
    <3>2. Whole(text, d + Q[0 + 1], t, P, k) <=> Whole(text, d, v, Q, 0 + k)
      BY <1>1, <3>1, WholeOfPart
    <3>3. d + Q[0 + 1] = d
      BY <1>1
    <3>4. QED
      BY <2>1, <3>1, <3>2, <3>3
  <2>2. ASSUME NEW k \in DOMAIN u, i = n + k
        PROVE  Whole(text, d, v, Q, i)
    <3>1. Whole(text, d + P[n + 1], u, R, k) /\ k \in 1 .. Len(u)
      BY <1>2, <1>3 DEF Sound
    <3>2. Whole(text, d + Q[n + 1], u, R, k) <=> Whole(text, d, v, Q, n + k)
      BY <1>1, <1>3, <3>1, WholeOfPart
    <3>3. Q[n + 1] = P[n + 1]
      BY <1>1, <1>3
    <3>4. QED
      BY <2>2, <3>1, <3>2, <3>3
  <2>3. QED
    BY <1>7, <2>1, <2>2
<1>9. ASSUME Firm(t), Firm(u)
      PROVE  Firm(v)
  <2> SUFFICES ASSUME NEW i \in DOMAIN v
               PROVE  Total(v[i]).b > 0 /\ v[i].sym \notin {"end", "program"} /\ Formed(v, i)
    BY DEF Firm
  <2>1. ASSUME NEW k \in DOMAIN t, i = 0 + k, v[i] = t[k]
        PROVE  Total(v[i]).b > 0 /\ v[i].sym \notin {"end", "program"} /\ Formed(v, i)
    <3>1. Total(t[k]).b > 0 /\ t[k].sym \notin {"end", "program"} /\ Formed(t, k)
      BY <1>9 DEF Firm
    <3>2. Formed(t, k) <=> Formed(v, 0 + k)
      <4>1. k \in 1 .. Len(t)
        BY <1>2
      <4>2. QED
        BY <1>1, <4>1, FormedOfPart
    <3>3. QED
      BY <2>1, <3>1, <3>2
  <2>2. ASSUME NEW k \in DOMAIN u, i = n + k, v[i] = u[k]
        PROVE  Total(v[i]).b > 0 /\ v[i].sym \notin {"end", "program"} /\ Formed(v, i)
    <3>1. Total(u[k]).b > 0 /\ u[k].sym \notin {"end", "program"} /\ Formed(u, k)
      BY <1>9 DEF Firm
    <3>2. Formed(u, k) <=> Formed(v, n + k)
      <4>1. k \in 1 .. Len(u)
        BY <1>2
      <4>2. QED
        BY <1>1, <1>3, <4>1, FormedOfPart
    <3>3. QED
      BY <2>2, <3>1, <3>2
  <2>3. QED
    BY <1>7, <2>1, <2>2
<1>10. QED
  BY <1>1, <1>6, <1>8, <1>9 DEF Sound

(* A node is a tree of the stack or below one.                             *)
LEMMA TopOrBelow ==
  ASSUME NEW t, IsForest(t), NEW k \in DOMAIN t
  PROVE  \E i \in Tops(t) : i \in DOMAIN t /\ (i = k \/ k \in Below(t, i))
<1>1. Len(t) \in Nat /\ DOMAIN t = 1 .. Len(t)
  BY DEF IsForest
<1> DEFINE S == {i \in 1 .. Len(t) : i <= k /\ k < Beyond(t, i)}
<1>2. S \in SUBSET Nat
  BY <1>1
<1>3. k \in S
  <2>1. Beyond(t, k) \in k + 1 .. Len(t) + 1
    BY NodeFacts
  <2>2. QED
    BY <1>1, <2>1
<1>4. PICK i : i = Min(S)
  OBVIOUS
<1>5. i \in S /\ \A x \in S : i <= x
  <2>1. Min(S) \in S
    <3> HIDE DEF S
    <3> QED BY <1>2, <1>3, MinIs
  <2>2. \A x \in S : Min(S) <= x
    <3> HIDE DEF S
    <3> QED BY <1>2, <1>3, MinIs
  <2>3. QED
    BY <1>4, <2>1, <2>2
<1>6. i \in 1 .. Len(t) /\ i \in DOMAIN t /\ i <= k /\ k < Beyond(t, i)
  BY <1>1, <1>5
<1>7. ASSUME NEW j \in DOMAIN t, i \in Below(t, j)
      PROVE  FALSE
  <2>1. Beyond(t, i) <= Beyond(t, j)
    BY <1>7 DEF IsForest
  <2>2. j < i /\ i < Beyond(t, j)
    BY <1>7, BelowIs
  <2>3. Beyond(t, j) \in j + 1 .. Len(t) + 1 /\ Beyond(t, i) \in i + 1 .. Len(t) + 1
    BY <1>6, <1>7, NodeFacts
  <2>4. j \in S
    BY <1>1, <1>6, <1>7, <2>1, <2>2, <2>3
  <2>5. i <= j
    BY <1>5, <2>4
  <2>6. QED
    BY <1>1, <1>6, <1>7, <2>2, <2>5
<1>8. i \in Tops(t)
  BY <1>6, <1>7 DEF Tops
<1>9. i = k \/ k \in Below(t, i)
  BY <1>1, <1>6, BelowIs
<1>10. QED
  BY <1>6, <1>8, <1>9

(* Where the nodes are below a new node.                                   *)
Under(R, n) == [j \in 1 .. n + 2 |-> IF j = 1 THEN 0 ELSE R[j - 1]]

(* A new node above the trees of the parser is one of the parser's.        *)
IsNode(text, d, kids, R, sym, v, Q) ==
  /\ IsText(text) /\ d \in Nat /\ Sound(text, d, kids, R) /\ kids # <<>> /\ sym \in Symbols
  /\ v = Node(sym, kids) /\ Q = Under(R, Len(kids))

(* A new node above a sound stack is sound.                                *)
LEMMA SoundNode ==
  ASSUME NEW text, NEW d, NEW kids, NEW R, NEW sym, NEW v, NEW Q, IsNode(text, d, kids, R, sym, v, Q)
  PROVE  /\ Sound(text, d, v, Q) /\ IsTree(v) /\ Len(v) = Len(kids) + 1
         /\ v[1].sym = sym /\ ~Leaf(v[1]) /\ ~v[1].changed
         /\ Q[Len(v) + 1] = R[Len(kids) + 1]
         /\ IsPart(v, Q, kids, R, 1)
<1>0. /\ IsText(text) /\ d \in Nat /\ Sound(text, d, kids, R) /\ kids # <<>> /\ sym \in Symbols
      /\ v = Node(sym, kids) /\ Q = Under(R, Len(kids))
  BY DEF IsNode
<1> USE <1>0
<1>1. /\ Measured(kids, R) /\ IsForest(kids) /\ Len(kids) \in Nat /\ DOMAIN kids = 1 .. Len(kids)
      /\ R \in [1 .. Len(kids) + 1 -> Nat] /\ R[1] = 0 /\ kids \in Seq(TreeNode)
      /\ d + R[Len(kids) + 1] <= Len(text)
      /\ \A k \in 1 .. Len(kids) : Whole(text, d, kids, R, k)
  BY DEF Sound, Measured, IsForest
<1>2. PICK n \in Nat \ {0} : n = Len(kids)
  BY <1>1, EmptySeq
<1>3. IsAbove(v, sym, kids)
  BY <1>1, NodeIsAbove
<1>4. /\ IsTree(v) /\ IsForest(v) /\ Len(v) = n + 1 /\ DOMAIN v = 1 .. n + 1
      /\ v[1].sym = sym /\ ~v[1].changed /\ ~Leaf(v[1]) /\ EndOf(v) = EndOf(kids)
      /\ \A k \in 1 .. n : v[k + 1] = kids[k] /\ Beyond(v, k + 1) = Beyond(kids, k) + 1
      /\ Beyond(v, 1) = n + 2
  BY <1>2, <1>3 DEF IsAbove, IsTree, IsForest
<1>5. Q[1] = 0 /\ \A k \in 1 .. n + 1 : Q[k + 1] = R[k] /\ R[k] \in Nat
  <2>1. ASSUME NEW k \in 1 .. n + 1
        PROVE  Q[k + 1] = R[k] /\ R[k] \in Nat
    <3>1. k + 1 \in 1 .. n + 2 /\ k + 1 # 1 /\ (k + 1) - 1 = k
      OBVIOUS
    <3>2. Q[k + 1] = R[(k + 1) - 1]
      BY <1>2, <3>1 DEF Under
    <3>3. QED
      BY <1>1, <1>2, <3>1, <3>2
  <2>2. Q[1] = 0
    BY <1>2 DEF Under
  <2>3. QED
    BY <2>1, <2>2
<1>6. Q \in [1 .. Len(v) + 1 -> Nat]
  <2>1. Q = [j \in 1 .. n + 2 |-> Q[j]]
    BY <1>2 DEF Under
  <2>2. \A j \in 1 .. n + 2 : Q[j] \in Nat
    <3> SUFFICES ASSUME NEW j \in 1 .. n + 2
                 PROVE  Q[j] \in Nat
      OBVIOUS
    <3>1. CASE j = 1
      BY <1>5, <3>1
    <3>2. CASE j # 1
      <4>1. PICK k \in 1 .. n + 1 : j = k + 1
        <5>1. j - 1 \in 1 .. n + 1 /\ j = (j - 1) + 1
          BY <3>2
        <5>2. QED
          BY <5>1
      <4>2. QED
        BY <1>5, <4>1
    <3>3. QED
      BY <3>1, <3>2
  <2>3. Len(v) + 1 = n + 2
    BY <1>4
  <2>4. QED
    BY <2>1, <2>2, <2>3
<1>7. IsPart(v, Q, kids, R, 1)
  <2>1. 1 \in Nat /\ 1 + n <= Len(v)
    BY <1>4
  <2>2. \A k \in 1 .. n : kids[k] = v[1 + k]
    <3>1. \A k \in 1 .. n : 1 + k = k + 1
      OBVIOUS
    <3>2. QED
      BY <1>4, <3>1
  <2>3. \A k \in 1 .. n + 1 : Q[1 + k] = Q[1 + 1] + R[k]
    <3> SUFFICES ASSUME NEW k \in 1 .. n + 1
                 PROVE  Q[1 + k] = Q[1 + 1] + R[k]
      OBVIOUS
    <3>1. 1 \in 1 .. n + 1 /\ 1 + k = k + 1
      OBVIOUS
    <3>2. Q[1 + 1] = 0
      BY <1>1, <1>5, <3>1
    <3>3. Q[1 + k] = R[k] /\ R[k] \in Nat
      BY <1>5, <3>1
    <3>4. QED
      BY <3>2, <3>3
  <2>4. QED
    BY <1>1, <1>2, <1>4, <1>6, <2>1, <2>2, <2>3 DEF IsPart
<1>8. PICK z \in Nat : z = R[n + 1] /\ Q[n + 2] = z /\ z < Width /\ d + z <= Len(text)
  <2>1. n + 1 \in 1 .. n + 1 /\ (n + 1) + 1 = n + 2
    OBVIOUS
  <2>2. Q[n + 2] = R[n + 1] /\ R[n + 1] \in Nat
    BY <1>5, <2>1
  <2>3. d + R[n + 1] <= Len(text) /\ Len(text) \in Nat /\ Len(text) < Width /\ Width \in Nat
    BY <1>1, <1>2, CharacterIs, WidthIsPositive DEF IsText
  <2>4. QED
    BY <2>2, <2>3
<1>9. Pos(kids) = R /\ EndOf(kids) = z
  BY <1>1, <1>2, <1>8, MeasureIs
<1>10. Total(v[1]).b = z
  BY <1>4, <1>9, EndOfTree
<1>11. ASSUME NEW i \in DOMAIN v
       PROVE  /\ Q[Beyond(v, i)] = Q[i] + Total(v[i]).b
              /\ ~Leaf(v[i]) => Q[i + 1] = Q[i]
  <2>1. CASE i = 1
    <3>1. 1 \in 1 .. n + 1
      OBVIOUS
    <3>2. Q[1 + 1] = 0
      BY <1>1, <1>5, <3>1
    <3>3. QED
      BY <1>4, <1>5, <1>8, <1>10, <2>1, <3>2
  <2>2. CASE i # 1
    <3>1. PICK k \in 1 .. n : i = k + 1
      <4>1. i - 1 \in 1 .. n /\ i = (i - 1) + 1
        BY <1>4, <2>2
      <4>2. QED
        BY <4>1
    <3>2. PICK e \in 1 .. n + 1 : e = Beyond(kids, k)
      <4>1. Beyond(kids, k) \in k + 1 .. Len(kids) + 1
        BY <1>1, <1>2, NodeFacts
      <4>2. QED
        BY <1>2, <4>1
    <3>3. R[e] = R[k] + Total(kids[k]).b
      BY <1>1, <1>2, <3>2 DEF Measured
    <3>4. ~Leaf(kids[k]) => R[k + 1] = R[k]
      BY <1>1, <1>2 DEF Measured
    <3>5. k \in 1 .. n + 1 /\ k + 1 \in 1 .. n + 1
      OBVIOUS
    <3>6. Q[e + 1] = R[e] /\ Q[k + 1] = R[k] /\ Q[(k + 1) + 1] = R[k + 1]
      BY <1>5, <3>5
    <3>7. v[i] = kids[k] /\ Beyond(v, i) = e + 1
      BY <1>4, <3>1, <3>2
    <3>8. QED
      BY <3>1, <3>3, <3>4, <3>6, <3>7
  <2>3. QED
    BY <2>1, <2>2
<1>12. Measured(v, Q)
  BY <1>4, <1>5, <1>6, <1>11 DEF Measured
<1>13. \A k \in 1 .. n : Whole(text, d, v, Q, 1 + k)
  <2> SUFFICES ASSUME NEW k \in 1 .. n
               PROVE  Whole(text, d, v, Q, 1 + k)
    OBVIOUS
  <2>1. 1 \in 1 .. n + 1 /\ d + Q[1 + 1] = d
    <3>1. 1 \in 1 .. n + 1
      OBVIOUS
    <3>2. Q[1 + 1] = 0
      BY <1>1, <1>5, <3>1
    <3>3. QED
      BY <3>1, <3>2
  <2>2. Whole(text, d + Q[1 + 1], kids, R, k) <=> Whole(text, d, v, Q, 1 + k)
    BY <1>2, <1>7, WholeOfPart
  <2>3. QED
    BY <1>1, <1>2, <2>1, <2>2
<1>14. PICK l \in Nat : l = v[1].look
  BY <1>4, NodeFacts
<1>15. \A i \in Tops(kids) : i \in 1 .. n /\ R[Beyond(kids, i)] + kids[i].look <= z + l
  <2> SUFFICES ASSUME NEW i \in Tops(kids)
               PROVE  i \in 1 .. n /\ R[Beyond(kids, i)] + kids[i].look <= z + l
    OBVIOUS
  <2>1. i \in 1 .. n
    BY <1>1, <1>2 DEF Tops
  <2>2. PICK e \in 1 .. n + 1 : e = Beyond(kids, i)
    <3>1. Beyond(kids, i) \in i + 1 .. Len(kids) + 1
      BY <1>1, <1>2, <2>1, NodeFacts
    <3>2. QED
      BY <1>2, <2>1, <3>1
  <2>3. Pos(kids)[e] = Starts(kids)[e].b
    BY <1>2 DEF Pos
  <2>4. Starts(kids)[e].b + kids[i].look <= EndOf(kids) + v[1].look
    BY <1>3, <2>2 DEF IsAbove
  <2>5. QED
    BY <1>9, <1>14, <2>1, <2>2, <2>3, <2>4
<1>16. l >= 1
  <2>1. PICK top : top = Top(kids)
    OBVIOUS
  <2>2. top \in Tops(kids) /\ Beyond(kids, top) = n + 1 /\ top \in 1 .. n
    BY <1>1, <1>2, <2>1, TopIs
  <2>3. R[n + 1] + kids[top].look <= z + l
    BY <1>15, <2>2
  <2>4. Whole(text, d, kids, R, top)
    BY <1>1, <1>2, <2>2
  <2>5. kids[top].look >= 1 /\ kids[top].look \in Nat
    BY <1>1, <1>2, <2>2, <2>4, NodeFacts DEF Whole
  <2>6. QED
    BY <1>8, <2>3, <2>5
<1>17. \A k \in 1 .. n : R[Beyond(kids, k)] + kids[k].look <= z + l
  <2> SUFFICES ASSUME NEW k \in 1 .. n
               PROVE  R[Beyond(kids, k)] + kids[k].look <= z + l
    OBVIOUS
  <2>1. PICK i \in Tops(kids) : i \in DOMAIN kids /\ (i = k \/ k \in Below(kids, i))
    BY <1>1, <1>2, TopOrBelow
  <2>2. R[Beyond(kids, i)] + kids[i].look <= z + l /\ i \in 1 .. n
    BY <1>15
  <2>3. CASE i = k
    BY <2>2, <2>3
  <2>4. CASE k \in Below(kids, i)
    <3>1. Whole(text, d, kids, R, i)
      BY <1>1, <1>2, <2>2
    <3>2. R[Beyond(kids, k)] + kids[k].look <= R[Beyond(kids, i)] + kids[i].look
      BY <2>4, <3>1 DEF Whole
    <3>3. PICK e \in 1 .. n + 1, f \in 1 .. n + 1 : e = Beyond(kids, k) /\ f = Beyond(kids, i)
      <4>1. Beyond(kids, i) \in i + 1 .. Len(kids) + 1 /\ Beyond(kids, k) \in k + 1 .. Len(kids) + 1
        BY <1>1, <1>2, <2>2, NodeFacts
      <4>2. QED
        BY <1>2, <2>2, <4>1
    <3>4. R[e] \in Nat /\ R[f] \in Nat /\ kids[k].look \in Nat /\ kids[i].look \in Nat
      BY <1>1, <1>2, <1>5, <2>2, NodeFacts
    <3>5. PICK a \in Nat, b \in Nat, x \in Nat, y \in Nat :
            a = R[e] /\ b = R[f] /\ x = kids[k].look /\ y = kids[i].look
      BY <3>4
    <3>6. a + x <= b + y /\ b + y <= z + l
      BY <2>2, <3>2, <3>3, <3>5
    <3>7. a + x <= z + l
      <4>1. a + x \in Int /\ b + y \in Int /\ z + l \in Int
        OBVIOUS
      <4>2. \A m \in Int, o \in Int, q \in Int : m <= o /\ o <= q => m <= q
        OBVIOUS
      <4>3. QED
        BY <3>6, <4>1, <4>2
    <3>8. QED
      BY <3>3, <3>5, <3>7
  <2>5. QED
    BY <2>1, <2>3, <2>4
<1>18. \A j \in Below(v, 1) : Q[Beyond(v, j)] + v[j].look <= Q[Beyond(v, 1)] + v[1].look
  <2> SUFFICES ASSUME NEW j \in Below(v, 1)
               PROVE  Q[Beyond(v, j)] + v[j].look <= Q[Beyond(v, 1)] + v[1].look
    OBVIOUS
  <2>1. PICK k \in 1 .. n : j = k + 1
    <3>1. 1 \in DOMAIN v
      BY <1>4
    <3>2. j \in 1 .. n + 1 /\ 1 < j
      BY <1>4, <3>1, BelowIs
    <3>3. j - 1 \in 1 .. n /\ j = (j - 1) + 1
      BY <3>2
    <3>4. QED
      BY <3>3
  <2>2. PICK e \in 1 .. n + 1 : e = Beyond(kids, k)
    <3>1. Beyond(kids, k) \in k + 1 .. Len(kids) + 1
      BY <1>1, <1>2, NodeFacts
    <3>2. QED
      BY <1>2, <3>1
  <2>3. Q[e + 1] = R[e] /\ v[j] = kids[k] /\ Beyond(v, j) = e + 1
    BY <1>4, <1>5, <2>1, <2>2
  <2>4. R[e] + kids[k].look <= z + l
    BY <1>17, <2>2
  <2>5. QED
    BY <1>4, <1>8, <1>14, <2>3, <2>4
<1>19. Inner(v, 1) = kids
  <2>1. 1 \in DOMAIN v /\ Beyond(v, 1) - 1 - 1 = n
    BY <1>4
  <2>2. /\ Inner(v, 1) \in Seq(TreeNode) /\ Len(Inner(v, 1)) = Beyond(v, 1) - 1 - 1
        /\ \A k \in 1 .. Beyond(v, 1) - 1 - 1 : Inner(v, 1)[k] = v[1 + k]
    BY <1>4, <2>1, InnerIs
  <2>3. \A k \in 1 .. n : v[1 + k] = kids[k]
    <3>1. \A k \in 1 .. n : 1 + k = k + 1
      OBVIOUS
    <3>2. QED
      BY <1>4, <3>1
  <2>4. QED
    BY <1>1, <1>2, <2>1, <2>2, <2>3, SeqEqual, SMTT(60)
<1>20. Whole(text, d, v, Q, 1)
  BY <1>4, <1>14, <1>16, <1>18, <1>19 DEF Whole
<1>21. \A i \in DOMAIN v : Whole(text, d, v, Q, i)
  <2> SUFFICES ASSUME NEW i \in DOMAIN v
               PROVE  Whole(text, d, v, Q, i)
    OBVIOUS
  <2>1. CASE i = 1
    BY <1>20, <2>1
  <2>2. CASE i # 1
    <3>1. i - 1 \in 1 .. n /\ i = 1 + (i - 1)
      BY <1>4, <2>2
    <3>2. QED
      BY <1>13, <3>1
  <2>3. QED
    BY <2>1, <2>2
<1>22. Q[Len(v) + 1] = R[Len(kids) + 1] /\ d + Q[Len(v) + 1] <= Len(text)
  <2>1. Len(v) + 1 = n + 2
    BY <1>4
  <2>2. QED
    BY <1>2, <1>8, <2>1
<1>23. Sound(text, d, v, Q)
  BY <1>12, <1>21, <1>22 DEF Sound
<1>24. QED
  BY <1>2, <1>4, <1>7, <1>22, <1>23

(* A stack of the parser, and the byte of the text it has come to.         *)
MadeTo(text, t, e) ==
  \E P : Sound(text, 0, t, P) /\ Firm(t) /\ P[Len(t) + 1] = e

(* A stack made of the text up to e ends at e.                             *)
LEMMA MadeIs ==
  ASSUME NEW text, IsText(text), NEW t, NEW e, MadeTo(text, t, e)
  PROVE  /\ IsForest(t) /\ Firm(t) /\ EndOf(t) = e /\ e \in Nat /\ e <= Len(text) /\ e \in Positions
         /\ Sound(text, 0, t, Pos(t)) /\ Pos(t)[Len(t) + 1] = e
<1>1. PICK P : Sound(text, 0, t, P) /\ Firm(t) /\ P[Len(t) + 1] = e
  BY DEF MadeTo
<1>2. /\ Measured(t, P) /\ IsForest(t) /\ Len(t) \in Nat /\ P \in [1 .. Len(t) + 1 -> Nat]
      /\ 0 + P[Len(t) + 1] <= Len(text)
  BY <1>1 DEF Sound, Measured, IsForest
<1>3. Len(text) \in Nat /\ Len(text) < Width /\ Width \in Nat
  BY CharacterIs, WidthIsPositive DEF IsText
<1>4. Len(t) + 1 \in 1 .. Len(t) + 1
  BY <1>2
<1>5. e \in Nat /\ e <= Len(text) /\ e < Width
  BY <1>1, <1>2, <1>3, <1>4
<1>6. Pos(t) = P /\ EndOf(t) = e
  BY <1>1, <1>2, <1>5, MeasureIs
<1>7. e \in Positions
  BY <1>3, <1>5 DEF Positions
<1>8. QED
  BY <1>1, <1>2, <1>5, <1>6, <1>7

(* The trees of a stack from the i-th node on, and those before it.        *)
AreCut(text, t, P, i, u, R, v, S) ==
  /\ IsText(text) /\ Sound(text, 0, t, P) /\ Firm(t) /\ IsCut(t, i)
  /\ u = SubSeq(t, 1, i - 1) /\ v = SubSeq(t, i, Len(t))
  /\ R = Moved(P, 0, Len(u)) /\ S = Moved(P, i - 1, Len(v))

(* The two parts of a sound stack that is cut between two trees are sound. *)
LEMMA CutSound ==
  ASSUME NEW text, NEW t, NEW P, NEW i, NEW u, NEW R, NEW v, NEW S, AreCut(text, t, P, i, u, R, v, S)
  PROVE  /\ IsForest(u) /\ Len(u) = i - 1 /\ IsForest(v) /\ Len(v) = Len(t) - i + 1
         /\ P[i] \in Nat
         /\ Sound(text, 0, u, R) /\ Firm(u) /\ R[Len(u) + 1] = P[i]
         /\ Sound(text, P[i], v, S) /\ Firm(v) /\ S[Len(v) + 1] = P[Len(t) + 1] - P[i]
<1>0. /\ IsText(text) /\ Sound(text, 0, t, P) /\ Firm(t) /\ IsCut(t, i)
      /\ u = SubSeq(t, 1, i - 1) /\ v = SubSeq(t, i, Len(t))
      /\ R = Moved(P, 0, Len(u)) /\ S = Moved(P, i - 1, Len(v))
  BY DEF AreCut
<1> USE <1>0
<1>1. /\ IsForest(t) /\ Len(t) \in Nat /\ P \in [1 .. Len(t) + 1 -> Nat] /\ P[1] = 0
      /\ i \in 1 .. Len(t) + 1
  BY DEF Sound, Measured, IsForest, IsCut
<1>2. IsForest(u) /\ Len(u) = i - 1 /\ \A k \in 1 .. i - 1 : u[k] = t[k]
  <2>1. IsForest(u)
    BY <1>1, CutsInTwo
  <2>2. Len(u) = i - 1
    BY <1>1, CutsInTwo
  <2>3. \A k \in 1 .. i - 1 : SubSeq(t, 1, i - 1)[k] = t[k]
    BY <1>1, CutsInTwo
  <2>4. QED
    BY <2>1, <2>2, <2>3
<1>3. /\ IsForest(v) /\ Len(v) = Len(t) - i + 1
      /\ \A k \in 1 .. Len(t) - i + 1 : v[k] = t[i + k - 1]
  <2>1. IsForest(v)
    BY <1>1, CutsInTwo
  <2>2. Len(v) = Len(t) - i + 1
    BY <1>1, CutsInTwo
  <2>3. \A k \in 1 .. Len(t) - i + 1 : SubSeq(t, i, Len(t))[k] = t[i + k - 1]
    BY <1>1, CutsInTwo
  <2>4. QED
    BY <2>1, <2>2, <2>3
<1>4. Sound(text, 0, u, R) /\ Firm(u) /\ R[Len(u) + 1] = P[i] /\ P[i] \in Nat
  <2>1. PICK z \in Nat : z = 0
    OBVIOUS
  <2>2. z + Len(u) <= Len(t) /\ \A k \in 1 .. Len(u) : u[k] = t[z + k]
    BY <1>1, <1>2, <2>1
  <2>3. IsPartOf(text, z, t, P, u, R, z)
    BY <1>2, <2>1, <2>2 DEF IsPartOf
  <2>4. /\ P[z + 1] \in Nat /\ Sound(text, z + P[z + 1], u, R)
        /\ R[Len(u) + 1] = P[z + Len(u) + 1] - P[z + 1]
        /\ Firm(t) => Firm(u)
    <3>1. P[z + 1] \in Nat
      BY <2>3, SoundPart
    <3>2. Sound(text, z + P[z + 1], u, R)
      BY <2>3, SoundPart
    <3>3. R[Len(u) + 1] = P[z + Len(u) + 1] - P[z + 1]
      <4>1. Len(u) + 1 \in 1 .. Len(u) + 1 /\ z + (Len(u) + 1) = z + Len(u) + 1
        BY <1>1, <1>2
      <4>2. R = Moved(P, z, Len(u))
        BY <2>1
      <4>3. QED
        BY <4>1, <4>2 DEF Moved
    <3>4. Firm(t) => Firm(u)
      BY <2>3, SoundPart
    <3>5. QED
      BY <3>1, <3>2, <3>3, <3>4
  <2>5. z + 1 = 1 /\ z + Len(u) + 1 = i
    BY <1>1, <1>2, <2>1
  <2>6. P[z + 1] = 0 /\ z + P[z + 1] = 0 /\ P[i] \in Nat
    BY <1>1, <2>1, <2>5, SMTT(60)
  <2>7. P[i] - P[z + 1] = P[i]
    BY <2>6
  <2>8. QED
    BY <2>4, <2>5, <2>6, <2>7
<1>5. Sound(text, P[i], v, S) /\ Firm(v) /\ S[Len(v) + 1] = P[Len(t) + 1] - P[i]
  <2>1. PICK a \in Nat : a = i - 1
    BY <1>1
  <2>2. a + Len(v) <= Len(t) /\ a + 1 = i /\ a + Len(v) + 1 = Len(t) + 1
    BY <1>1, <1>3, <2>1
  <2>3. \A k \in 1 .. Len(v) : v[k] = t[a + k]
    <3>1. \A k \in 1 .. Len(v) : k \in 1 .. Len(t) - i + 1 /\ a + k = i + k - 1
      BY <1>1, <1>3, <2>1
    <3>2. QED
      BY <1>3, <3>1
  <2>4. PICK z \in Nat : z = 0
    OBVIOUS
  <2>5. /\ Sound(text, z + P[a + 1], v, S)
        /\ S[Len(v) + 1] = P[a + Len(v) + 1] - P[a + 1]
        /\ Firm(t) => Firm(v)
    <3>1. S = Moved(P, a, Len(v))
      BY <2>1
    <3>2. IsPartOf(text, z, t, P, v, S, a)
      BY <1>3, <2>2, <2>3, <2>4, <3>1 DEF IsPartOf
    <3>3. Sound(text, z + P[a + 1], v, S)
      BY <3>2, SoundPart
    <3>4. S[Len(v) + 1] = P[a + Len(v) + 1] - P[a + 1]
      <4>1. Len(v) + 1 \in 1 .. Len(v) + 1 /\ a + (Len(v) + 1) = a + Len(v) + 1
        BY <1>1, <1>3
      <4>2. QED
        BY <3>1, <4>1 DEF Moved
    <3>5. Firm(t) => Firm(v)
      BY <3>2, SoundPart
    <3>6. QED
      BY <3>3, <3>4, <3>5
  <2>6. z + P[a + 1] = P[i]
    BY <1>4, <2>2, <2>4, SMTT(60)
  <2>7. QED
    BY <2>2, <2>5, <2>6
<1>6. QED
  BY <1>2, <1>3, <1>4, <1>5

(* A reduction keeps what the parser has made.                             *)
LEMMA ReduceMade ==
  ASSUME NEW text, IsText(text), NEW stack, NEW t, t = stack.nodes, NEW e, MadeTo(text, t, e),
         NEW i \in 1 .. Len(t), IsCut(t, i), NEW sym \in {"list", "statement"},
         NEW n, n = Node(sym, SubSeq(t, i, Len(t))), Formed(n, 1)
  PROVE  /\ MadeTo(text, Reduce(stack, sym, i).nodes, e)
         /\ Reduce(stack, sym, i).nodes # <<>>
<1>1. PICK P : Sound(text, 0, t, P) /\ Firm(t) /\ P[Len(t) + 1] = e
  BY DEF MadeTo
<1>2. IsForest(t) /\ Len(t) \in Nat /\ e \in Nat
  BY <1>1, MadeIs DEF Sound, Measured, IsForest
<1>3. PICK u : u = SubSeq(t, 1, i - 1)
  OBVIOUS
<1>4. PICK v : v = SubSeq(t, i, Len(t))
  OBVIOUS
<1>5. PICK R : R = Moved(P, 0, Len(u))
  OBVIOUS
<1>6. PICK S : S = Moved(P, i - 1, Len(v))
  OBVIOUS
<1>7. /\ IsForest(u) /\ Len(u) = i - 1 /\ IsForest(v) /\ Len(v) = Len(t) - i + 1
      /\ P[i] \in Nat
      /\ Sound(text, 0, u, R) /\ Firm(u) /\ R[Len(u) + 1] = P[i]
      /\ Sound(text, P[i], v, S) /\ Firm(v) /\ S[Len(v) + 1] = P[Len(t) + 1] - P[i]
  <2>1. AreCut(text, t, P, i, u, R, v, S)
    BY <1>1, <1>3, <1>4, <1>5, <1>6 DEF AreCut
  <2>2. QED
    BY <2>1, CutSound, SMTT(60)
<1>8. Len(u) \in Nat /\ Len(v) \in Nat /\ Len(v) >= 1 /\ v # <<>>
  <2>1. Len(u) \in Nat /\ Len(v) \in Nat /\ Len(v) >= 1
    BY <1>2, <1>7
  <2>2. v # <<>>
    BY <2>1, EmptySeq
  <2>3. QED
    BY <2>1, <2>2
<1>9. PICK Q : Q = Under(S, Len(v))
  OBVIOUS
<1>10. /\ Sound(text, P[i], n, Q) /\ IsTree(n) /\ Len(n) = Len(v) + 1 /\ n[1].sym = sym /\ ~Leaf(n[1])
       /\ Q[Len(n) + 1] = S[Len(v) + 1] /\ IsPart(n, Q, v, S, 1)
  <2>1. sym \in Symbols
    BY DEF Symbols
  <2>2. IsNode(text, P[i], v, S, sym, n, Q)
    BY <1>4, <1>7, <1>8, <1>9, <2>1 DEF IsNode
  <2>3. QED
    BY <2>2, SoundNode
<1>11. /\ Measured(n, Q) /\ IsForest(n) /\ DOMAIN n = 1 .. Len(v) + 1 /\ Measured(v, S)
       /\ S \in [1 .. Len(v) + 1 -> Nat] /\ S[1] = 0 /\ DOMAIN v = 1 .. Len(v)
  <2>1. Measured(n, Q) /\ Measured(v, S)
    BY <1>7, <1>10 DEF Sound
  <2>2. IsForest(n) /\ S \in [1 .. Len(v) + 1 -> Nat] /\ S[1] = 0
    BY <2>1 DEF Measured
  <2>3. DOMAIN n = 1 .. Len(n) /\ DOMAIN v = 1 .. Len(v)
    BY <1>7, <2>2 DEF IsForest
  <2>4. QED
    BY <1>10, <2>1, <2>2, <2>3
<1>12. Total(n[1]).b > 0
  <2>1. S[Beyond(v, 1)] = S[1] + Total(v[1]).b /\ Total(v[1]).b > 0
    <3>1. 1 \in DOMAIN v
      BY <1>8, <1>11
    <3>2. QED
      BY <1>7, <1>11, <3>1 DEF Measured, Firm
  <2>2. PICK f \in 1 .. Len(v) + 1 : f = Beyond(v, 1)
    <3>1. 1 \in DOMAIN v
      BY <1>8, <1>11
    <3>2. Beyond(v, 1) \in 1 + 1 .. Len(v) + 1
      BY <1>7, <3>1, NodeFacts
    <3>3. QED
      BY <1>8, <3>2
  <2>3. S[f] <= S[Len(v) + 1] /\ S[f] \in Nat /\ S[Len(v) + 1] \in Nat
    <3>1. Len(v) + 1 \in 1 .. Len(v) + 1 /\ f <= Len(v) + 1
      BY <1>8, <2>2
    <3>2. QED
      BY <1>11, <2>2, <3>1, MeasureGrows
  <2>4. Total(v[1]).b \in Nat
    <3>1. 1 \in DOMAIN v
      BY <1>8, <1>11
    <3>2. Total(v[1]) \in Lengths
      BY <1>7, <3>1, NodeFacts
    <3>3. QED
      BY <3>2 DEF Lengths
  <2>5. S[Len(v) + 1] > 0
    BY <1>11, <2>1, <2>2, <2>3, <2>4
  <2>6. Q[Beyond(n, 1)] = Q[1] + Total(n[1]).b /\ Q[1] = 0 /\ Beyond(n, 1) = Len(n) + 1
    BY <1>10, <1>11 DEF Measured, IsTree
  <2>7. Total(n[1]).b \in Nat
    <3>1. 1 \in DOMAIN n
      BY <1>8, <1>11
    <3>2. Total(n[1]) \in Lengths
      BY <1>11, <3>1, NodeFacts
    <3>3. QED
      BY <3>2 DEF Lengths
  <2>8. QED
    BY <1>10, <2>5, <2>6, <2>7
<1>13. Firm(n)
  <2> SUFFICES ASSUME NEW k \in DOMAIN n
               PROVE  Total(n[k]).b > 0 /\ n[k].sym \notin {"end", "program"} /\ Formed(n, k)
    BY DEF Firm
  <2>1. CASE k = 1
    BY <1>10, <1>12, <2>1
  <2>2. CASE k # 1
    <3>1. PICK m \in 1 .. Len(v) : k = 1 + m
      <4>1. k - 1 \in 1 .. Len(v) /\ k = 1 + (k - 1)
        BY <1>8, <1>11, <2>2
      <4>2. QED
        BY <4>1
    <3>2. n[k] = v[m]
      BY <1>10, <3>1 DEF IsPart
    <3>3. Formed(v, m) <=> Formed(n, 1 + m)
      BY <1>10, FormedOfPart
    <3>4. Total(v[m]).b > 0 /\ v[m].sym \notin {"end", "program"} /\ Formed(v, m)
      BY <1>7, <1>11 DEF Firm
    <3>5. QED
      BY <3>1, <3>2, <3>3, <3>4
  <2>3. QED
    BY <2>1, <2>2
<1>14. PICK w : w = u \o n
  OBVIOUS
<1>15. PICK T : T = Joined(R, Q, Len(u), Len(n))
  OBVIOUS
<1>16. /\ Sound(text, 0, w, T) /\ T[Len(w) + 1] = R[Len(u) + 1] + Q[Len(n) + 1]
       /\ Firm(u) /\ Firm(n) => Firm(w)
  <2>1. Sound(text, 0 + R[Len(u) + 1], n, Q)
    BY <1>7, <1>10
  <2>2. 0 \in Nat
    OBVIOUS
  <2>3. IsJoin(text, 0, u, R, n, Q, w, T)
    BY <1>7, <1>14, <1>15, <2>1, <2>2 DEF IsJoin
  <2>4. QED
    BY <2>3, SoundJoined
<1>17. T[Len(w) + 1] = e
  <2>1. PICK a \in Nat : a = P[i]
    BY <1>7
  <2>2. R[Len(u) + 1] = a /\ Q[Len(n) + 1] = e - a
    BY <1>1, <1>7, <1>10, <2>1
  <2>3. a + (e - a) = e
    BY <1>2
  <2>4. QED
    BY <1>16, <2>2, <2>3
<1>18. MadeTo(text, w, e)
  BY <1>7, <1>13, <1>16, <1>17 DEF MadeTo
<1>19. Reduce(stack, sym, i).nodes = w
  BY <1>3, <1>4, <1>14 DEF Reduce
<1>20. w # <<>>
  <2>1. IsForest(w) /\ Len(w) = Len(u) + Len(n)
    <3>1. IsForest(w)
      BY <1>16 DEF Sound, Measured
    <3>2. Len(w) = Len(u) + Len(n)
      BY <1>7, <1>11, <1>14, ConcatIsForest
    <3>3. QED
      BY <3>1, <3>2
  <2>2. Len(w) # 0
    BY <1>8, <1>10, <2>1
  <2>3. QED
    BY <2>2, EmptySeq
<1>21. QED
  BY <1>18, <1>19, <1>20

(* What a reduction puts below the new node.                               *)
LEMMA ReducedNode ==
  ASSUME NEW t, IsForest(t), NEW i \in 1 .. Len(t), IsCut(t, i), NEW sym \in Symbols,
         NEW n, n = Node(sym, SubSeq(t, i, Len(t)))
  PROVE  /\ n[1].sym = sym /\ ~Leaf(n[1]) /\ n[1 + 1] = t[i]
         /\ Beyond(t, i) = Len(t) + 1 => Beyond(n, 1 + 1) = Beyond(n, 1)
         /\ Beyond(t, i) = Len(t) =>
              Beyond(n, 1 + 1) = Beyond(n, 1) - 1 /\ n[Beyond(n, 1) - 1] = t[Len(t)]
<1>1. PICK l \in Nat : l = Len(t)
  BY DEF IsForest
<1>2. PICK v : v = SubSeq(t, i, Len(t))
  OBVIOUS
<1>3. IsForest(v) /\ Len(v) = l - i + 1
  <2>1. IsForest(v)
    BY <1>2, CutsInTwo
  <2>2. Len(v) = Len(t) - i + 1
    BY <1>2, CutsInTwo
  <2>3. QED
    BY <1>1, <2>1, <2>2
<1>4. \A k \in 1 .. l - i + 1 : v[k] = t[i + k - 1] /\ Beyond(v, k) = Beyond(t, i + k - 1) - (i - 1)
  <2>1. \A k \in 1 .. Len(t) - i + 1 : /\ SubSeq(t, i, Len(t))[k] = t[i + k - 1]
                                       /\ Beyond(SubSeq(t, i, Len(t)), k) = Beyond(t, i + k - 1) - (i - 1)
    BY CutsInTwo, ZenonT(60)
  <2>2. QED
    BY <1>1, <1>2, <2>1
<1>5. PICK m \in Nat \ {0} : m = l - i + 1
  BY <1>1
<1>6. v # <<>>
  BY <1>3, <1>5, EmptySeq
<1>7. IsAbove(n, sym, v)
  BY <1>2, <1>3, <1>6, NodeIsAbove
<1>8. /\ n[1].sym = sym /\ ~Leaf(n[1]) /\ Beyond(n, 1) = m + 2
      /\ \A k \in 1 .. m : n[k + 1] = v[k] /\ Beyond(n, k + 1) = Beyond(v, k) + 1
  <2>1. Len(v) = m
    BY <1>3, <1>5
  <2>2. QED
    BY <1>7, <2>1 DEF IsAbove, IsTree
<1>9. v[1] = t[i] /\ Beyond(v, 1) = Beyond(t, i) - (i - 1) /\ v[m] = t[l]
  <2>1. 1 \in 1 .. l - i + 1 /\ m \in 1 .. l - i + 1 /\ i + 1 - 1 = i /\ i + m - 1 = l
    BY <1>1, <1>5
  <2>2. v[1] = t[i + 1 - 1] /\ Beyond(v, 1) = Beyond(t, i + 1 - 1) - (i - 1)
    BY <1>4, <2>1
  <2>3. v[m] = t[i + m - 1]
    BY <1>4, <2>1
  <2>4. QED
    BY <2>1, <2>2, <2>3
<1>10. n[1 + 1] = t[i] /\ Beyond(n, 1 + 1) = Beyond(v, 1) + 1
  <2>1. 1 \in 1 .. m
    BY <1>5
  <2>2. QED
    BY <1>8, <1>9, <2>1
<1>11. ASSUME Beyond(t, i) = Len(t) + 1
       PROVE  Beyond(n, 1 + 1) = Beyond(n, 1)
  <2>1. Beyond(v, 1) = (l + 1) - (i - 1)
    BY <1>1, <1>9, <1>11
  <2>2. Beyond(v, 1) = m + 1
    BY <1>1, <1>5, <2>1
  <2>3. QED
    BY <1>5, <1>8, <1>10, <2>2
<1>12. ASSUME Beyond(t, i) = Len(t)
       PROVE  Beyond(n, 1 + 1) = Beyond(n, 1) - 1 /\ n[Beyond(n, 1) - 1] = t[Len(t)]
  <2>1. Beyond(v, 1) = l - (i - 1)
    BY <1>1, <1>9, <1>12
  <2>2. Beyond(v, 1) = m
    BY <1>1, <1>5, <2>1
  <2>3. m \in 1 .. m /\ (m + 2) - 1 = m + 1
    BY <1>5
  <2>4. n[m + 1] = v[m]
    BY <1>8, <2>3
  <2>5. QED
    BY <1>1, <1>5, <1>8, <1>9, <1>10, <2>2, <2>3, <2>4
<1>13. QED
  BY <1>8, <1>10, <1>11, <1>12

(* The tree before the last one.                                           *)
LEMMA TopUnderTop ==
  ASSUME NEW t, IsForest(t), t # <<>>, NEW u, u = UnderTop(t), u # <<>>, NEW x, x = Top(u)
  PROVE  /\ x \in 1 .. Len(t) /\ IsCut(t, x) /\ u[x] = t[x] /\ Beyond(t, x) = Top(t)
<1>1. PICK top : top = Top(t)
  OBVIOUS
<1>2. top \in 1 .. Len(t) /\ IsCut(t, top)
  BY <1>1, TopIsCut
<1>3. u = SubSeq(t, 1, top - 1)
  BY <1>1 DEF UnderTop
<1>4. IsForest(u) /\ Len(u) = top - 1
  BY <1>2, <1>3, CutsInTwo
<1>5. \A k \in 1 .. top - 1 : u[k] = t[k] /\ Beyond(u, k) = Beyond(t, k)
  BY <1>2, <1>3, CutsInTwo
<1>6. x \in 1 .. Len(u) /\ Beyond(u, x) = Len(u) + 1
  BY <1>4, TopIs
<1>7. x \in 1 .. Len(t) /\ IsCut(t, x)
  BY TopIsCut
<1>8. x \in 1 .. top - 1
  BY <1>4, <1>6
<1>9. u[x] = t[x] /\ Beyond(t, x) = Beyond(u, x)
  BY <1>5, <1>8
<1>10. Len(u) + 1 = top
  BY <1>2, <1>4
<1>11. QED
  BY <1>1, <1>6, <1>7, <1>9, <1>10

(* A token at the top is the last node.                                    *)
LEMMA TopToken ==
  ASSUME NEW t, IsForest(t), t # <<>>, Firm(t), t[Top(t)].sym \in {"id", "dot", "dots"}
  PROVE  Top(t) = Len(t) /\ Leaf(t[Len(t)])
<1>1. Top(t) \in DOMAIN t /\ Beyond(t, Top(t)) = Len(t) + 1 /\ Len(t) \in Nat /\ Top(t) \in Nat
  BY TopIs DEF IsForest
<1>2. Formed(t, Top(t))
  BY <1>1 DEF Firm
<1>3. Leaf(t[Top(t)])
  BY <1>2 DEF Formed
<1>4. Beyond(t, Top(t)) = Top(t) + 1
  BY <1>1, <1>3, NodeFacts
<1>5. QED
  BY <1>1, <1>3, <1>4

(* Two letters make a list of the text.                                    *)
LEMMA ListedMade ==
  ASSUME NEW text, IsText(text), NEW stack, NEW e, MadeTo(text, stack.nodes, e), stack.nodes # <<>>
  PROVE  MadeTo(text, Listed(stack).nodes, e) /\ Listed(stack).nodes # <<>>
<1>1. PICK t : t = stack.nodes
  OBVIOUS
<1>2. IsForest(t) /\ Firm(t) /\ t # <<>> /\ MadeTo(text, t, e)
  BY <1>1, MadeIs
<1>3. CASE ~(t[Top(t)].sym = "id" /\ InStatement(UnderTop(t)))
  BY <1>1, <1>2, <1>3 DEF Listed
<1>4. CASE t[Top(t)].sym = "id" /\ InStatement(UnderTop(t))
  <2>1. PICK u : u = UnderTop(t)
    OBVIOUS
  <2>2. PICK x : x = Top(u)
    OBVIOUS
  <2>3. u # <<>> /\ u[x].sym \in {"id", "list"}
    BY <1>4, <2>1, <2>2 DEF InStatement
  <2>4. x \in 1 .. Len(t) /\ IsCut(t, x) /\ u[x] = t[x] /\ Beyond(t, x) = Top(t)
    BY <1>2, <2>1, <2>2, <2>3, TopUnderTop
  <2>5. Top(t) = Len(t)
    BY <1>2, <1>4, TopToken
  <2>6. PICK n : n = Node("list", SubSeq(t, x, Len(t)))
    OBVIOUS
  <2>7. "list" \in Symbols /\ "list" \in {"list", "statement"}
    BY DEF Symbols
  <2>8. /\ n[1].sym = "list" /\ ~Leaf(n[1]) /\ n[1 + 1] = t[x]
        /\ Beyond(n, 1 + 1) = Beyond(n, 1) - 1 /\ n[Beyond(n, 1) - 1] = t[Len(t)]
    BY <1>2, <2>4, <2>5, <2>6, <2>7, ReducedNode
  <2>9. Formed(n, 1)
    BY <1>4, <2>3, <2>4, <2>5, <2>8 DEF Formed, Letters
  <2>10. /\ MadeTo(text, Reduce(stack, "list", x).nodes, e)
         /\ Reduce(stack, "list", x).nodes # <<>>
    BY <1>1, <1>2, <2>4, <2>6, <2>7, <2>9, ReduceMade
  <2>11. Listed(stack) = Reduce(stack, "list", x)
    BY <1>1, <1>4, <2>1, <2>2 DEF Listed
  <2>12. QED
    BY <2>10, <2>11
<1>5. QED
  BY <1>3, <1>4

(* A closed statement is one of the text.                                  *)
LEMMA ClosedMade ==
  ASSUME NEW text, IsText(text), NEW stack, NEW e, MadeTo(text, stack.nodes, e), stack.nodes # <<>>,
         NEW sym
  PROVE  MadeTo(text, Closed(stack, sym).nodes, e) /\ Closed(stack, sym).nodes # <<>>
<1>1. PICK t : t = stack.nodes
  OBVIOUS
<1>2. IsForest(t) /\ Firm(t) /\ t # <<>> /\ MadeTo(text, t, e)
  BY <1>1, MadeIs
<1>3. PICK top : top = Top(t)
  OBVIOUS
<1>4. top \in 1 .. Len(t) /\ IsCut(t, top) /\ Beyond(t, top) = Len(t) + 1
  BY <1>2, <1>3, TopIs, TopIsCut
<1>5. "statement" \in Symbols /\ "statement" \in {"list", "statement"}
  BY DEF Symbols
<1>6. CASE t[top].sym \in {"dot", "dots"} /\ InStatement(UnderTop(t))
  <2>1. PICK u : u = UnderTop(t)
    OBVIOUS
  <2>2. PICK x : x = Top(u)
    OBVIOUS
  <2>3. u # <<>> /\ u[x].sym \in {"id", "list"}
    BY <1>6, <2>1, <2>2 DEF InStatement
  <2>4. x \in 1 .. Len(t) /\ IsCut(t, x) /\ u[x] = t[x] /\ Beyond(t, x) = top
    BY <1>2, <1>3, <2>1, <2>2, <2>3, TopUnderTop
  <2>5. top = Len(t)
    BY <1>2, <1>3, <1>6, TopToken
  <2>6. PICK n : n = Node("statement", SubSeq(t, x, Len(t)))
    OBVIOUS
  <2>7. /\ n[1].sym = "statement" /\ ~Leaf(n[1]) /\ n[1 + 1] = t[x]
        /\ Beyond(n, 1 + 1) = Beyond(n, 1) - 1 /\ n[Beyond(n, 1) - 1] = t[Len(t)]
    BY <1>2, <1>5, <2>4, <2>5, <2>6, ReducedNode
  <2>8. Formed(n, 1)
    BY <1>6, <2>3, <2>4, <2>5, <2>7 DEF Formed, Letters
  <2>9. /\ MadeTo(text, Reduce(stack, "statement", x).nodes, e)
        /\ Reduce(stack, "statement", x).nodes # <<>>
    BY <1>1, <1>2, <1>5, <2>4, <2>6, <2>8, ReduceMade
  <2>10. Closed(stack, sym) = Reduce(stack, "statement", x)
    BY <1>1, <1>3, <1>6, <2>1, <2>2 DEF Closed
  <2>11. QED
    BY <2>9, <2>10
<1>7. ASSUME t[top].sym \in {"id", "list", "dot", "dots"}
      PROVE  /\ MadeTo(text, Reduce(stack, "statement", top).nodes, e)
             /\ Reduce(stack, "statement", top).nodes # <<>>
  <2>1. PICK n : n = Node("statement", SubSeq(t, top, Len(t)))
    OBVIOUS
  <2>2. /\ n[1].sym = "statement" /\ ~Leaf(n[1]) /\ n[1 + 1] = t[top]
        /\ Beyond(n, 1 + 1) = Beyond(n, 1)
    BY <1>2, <1>4, <1>5, <2>1, ReducedNode
  <2>3. Formed(n, 1)
    BY <1>7, <2>2 DEF Formed
  <2>4. QED
    BY <1>1, <1>2, <1>4, <1>5, <2>1, <2>3, ReduceMade
<1>8. CASE t[top].sym \in {"dot", "dots"} /\ ~InStatement(UnderTop(t))
  <2>1. Closed(stack, sym) = Reduce(stack, "statement", top)
    BY <1>1, <1>3, <1>8 DEF Closed
  <2>2. QED
    BY <1>7, <1>8, <2>1
<1>9. CASE /\ t[top].sym \in {"id", "list"} /\ ~InStatement(UnderTop(t)) /\ sym = "end"
  <2>1. Closed(stack, sym) = Reduce(stack, "statement", top)
    <3>1. ~(t[top].sym \in {"dot", "dots"})
      BY <1>9
    <3>2. QED
      BY <1>1, <1>3, <1>9, <3>1 DEF Closed
  <2>2. QED
    BY <1>7, <1>9, <2>1
<1>10. CASE /\ ~(t[top].sym \in {"dot", "dots"})
            /\ ~(t[top].sym \in {"id", "list"} /\ ~InStatement(UnderTop(t)) /\ sym = "end")
  <2>1. Closed(stack, sym) = stack
    BY <1>1, <1>3, <1>10 DEF Closed
  <2>2. QED
    BY <1>1, <1>2, <2>1
<1>11. QED
  BY <1>6, <1>8, <1>9, <1>10

(* The reductions due before a token keep what the parser has made.        *)
LEMMA ReducedMade ==
  ASSUME NEW text, IsText(text), NEW stack, NEW e, MadeTo(text, stack.nodes, e), NEW sym
  PROVE  MadeTo(text, Reduced(stack, sym).nodes, e)
<1>1. CASE stack.nodes = <<>>
  BY <1>1 DEF Reduced
<1>2. CASE stack.nodes # <<>>
  <2>1. MadeTo(text, Listed(stack).nodes, e) /\ Listed(stack).nodes # <<>>
    BY <1>2, ListedMade
  <2>2. PICK s : s = Listed(stack)
    OBVIOUS
  <2>3. MadeTo(text, Closed(s, sym).nodes, e)
    BY <2>1, <2>2, ClosedMade
  <2>4. Reduced(stack, sym) = Closed(s, sym)
    BY <1>2, <2>2 DEF Reduced
  <2>5. QED
    BY <2>3, <2>4
<1>3. QED
  BY <1>1, <1>2

(***************************************************************************)
(* The tree of a text while it is edited: what the parser may take of it   *)
(* is in the nodes that are not marked.                                    *)
(***************************************************************************)
\* The end of the text is the last node, and no other is of that kind.
Ends(t) ==
  /\ Len(t) >= 2 /\ Leaf(t[Len(t)]) /\ t[Len(t)].sym = "end"
  /\ \A i \in DOMAIN t : Formed(t, i)
  /\ \A i \in 2 .. Len(t) - 1 : Beyond(t, i) <= Len(t) /\ t[i].sym \notin {"end", "program"}

Intact(text, t, P, i) ==
  /\ Whole(text, 0, t, P, i)
  /\ \A j \in Below(t, i) : ~t[j].changed
  /\ i \in 2 .. Len(t) - 1 => Total(t[i]).b > 0

Fits(text, t) ==
  /\ IsSyntaxTree(t) /\ Ends(t)
  /\ Measured(t, Pos(t)) /\ Pos(t)[Len(t) + 1] = Len(text)
  /\ \A i \in DOMAIN t : ~t[i].changed => Intact(text, t, Pos(t), i)

SoundTree(text, t) == Fits(text, t) /\ \A i \in DOMAIN t : ~t[i].changed

(* A token of the text is a stack of one tree.                             *)
Single1(n) == [j \in 1 .. 2 |-> IF j = 1 THEN 0 ELSE Total(n).b]

IsToken(text, e, n, t, R) ==
  /\ IsText(text) /\ e \in Nat /\ e <= Len(text) /\ n = Lex(text, e)
  /\ t = <<n>> /\ R = Single1(n)

(* A token of the text is a sound stack of one tree.                       *)
LEMMA TokenSound ==
  ASSUME NEW text, NEW e, NEW n, NEW t, NEW R, IsToken(text, e, n, t, R)
  PROVE  /\ Sound(text, e, t, R) /\ Len(t) = 1 /\ t[1] = n /\ Leaf(n) /\ R[Len(t) + 1] = Total(n).b
         /\ n.sym # "end" => Firm(t)
         /\ n.sym = "end" => e + R[Len(t) + 1] = Len(text)
<1>1. IsText(text) /\ e \in Nat /\ e <= Len(text) /\ n = Lex(text, e)
  BY DEF IsToken
<1>a. t = <<n>> /\ R = Single1(n)
  BY DEF IsToken
<1>2. Len(text) \in Nat /\ Len(text) < Width /\ Width \in Nat
  BY <1>1, CharacterIs, WidthIsPositive DEF IsText
<1>3. e < Width
  BY <1>1, <1>2
<1>4. /\ n \in TreeNode /\ Leaf(n) /\ ~n.changed /\ n.sym \in {"id", "dot", "dots", "end"}
      /\ Total(n).b = n.pad.b + n.size.b /\ n.look >= 1
      /\ n.sym = "end" => e + Total(n).b = Len(text)
      /\ n.sym # "end" => n.size.b >= 1 /\ e + Total(n).b <= Len(text)
  BY <1>1, <1>3, LexMeasures
<1>5. IsForest(t) /\ IsTree(t)
  BY <1>4, <1>a, LeafIsTree
<1>6. Len(t) = 1 /\ t[1] = n /\ DOMAIN t = 1 .. 1
  BY <1>a
<1>7. Beyond(t, 1) = 2
  BY <1>4, <1>6 DEF Beyond, Leaf
<1>8. n.pad.b \in Nat /\ n.size.b \in Nat /\ Total(n).b \in Nat
  <2>1. n.pad \in Lengths /\ n.size \in Lengths
    BY <1>4 DEF TreeNode
  <2>2. n.pad.b \in Nat /\ n.size.b \in Nat
    BY <2>1 DEF Lengths
  <2>3. QED
    BY <1>4, <2>2
<1>9. R \in [1 .. Len(t) + 1 -> Nat] /\ R[1] = 0 /\ R[2] = Total(n).b
  BY <1>6, <1>8, <1>a DEF Single1
<1>10. Measured(t, R)
  <2>1. \A i \in DOMAIN t : R[Beyond(t, i)] = R[i] + Total(t[i]).b
    <3>1. R[2] = R[1] + Total(n).b
      BY <1>8, <1>9
    <3>2. QED
      BY <1>6, <1>7, <3>1
  <2>2. \A i \in DOMAIN t : ~Leaf(t[i]) => R[i + 1] = R[i]
    BY <1>4, <1>6
  <2>3. QED
    BY <1>5, <1>9, <2>1, <2>2 DEF Measured
<1>11. Whole(text, e, t, R, 1)
  <2>1. e + R[1] = e
    BY <1>1, <1>9
  <2>2. Below(t, 1) = {}
    BY <1>7 DEF Below
  <2>3. QED
    BY <1>1, <1>4, <1>6, <2>1, <2>2 DEF Whole
<1>12. Sound(text, e, t, R)
  <2>1. e + R[Len(t) + 1] <= Len(text)
    BY <1>1, <1>2, <1>4, <1>6, <1>9
  <2>2. QED
    BY <1>6, <1>10, <1>11, <2>1 DEF Sound
<1>13. ASSUME n.sym # "end"
       PROVE  Firm(t)
  <2>1. Total(n).b > 0
    BY <1>4, <1>8, <1>13
  <2>2. Formed(t, 1)
    BY <1>4, <1>6 DEF Formed
  <2>3. n.sym \notin {"end", "program"}
    BY <1>4, <1>13
  <2>4. QED
    BY <1>6, <2>1, <2>2, <2>3 DEF Firm
<1>14. R[Len(t) + 1] = Total(n).b
  BY <1>6, <1>9
<1>15. QED
  BY <1>4, <1>6, <1>12, <1>13, <1>14

(* What is pushed on a stack of the parser.                                *)
IsPush(text, t, e, u, R) == IsText(text) /\ MadeTo(text, t, e) /\ Sound(text, e, u, R) /\ Firm(u)

(* A sound tree pushed upon a stack made of the text before it.            *)
LEMMA PushMade ==
  ASSUME NEW text, NEW t, NEW e, NEW u, NEW R, IsPush(text, t, e, u, R)
  PROVE  MadeTo(text, t \o u, e + R[Len(u) + 1])
<1>1. IsText(text) /\ MadeTo(text, t, e) /\ Sound(text, e, u, R) /\ Firm(u)
  BY DEF IsPush
<1>2. PICK P : Sound(text, 0, t, P) /\ Firm(t) /\ P[Len(t) + 1] = e
  BY <1>1 DEF MadeTo
<1>3. PICK v : v = t \o u
  OBVIOUS
<1>4. PICK Q : Q = Joined(P, R, Len(t), Len(u))
  OBVIOUS
<1>5. e \in Nat
  BY <1>1, MadeIs
<1>6. PICK z \in Nat : z = 0
  OBVIOUS
<1>7. z + P[Len(t) + 1] = e
  BY <1>2, <1>5, <1>6
<1>8. IsJoin(text, z, t, P, u, R, v, Q)
  BY <1>1, <1>2, <1>3, <1>4, <1>6, <1>7 DEF IsJoin
<1>9. Sound(text, z, v, Q) /\ (Firm(t) /\ Firm(u) => Firm(v))
  BY <1>8, SoundJoined
<1>10. Q[Len(v) + 1] = P[Len(t) + 1] + R[Len(u) + 1]
  BY <1>8, SoundJoined
<1>11. MadeTo(text, v, e + R[Len(u) + 1])
  BY <1>1, <1>2, <1>6, <1>9, <1>10 DEF MadeTo
<1>12. QED
  BY <1>3, <1>11

(* A pending top broken down.                                              *)
LEMMA BreakDownMade ==
  ASSUME NEW text, IsText(text), NEW stack, NEW e, MadeTo(text, stack.nodes, e)
  PROVE  \E f : MadeTo(text, BreakDown(stack).nodes, f)
<1>1. PICK t : t = stack.nodes
  OBVIOUS
<1>2. CASE BreakDown(stack) = stack
  BY <1>2
<1>3. CASE BreakDown(stack) # stack
  <2>1. PICK top : top = Top(t)
    OBVIOUS
  <2>2. t # <<>> /\ BreakDown(stack).nodes = SubSeq(t, 1, top - 1) \o SubSeq(t, top + 1, Len(t))
    BY <1>1, <1>3, <2>1 DEF BreakDown
  <2>3. PICK P : Sound(text, 0, t, P) /\ Firm(t) /\ P[Len(t) + 1] = e
    BY <1>1 DEF MadeTo
  <2>4. /\ IsForest(t) /\ Len(t) \in Nat /\ DOMAIN t = 1 .. Len(t) /\ Measured(t, P)
        /\ P \in [1 .. Len(t) + 1 -> Nat]
    BY <2>3 DEF Sound, Measured, IsForest
  <2>5. top \in 1 .. Len(t) /\ IsCut(t, top) /\ Beyond(t, top) = Len(t) + 1
    BY <2>1, <2>2, <2>4, TopIs, TopIsCut
  <2>6. PICK u : u = SubSeq(t, 1, top - 1)
    OBVIOUS
  <2>7. PICK v : v = SubSeq(t, top + 1, Len(t))
    OBVIOUS
  <2>8. PICK R : R = Moved(P, 0, Len(u))
    OBVIOUS
  <2>9. Sound(text, 0, u, R) /\ Firm(u) /\ R[Len(u) + 1] = P[top] /\ IsForest(u)
    <3>1. PICK w : w = SubSeq(t, top, Len(t))
      OBVIOUS
    <3>2. PICK S : S = Moved(P, top - 1, Len(w))
      OBVIOUS
    <3>3. AreCut(text, t, P, top, u, R, w, S)
      BY <2>3, <2>5, <2>6, <2>8, <3>1, <3>2 DEF AreCut
    <3>4. QED
      BY <3>3, CutSound
  <2>10. MadeTo(text, u, P[top])
    BY <2>9 DEF MadeTo
  <2>11. v = Inner(t, top)
    <3>1. Beyond(t, top) - 1 = Len(t)
      BY <2>4, <2>5
    <3>2. QED
      BY <2>7, <3>1 DEF Inner
  <2>12. /\ IsForest(v) /\ Len(v) = Len(t) - top
         /\ \A k \in 1 .. Len(t) - top : v[k] = t[top + k]
    <3>1. Beyond(t, top) - 1 - top = Len(t) - top
      BY <2>4, <2>5
    <3>2. PICK i \in DOMAIN t : i = top
      BY <2>4, <2>5
    <3>3. IsForest(Inner(t, i))
      BY <2>4, InnerIs
    <3>4. Len(Inner(t, i)) = Beyond(t, i) - 1 - i
      BY <2>4, InnerIs
    <3>5. \A k \in 1 .. Beyond(t, i) - 1 - i : Inner(t, i)[k] = t[i + k]
      BY <2>4, InnerIs
    <3>6. QED
      BY <2>11, <3>1, <3>2, <3>3, <3>4, <3>5
  <2>13. CASE Leaf(t[top])
    <3>1. Beyond(t, top) = top + 1
      BY <2>4, <2>5, <2>13, NodeFacts
    <3>2. Len(v) = 0
      <4>1. PICK n \in Nat : n = Len(t)
        BY <2>4
      <4>2. top = n
        BY <2>5, <3>1, <4>1
      <4>3. QED
        BY <2>12, <4>1, <4>2
    <3>3. u \in Seq(TreeNode) /\ v = <<>>
      BY <2>9, <2>12, <3>2, EmptySeq DEF IsForest
    <3>4. u \o v = u
      BY <3>3
    <3>5. QED
      BY <2>2, <2>6, <2>7, <2>10, <3>4
  <2>14. CASE ~Leaf(t[top])
    <3>1. P[top + 1] = P[top]
      BY <2>4, <2>5, <2>14 DEF Measured
    <3>2. PICK S : S = Moved(P, top, Len(v))
      OBVIOUS
    <3>3. PICK z \in Nat : z = 0
      OBVIOUS
    <3>4. IsPartOf(text, z, t, P, v, S, top)
      <4>1. top \in Nat /\ top + Len(v) <= Len(t)
        BY <2>4, <2>5, <2>12
      <4>2. \A k \in 1 .. Len(v) : v[k] = t[top + k]
        BY <2>12
      <4>3. QED
        BY <2>3, <2>12, <3>2, <3>3, <4>1, <4>2 DEF IsPartOf
    <3>5. Sound(text, z + P[top + 1], v, S) /\ (Firm(t) => Firm(v))
      BY <3>4, SoundPart
    <3>6. z + P[top + 1] = P[top]
      BY <2>4, <2>5, <3>1, <3>3
    <3>7. IsPush(text, u, P[top], v, S)
      BY <2>3, <2>10, <3>5, <3>6 DEF IsPush
    <3>8. MadeTo(text, u \o v, P[top] + S[Len(v) + 1])
      BY <3>7, PushMade
    <3>9. QED
      BY <2>2, <2>6, <2>7, <3>8
  <2>15. QED
    BY <2>13, <2>14
<1>4. QED
  BY <1>2, <1>3

(* Breaking the top of the stack down leaves it made of the same text.     *)
LEMMA BrokenMade ==
  ASSUME NEW text, IsText(text), NEW stack \in Stacks, NEW e, MadeTo(text, stack.nodes, e)
  PROVE  \E f : MadeTo(text, ts_parser__breakdown_top_of_stack(stack).nodes, f)
<1>1. PICK n \in Nat : n = Len(stack.nodes)
  BY ForestsAre DEF Stacks, IsForest
<1> DEFINE M == {s \in Stacks : \E f : MadeTo(text, s.nodes, f)}
           A == [k \in 0 .. n |-> M]
<1>2. stack \in A[0]
  BY <1>1
<1>3. \A x \in M : BreakDown(x) \in M
  BY BreakDownIsStack, BreakDownMade
<1>4. \A k \in 1 .. n : \A x \in A[k - 1] : BreakDown(x) \in A[k]
  <2> HIDE DEF M
  <2> QED BY <1>1, <1>3
<1>5. PICK loop : /\ \A k \in 0 .. n : loop[k] \in A[k]
                  /\ ts_parser__breakdown_top_of_stack(stack) = loop[n]
  <2> HIDE DEF A
  <2>1. QED
    BY <1>1, <1>2, <1>4, BreakDownTurns
<1>6. n \in 0 .. n
  BY <1>1
<1>7. loop[n] \in M
  <2> HIDE DEF M
  <2> QED BY <1>5, <1>6
<1>8. QED
  BY <1>5, <1>7

(* The end of the text completes the tree.                                 *)
IsEnd(text, t, e, n) ==
  IsText(text) /\ MadeTo(text, t, e) /\ n = Lex(text, e) /\ n.sym = "end"

(* Above the nodes of a stack and the end of the text.                     *)
IsRootOf(text, t, P, n, v, Q, w, S) ==
  /\ IsText(text) /\ IsForest(t) /\ IsForest(v) /\ IsTree(w) /\ n \in TreeNode
  /\ Leaf(n) /\ n.sym = "end" /\ Firm(t)
  /\ Len(v) = Len(t) + 1 /\ v[Len(v)] = n
  /\ IsPart(v, Q, t, P, 0) /\ IsPart(w, S, v, Q, 1)
  /\ Len(w) = Len(v) + 1 /\ w[1].sym = "program" /\ ~Leaf(w[1])

(* The accepted tree has the end of the text as its last node.             *)
LEMMA RootEnds ==
  ASSUME NEW text, NEW t, NEW P, NEW n, NEW v, NEW Q, NEW w, NEW S, IsRootOf(text, t, P, n, v, Q, w, S)
  PROVE  Ends(w) /\ \A i \in 2 .. Len(w) - 1 : Total(w[i]).b > 0
<1>0. /\ IsText(text) /\ IsForest(t) /\ IsForest(v) /\ IsTree(w) /\ n \in TreeNode
      /\ Leaf(n) /\ n.sym = "end" /\ Firm(t)
      /\ Len(v) = Len(t) + 1 /\ v[Len(v)] = n
      /\ IsPart(v, Q, t, P, 0) /\ IsPart(w, S, v, Q, 1)
      /\ Len(w) = Len(v) + 1 /\ w[1].sym = "program" /\ ~Leaf(w[1])
  BY DEF IsRootOf
<1> USE <1>0
<1>1. PICK N \in Nat : N = Len(t)
  BY DEF IsForest
<1>2. Len(v) = N + 1 /\ Len(w) = N + 2 /\ DOMAIN t = 1 .. N /\ DOMAIN v = 1 .. N + 1
      /\ DOMAIN w = 1 .. N + 2
  BY <1>1 DEF IsForest, IsTree
<1>a. PICK z \in Nat, o \in Nat : z = 0 /\ o = 1
  OBVIOUS
<1>b. IsPart(v, Q, t, P, z) /\ IsPart(w, S, v, Q, o)
  BY <1>a
<1>c. \A k \in 1 .. Len(t) : /\ z + k \in DOMAIN v /\ t[k] = v[z + k]
                             /\ Beyond(v, z + k) = z + Beyond(t, k)
                             /\ Beyond(t, k) \in k + 1 .. Len(t) + 1
  BY <1>b, PartFacts
<1>d. \A k \in 1 .. Len(v) : /\ o + k \in DOMAIN w /\ v[k] = w[o + k]
                             /\ Beyond(w, o + k) = o + Beyond(v, k)
                             /\ Beyond(v, k) \in k + 1 .. Len(v) + 1
  BY <1>b, PartFacts
<1>3. ASSUME NEW i \in 2 .. N + 1
      PROVE  /\ Beyond(w, i) <= N + 2 /\ w[i] = t[i - 1]
             /\ Total(w[i]).b > 0 /\ w[i].sym \notin {"end", "program"}
             /\ Formed(w, i)
  <2>1. PICK k \in 1 .. N : k = i - 1 /\ 1 + k = i /\ 0 + k = k
    OBVIOUS
  <2>2. k \in 1 .. Len(t) /\ k \in 1 .. Len(v) /\ k \in DOMAIN t
    BY <1>1, <1>2
  <2>3. v[k] = t[k] /\ Beyond(v, k) = 0 + Beyond(t, k) /\ Beyond(t, k) \in k + 1 .. N + 1
    <3>1. z + k = k /\ 0 + Beyond(t, k) = z + Beyond(t, k)
      BY <1>a
    <3>2. QED
      BY <1>1, <1>c, <2>2, <3>1
  <2>4. w[1 + k] = v[k] /\ Beyond(w, 1 + k) = 1 + Beyond(v, k)
    BY <1>a, <1>d, <2>2
  <2>5. Total(t[k]).b > 0 /\ t[k].sym \notin {"end", "program"} /\ Formed(t, k)
    BY <2>2 DEF Firm
  <2>6. Formed(v, 0 + k) <=> Formed(t, k)
    BY <2>2, FormedOfPart
  <2>7. Formed(w, 1 + k) <=> Formed(v, k)
    BY <2>2, FormedOfPart
  <2>8. Formed(w, i)
    BY <2>1, <2>5, <2>6, <2>7
  <2>9. Beyond(w, i) <= N + 2
    BY <2>1, <2>3, <2>4
  <2>10. QED
    BY <2>1, <2>3, <2>4, <2>5, <2>8, <2>9
<1>4. w[N + 2] = n
  <2>1. N + 1 \in 1 .. Len(v) /\ 1 + (N + 1) = N + 2
    BY <1>2
  <2>2. w[1 + (N + 1)] = v[N + 1]
    BY <1>a, <1>d, <2>1
  <2>3. QED
    BY <1>2, <2>1, <2>2
<1>5. Formed(w, N + 2) /\ Formed(w, 1)
  <2>1. Formed(w, N + 2)
    BY <1>4 DEF Formed
  <2>2. Formed(w, 1)
    BY DEF Formed
  <2>3. QED
    BY <2>1, <2>2
<1>6. ASSUME NEW i \in DOMAIN w
      PROVE  Formed(w, i)
  <2>1. i = 1 \/ i = N + 2 \/ i \in 2 .. N + 1
    BY <1>2
  <2>2. QED
    BY <1>3, <1>5, <2>1
<1>7. Ends(w)
  <2>1. Len(w) >= 2 /\ Leaf(w[Len(w)]) /\ w[Len(w)].sym = "end"
    BY <1>2, <1>4
  <2>2. ASSUME NEW i \in 2 .. Len(w) - 1
        PROVE  Beyond(w, i) <= Len(w) /\ w[i].sym \notin {"end", "program"}
    <3>1. i \in 2 .. N + 1
      BY <1>2
    <3>2. QED
      BY <1>2, <1>3, <3>1
  <2>3. QED
    BY <1>6, <2>1, <2>2 DEF Ends
<1>8. \A i \in 2 .. Len(w) - 1 : Total(w[i]).b > 0
  BY <1>2, <1>3
<1>9. QED
  BY <1>7, <1>8

(* The tree that is accepted at the end of the text is sound.              *)
LEMMA AcceptSound ==
  ASSUME NEW text, NEW t, NEW e, NEW n, IsEnd(text, t, e, n)
  PROVE  SoundTree(text, Node("program", t \o <<n>>))
<1>1. IsText(text) /\ MadeTo(text, t, e) /\ n = Lex(text, e) /\ n.sym = "end"
  BY DEF IsEnd
<1>2. PICK P : Sound(text, 0, t, P) /\ Firm(t) /\ P[Len(t) + 1] = e
  BY <1>1 DEF MadeTo
<1>3. e \in Nat /\ e <= Len(text) /\ IsForest(t)
  BY <1>1, MadeIs
<1>5. PICK u : u = <<n>>
  OBVIOUS
<1>6. PICK R : R = Single1(n)
  OBVIOUS
<1>4. IsToken(text, e, n, u, R)
  BY <1>1, <1>3, <1>5, <1>6 DEF IsToken
<1>7. /\ Sound(text, e, u, R) /\ Len(u) = 1 /\ u[1] = n /\ Leaf(n)
      /\ e + R[Len(u) + 1] = Len(text)
  <2>1. /\ Sound(text, e, u, R) /\ Len(u) = 1 /\ u[1] = n /\ Leaf(n)
        /\ n.sym = "end" => e + R[Len(u) + 1] = Len(text)
    BY <1>4, TokenSound
  <2>2. QED
    BY <1>1, <2>1
<1>8. PICK z \in Nat : z = 0
  OBVIOUS
<1>9. PICK v : v = t \o u
  OBVIOUS
<1>10. PICK Q : Q = Joined(P, R, Len(t), Len(u))
  OBVIOUS
<1>11. z + P[Len(t) + 1] = e
  BY <1>2, <1>3, <1>8
<1>12. IsJoin(text, z, t, P, u, R, v, Q)
  BY <1>1, <1>2, <1>7, <1>8, <1>9, <1>10, <1>11 DEF IsJoin
<1>13. Sound(text, z, v, Q) /\ Q[Len(v) + 1] = P[Len(t) + 1] + R[Len(u) + 1] /\ Len(v) = Len(t) + Len(u)
  BY <1>12, SoundJoined
<1>14. Measured(t, P) /\ Measured(u, R) /\ Measured(v, Q)
  BY <1>2, <1>7, <1>13 DEF Sound
<1>15. IsPart(v, Q, t, P, 0) /\ IsPart(v, Q, u, R, Len(t))
  BY <1>9, <1>10, <1>14, JoinedIs
<1>16. IsForest(v) /\ IsForest(u) /\ Len(t) \in Nat
  BY <1>3, <1>14 DEF Measured, IsForest
<1>17. v[Len(v)] = n /\ Len(v) = Len(t) + 1 /\ v # <<>>
  <2>1. v[Len(t) + 1] = u[1]
    BY <1>7, <1>15 DEF IsPart
  <2>2. QED
    BY <1>7, <1>13, <1>16, <2>1
<1>18. PICK w : w = Node("program", v)
  OBVIOUS
<1>19. PICK S : S = Under(Q, Len(v))
  OBVIOUS
<1>20. IsNode(text, z, v, Q, "program", w, S)
  BY <1>1, <1>8, <1>13, <1>17, <1>18, <1>19 DEF IsNode, Symbols
<1>21. /\ Sound(text, z, w, S) /\ IsTree(w) /\ Len(w) = Len(v) + 1
       /\ w[1].sym = "program" /\ ~Leaf(w[1]) /\ ~w[1].changed
       /\ S[Len(w) + 1] = Q[Len(v) + 1]
       /\ IsPart(w, S, v, Q, 1)
  BY <1>20, SoundNode
<1>22. n \in TreeNode
  BY <1>7, <1>16, <1>17, NodeFacts
<1>23. IsRootOf(text, t, P, n, v, Q, w, S)
  BY <1>1, <1>2, <1>3, <1>7, <1>15, <1>16, <1>17, <1>21, <1>22 DEF IsRootOf
<1>24. Ends(w) /\ \A i \in 2 .. Len(w) - 1 : Total(w[i]).b > 0
  BY <1>23, RootEnds
<1>25. S[Len(w) + 1] = Len(text) /\ Measured(w, S)
  BY <1>2, <1>7, <1>13, <1>21 DEF Sound
<1>26. Pos(w) = S
  <2>1. Len(text) < Width
    BY <1>1 DEF IsText
  <2>2. S[Len(w) + 1] < Width
    BY <1>25, <2>1
  <2>3. QED
    BY <1>25, <2>2, MeasureIs
<1>27. \A i \in DOMAIN w : Whole(text, 0, w, S, i)
  BY <1>8, <1>21 DEF Sound
<1>28. \A i \in DOMAIN w : ~w[i].changed
  BY <1>27 DEF Whole
<1>29. ASSUME NEW i \in DOMAIN w
       PROVE  Intact(text, w, S, i)
  <2>1. \A j \in Below(w, i) : j \in DOMAIN w
    BY <1>21, NodeFacts DEF IsTree
  <2>2. QED
    BY <1>24, <1>27, <1>28, <2>1 DEF Intact
<1>30. Fits(text, w)
  BY <1>21, <1>24, <1>25, <1>26, <1>29 DEF Fits, IsSyntaxTree
<1>31. w = Node("program", t \o <<n>>)
  BY <1>5, <1>9, <1>18
<1>32. QED
  BY <1>28, <1>30, <1>31 DEF SoundTree

(***************************************************************************)
(* The parser goes over an edited tree that fits its text.                 *)
(***************************************************************************)
LEMMA FitsIs ==
  ASSUME NEW text, IsText(text), NEW t, Fits(text, t), NEW P, P = Pos(t)
  PROVE  /\ IsForest(t) /\ Len(t) \in Nat /\ Len(t) >= 2 /\ DOMAIN t = 1 .. Len(t)
         /\ Measured(t, P) /\ P \in [1 .. Len(t) + 1 -> Nat] /\ P[Len(t) + 1] = Len(text)
         /\ Len(text) \in Nat /\ Len(text) < Width /\ Width \in Nat
         /\ \A k \in 1 .. Len(t) + 1 : P[k] \in Nat /\ P[k] <= Len(text)
<1>1. Measured(t, P) /\ P[Len(t) + 1] = Len(text) /\ Len(t) >= 2
  BY DEF Fits, Ends
<1>2. IsForest(t) /\ P \in [1 .. Len(t) + 1 -> Nat] /\ Len(t) \in Nat /\ DOMAIN t = 1 .. Len(t)
  BY <1>1 DEF Measured, IsForest
<1>3. Len(text) \in Nat /\ Len(text) < Width /\ Width \in Nat
  BY WidthIsPositive DEF IsText
<1>4. ASSUME NEW k \in 1 .. Len(t) + 1
      PROVE  P[k] \in Nat /\ P[k] <= Len(text)
  <2>1. PICK l \in 1 .. Len(t) + 1 : l = Len(t) + 1
    BY <1>2
  <2>2. k <= l
    BY <1>2, <2>1
  <2>3. P[k] <= P[l]
    BY <1>1, <2>2, MeasureGrows
  <2>4. QED
    BY <1>1, <1>2, <2>1, <2>3
<1>5. QED
  BY <1>1, <1>2, <1>3, <1>4

(* The walk over the old tree knows where it is.                           *)
Placed(t, w) == w.at = Pos(t)[w.i]

(* The walk over the old tree knows where the next node begins.            *)
LEMMA AdvancePlaced ==
  ASSUME NEW text, IsText(text), NEW t, Fits(text, t), NEW w, w.i \in DOMAIN t, Placed(t, w)
  PROVE  Placed(t, reusable_node_advance(t, w))
<1>1. PICK P : P = Pos(t)
  OBVIOUS
<1>2. PICK i \in DOMAIN t : i = w.i
  OBVIOUS
<1>3. /\ IsForest(t) /\ Measured(t, P) /\ P \in [1 .. Len(t) + 1 -> Nat]
      /\ Len(text) \in Nat /\ Len(text) < Width /\ Width \in Nat
      /\ \A k \in 1 .. Len(t) + 1 : P[k] \in Nat /\ P[k] <= Len(text)
  BY <1>1, FitsIs
<1>4. Beyond(t, i) \in 1 .. Len(t) + 1 /\ Total(t[i]) \in Lengths /\ i \in 1 .. Len(t) + 1
  BY <1>3, NodeFacts
<1>5. PICK x \in Nat : x = P[i]
  BY <1>3, <1>4
<1>6. PICK y \in Nat : y = Total(t[i]).b /\ y \in Positions
  BY <1>4, WidthIsPositive DEF Lengths, Positions
<1>7. P[Beyond(t, i)] = x + y
  BY <1>2, <1>3, <1>5, <1>6 DEF Measured
<1>8. x + y < Width
  <2>1. P[Beyond(t, i)] <= Len(text)
    BY <1>3, <1>4
  <2>2. QED
    BY <1>3, <1>7, <2>1
<1>9. x \in Positions
  BY <1>3, <1>5, <1>6, <1>8 DEF Positions
<1>10. (x + y) % Width = x + y
  BY <1>6, <1>8, <1>9, PlusFacts
<1>11. /\ reusable_node_advance(t, w).i = Beyond(t, i)
       /\ reusable_node_advance(t, w).at = (x + y) % Width
  BY <1>1, <1>2, <1>5, <1>6 DEF reusable_node_advance, Placed
<1>12. QED
  BY <1>1, <1>7, <1>10, <1>11 DEF Placed

(* The first child begins where its parent does.                           *)
LEMMA DescendPlaced ==
  ASSUME NEW text, IsText(text), NEW t, Fits(text, t), NEW w, w.i \in DOMAIN t, Placed(t, w),
         DOMAIN w = {"i", "at"}, ~Leaf(t[w.i])
  PROVE  Placed(t, reusable_node_descend(w))
<1>1. PICK i \in DOMAIN t : i = w.i
  OBVIOUS
<1>2. Measured(t, Pos(t))
  BY DEF Fits
<1>3. Pos(t)[i + 1] = Pos(t)[i]
  BY <1>1, <1>2 DEF Measured
<1>4. reusable_node_descend(w).i = i + 1 /\ reusable_node_descend(w).at = w.at
  BY <1>1 DEF reusable_node_descend
<1>5. QED
  BY <1>1, <1>3, <1>4 DEF Placed

(* The first leaf of a node begins where the node begins.                  *)
LEMMA FirstLeafBelow ==
  ASSUME NEW t, NEW P, Measured(t, P), NEW i \in DOMAIN t, NEW f, f = FirstLeaf(t, i)
  PROVE  /\ f \in DOMAIN t /\ Leaf(t[f]) /\ (f = i \/ f \in Below(t, i))
         /\ P[f] = P[i]
<1>1. IsForest(t) /\ Len(t) \in Nat /\ DOMAIN t = 1 .. Len(t)
  BY DEF Measured, IsForest
<1>2. /\ f \in i .. Len(t) /\ f \in DOMAIN t /\ Leaf(t[f])
      /\ \A j \in i .. f - 1 : ~Leaf(t[j])
  BY <1>1, FirstLeafIs
<1>3. PICK e \in i + 1 .. Len(t) + 1 : e = Beyond(t, i)
  BY <1>1, NodeFacts
<1>4. f < e
  <2> SUFFICES ASSUME e <= f
               PROVE  FALSE
    BY <1>1, <1>2, <1>3
  <2>1. PICK m \in DOMAIN t : m = e - 1 /\ m \in i .. f - 1
    BY <1>1, <1>2, <1>3
  <2>2. ~Leaf(t[m])
    BY <1>2, <2>1
  <2>3. Beyond(t, m) > e
    <3>1. Beyond(t, m) \in m + 1 .. Len(t) + 1 /\ Beyond(t, m) # m + 1
      BY <1>1, <2>2, NodeFacts
    <3>2. QED
      BY <1>1, <1>3, <2>1, <3>1
  <2>4. m # i
    BY <1>3, <2>1, <2>3
  <2>5. m \in Below(t, i)
    BY <1>1, <1>3, <2>1, <2>4, NodeFacts
  <2>6. Beyond(t, m) <= Beyond(t, i)
    BY <1>1, <2>5 DEF IsForest
  <2>7. Beyond(t, m) \in Int
    BY <1>1, NodeFacts
  <2>8. QED
    BY <1>3, <2>3, <2>6, <2>7
<1>5. f = i \/ f \in Below(t, i)
  BY <1>1, <1>2, <1>3, <1>4, NodeFacts
<1> DEFINE S == {k \in Nat : k <= f - i => P[i + k] = P[i]}
<1>6. 0 \in S
  BY <1>1
<1>7. \A k \in Nat : k \in S => k + 1 \in S
  <2> SUFFICES ASSUME NEW k \in Nat, k \in S, k + 1 <= f - i
               PROVE  P[i + (k + 1)] = P[i]
    OBVIOUS
  <2>1. PICK j \in DOMAIN t : j = i + k /\ j \in i .. f - 1 /\ j + 1 = i + (k + 1)
    <3>1. PICK n \in Nat : n = Len(t)
      BY <1>1
    <3>2. i \in 1 .. n /\ f \in i .. n /\ DOMAIN t = 1 .. n
      BY <1>1, <1>2, <3>1
    <3>3. i + k \in 1 .. n /\ i + k \in i .. f - 1 /\ (i + k) + 1 = i + (k + 1)
      BY <3>2
    <3>4. QED
      BY <3>2, <3>3
  <2>2. P[j + 1] = P[j]
    BY <1>2, <2>1 DEF Measured
  <2>3. P[j] = P[i]
    BY <1>1, <1>2, <2>1
  <2>4. QED
    BY <2>1, <2>2, <2>3
<1>8. Nat \subseteq S
  <2> HIDE DEF S
  <2> QED BY <1>6, <1>7, Inductive
<1>9. f - i \in Nat /\ i + (f - i) = f
  <2>1. i \in Nat /\ f \in Nat /\ i <= f
    <3>1. PICK n \in Nat : n = Len(t)
      BY <1>1
    <3>2. i \in 1 .. n /\ f \in i .. n
      BY <1>1, <1>2, <3>1
    <3>3. QED
      BY <3>2
  <2>2. QED
    BY <2>1
<1>10. P[f] = P[i]
  BY <1>8, <1>9
<1>11. QED
  BY <1>2, <1>5, <1>10

(* A node that is not marked is a sound tree at its place.                 *)
IsReuse(text, t, P, i, u, R) ==
  /\ IsText(text) /\ Fits(text, t) /\ P = Pos(t)
  /\ i \in 2 .. Len(t) - 1 /\ ~t[i].changed
  /\ u = Subtree(t, i) /\ R = Moved(P, i - 1, Len(u))

(* A node of the old tree that is not marked is made of the text, wherever *)
(* it is put.                                                              *)
LEMMA ReuseSound ==
  ASSUME NEW text, NEW t, NEW P, NEW i, NEW u, NEW R, IsReuse(text, t, P, i, u, R)
  PROVE  Sound(text, P[i], u, R) /\ Firm(u)
<1>0. /\ IsText(text) /\ Fits(text, t) /\ P = Pos(t)
      /\ i \in 2 .. Len(t) - 1 /\ ~t[i].changed
      /\ u = Subtree(t, i) /\ R = Moved(P, i - 1, Len(u))
  BY DEF IsReuse
<1>1. /\ IsForest(t) /\ Len(t) \in Nat /\ DOMAIN t = 1 .. Len(t)
      /\ Measured(t, P) /\ P \in [1 .. Len(t) + 1 -> Nat]
      /\ Len(text) \in Nat
      /\ \A k \in 1 .. Len(t) + 1 : P[k] \in Nat /\ P[k] <= Len(text)
  BY <1>0, FitsIs
<1>2. PICK N \in Nat : N = Len(t)
  BY <1>1
<1>3. PICK a \in Nat : a = i - 1 /\ i = a + 1
  BY <1>0
<1>4. PICK m \in Nat \ {0} : m = t[i].node_count
  BY <1>0, <1>1, NodeFacts
<1>5. /\ IsForest(u) /\ Len(u) = m
      /\ \A k \in 1 .. m : u[k] = t[i + k - 1]
  BY <1>0, <1>1, <1>4, SubtreeIsTree, SMTT(60)
<1>6. \A k \in 1 .. Len(u) : u[k] = t[a + k]
  <2> TAKE k \in 1 .. Len(u)
  <2>1. i + k - 1 = a + k
    BY <1>3, <1>5
  <2>2. QED
    BY <1>5, <2>1
<1>7. Beyond(t, i) = a + m + 1 /\ Beyond(t, i) <= N
  <2>1. Beyond(t, i) <= N
    BY <1>0, <1>2 DEF Fits, Ends
  <2>2. Beyond(t, i) = i + m
    BY <1>4 DEF Beyond
  <2>3. QED
    BY <1>3, <1>4, <2>1, <2>2
<1>8. Measured(u, R) /\ IsPart(t, P, u, R, a)
  <2>1. a + Len(u) <= Len(t)
    BY <1>2, <1>3, <1>4, <1>5, <1>7
  <2>2. R = Moved(P, a, Len(u))
    BY <1>0, <1>3
  <2>3. QED
    BY <1>1, <1>3, <1>5, <1>6, <2>1, <2>2, PartMeasured
<1>9. ASSUME NEW k \in 1 .. Len(u)
      PROVE  /\ Whole(text, P[i], u, R, k) /\ Total(u[k]).b > 0
             /\ u[k].sym \notin {"end", "program"} /\ Formed(u, k)
  <2>1. PICK j \in 2 .. N - 1 : j = a + k
    BY <1>0, <1>2, <1>3, <1>5, <1>7
  <2>2. j \in DOMAIN t /\ j \in 2 .. Len(t) - 1
    BY <1>1, <1>2
  <2>3. ~t[j].changed
    <3>1. CASE k = 1
      BY <1>0, <1>3, <2>1, <3>1
    <3>2. CASE k # 1
      <4>1. j \in Below(t, i)
        BY <1>3, <1>5, <1>7, <2>1, <3>2 DEF Below
      <4>2. Intact(text, t, P, i)
        BY <1>0, <1>1 DEF Fits
      <4>3. QED
        BY <4>1, <4>2 DEF Intact
    <3>3. QED
      BY <3>1, <3>2
  <2>4. Intact(text, t, P, j)
    BY <1>0, <2>2, <2>3 DEF Fits
  <2>5. Whole(text, 0, t, P, j) /\ Total(t[j]).b > 0
    BY <2>2, <2>4 DEF Intact
  <2>6. t[j].sym \notin {"end", "program"} /\ Formed(t, j)
    BY <1>0, <2>2 DEF Fits, Ends
  <2>7. u[k] = t[j]
    BY <1>6, <2>1
  <2>8. Formed(u, k)
    <3>1. Formed(u, k) <=> Formed(t, a + k)
      BY <1>8, FormedOfPart
    <3>2. QED
      BY <2>1, <2>6, <3>1
  <2>9. Whole(text, P[i], u, R, k)
    <3>1. PICK z \in Nat : z = 0
      OBVIOUS
    <3>2. Whole(text, z + P[a + 1], u, R, k) <=> Whole(text, z, t, P, a + k)
      BY <1>8, WholeOfPart
    <3>3. z + P[a + 1] = P[i]
      BY <1>0, <1>1, <1>3, <3>1
    <3>4. QED
      BY <2>1, <2>5, <3>1, <3>2, <3>3
  <2>10. QED
    BY <2>5, <2>6, <2>7, <2>8, <2>9
<1>10. P[i] + R[Len(u) + 1] <= Len(text)
  <2>1. PICK l \in 1 .. Len(u) + 1 : l = Len(u) + 1
    BY <1>5
  <2>2. P[a + l] = P[a + 1] + R[l]
    BY <1>8 DEF IsPart
  <2>3. a + l \in 1 .. Len(t) + 1
    BY <1>2, <1>3, <1>5, <1>7, <2>1
  <2>4. P[a + l] <= Len(text)
    BY <1>1, <2>3
  <2>5. QED
    BY <1>3, <2>1, <2>2, <2>4
<1>11. DOMAIN u = 1 .. Len(u)
  BY <1>5 DEF IsForest
<1>12. QED
  BY <1>8, <1>9, <1>10, <1>11 DEF Sound, Firm

(***************************************************************************)
(* The parser's invariant.                                                 *)
(***************************************************************************)
Usable(text, old) == IsText(text) /\ IsTree(old) /\ (Len(old) > 1 => Fits(text, old))

Parsing(text, old) ==
  {p \in Parsers(Len(old)) :
     /\ \E e : MadeTo(text, p.stack.nodes, e)
     /\ Len(old) > 1 => Placed(old, p.reusable)
     /\ p.root # <<>> => SoundTree(text, p.root)}

(* An empty stack is made of what is before the text.                      *)
LEMMA EmptyIsMade ==
  ASSUME NEW text, IsText(text)
  PROVE  MadeTo(text, <<>>, 0)
<1>1. PICK t : t = <<>>
  OBVIOUS
<1>2. PICK P : P = [j \in 1 .. 1 |-> 0]
  OBVIOUS
<1>3. IsForest(t) /\ Len(t) = 0 /\ DOMAIN t = {}
  <2>1. Len(t) = 0 /\ DOMAIN t = {}
    BY <1>1
  <2>2. IsForest(t)
    BY <1>1, ForestsAre
  <2>3. QED
    BY <2>1, <2>2
<1>4. P \in [1 .. 0 + 1 -> Nat] /\ P[1] = 0 /\ P[0 + 1] = 0
  BY <1>2
<1>5. Measured(t, P)
  BY <1>3, <1>4 DEF Measured
<1>6. Len(text) \in Nat
  BY DEF IsText
<1>7. 0 + P[Len(t) + 1] <= Len(text)
  BY <1>3, <1>4, <1>6
<1>8. Sound(text, 0, t, P)
  BY <1>3, <1>5, <1>7 DEF Sound
<1>9. Firm(t)
  BY <1>3 DEF Firm
<1>10. P[Len(t) + 1] = 0
  BY <1>3, <1>4
<1>11. MadeTo(text, t, 0)
  BY <1>8, <1>9, <1>10 DEF MadeTo
<1>12. QED
  BY <1>1, <1>11

(* A token of the text is shifted, or it is the end.                       *)
LEMMA ShiftTokenMade ==
  ASSUME NEW text, IsText(text), NEW p, NEW n \in Nat, p \in Parsers(n), p.root = <<>>,
         NEW e, MadeTo(text, p.stack.nodes, e), NEW q, q = ShiftToken(p, Lex(text, e))
  PROVE  /\ \E f : MadeTo(text, q.stack.nodes, f)
         /\ q.reusable = p.reusable
         /\ q.root # <<>> => SoundTree(text, q.root)
<1>1. PICK token : token = Lex(text, e)
  OBVIOUS
<1>2. PICK ready : ready = Reduced(p.stack, token.sym)
  OBVIOUS
<1>3. MadeTo(text, ready.nodes, e)
  BY <1>2, ReducedMade
<1>4. p = [reusable |-> p.reusable, stack |-> p.stack, root |-> p.root]
  BY DEF Parsers
<1>5. CASE token.sym = "end"
  <2>1. q = [p EXCEPT !.root = Accept(ready, <<token>>)]
    BY <1>1, <1>2, <1>5 DEF ShiftToken
  <2>2. q.stack = p.stack /\ q.reusable = p.reusable /\ q.root = Accept(ready, <<token>>)
    BY <1>4, <2>1
  <2>3. IsEnd(text, ready.nodes, e, token)
    BY <1>1, <1>3, <1>5 DEF IsEnd
  <2>4. SoundTree(text, q.root)
    BY <2>2, <2>3, AcceptSound DEF Accept
  <2>5. QED
    BY <2>2, <2>4
<1>6. CASE token.sym # "end"
  <2>1. q = [p EXCEPT !.stack = ts_stack_push(ready, <<token>>, FALSE)]
    BY <1>1, <1>2, <1>6 DEF ShiftToken
  <2>2. /\ q.stack = ts_stack_push(ready, <<token>>, FALSE)
        /\ q.reusable = p.reusable /\ q.root = p.root
    BY <1>4, <2>1
  <2>3. q.stack.nodes = ready.nodes \o <<token>>
    BY <2>2 DEF ts_stack_push
  <2>4. PICK u : u = <<token>>
    OBVIOUS
  <2>5. PICK R : R = Single1(token)
    OBVIOUS
  <2>6. e \in Nat /\ e <= Len(text)
    BY <1>3, MadeIs
  <2>7. IsToken(text, e, token, u, R)
    BY <1>1, <2>4, <2>5, <2>6 DEF IsToken
  <2>8. Sound(text, e, u, R) /\ (token.sym # "end" => Firm(u))
    BY <2>7, TokenSound
  <2>9. IsPush(text, ready.nodes, e, u, R)
    BY <1>3, <1>6, <2>8 DEF IsPush
  <2>10. MadeTo(text, ready.nodes \o u, e + R[Len(u) + 1])
    BY <2>9, PushMade
  <2>11. QED
    BY <2>2, <2>3, <2>4, <2>10
<1>7. QED
  BY <1>5, <1>6

(* A node of the old tree is shifted, or it is the end.                    *)
LEMMA ShiftReusedMade ==
  ASSUME NEW text, IsText(text), NEW old, IsTree(old), Fits(text, old),
         NEW p \in Parsers(Len(old)), p.root = <<>>, p.reusable.i <= Len(old),
         Placed(old, p.reusable), ~old[p.reusable.i].changed,
         MadeTo(text, p.stack.nodes, p.reusable.at), NEW q, q = ShiftReused(p, old)
  PROVE  /\ \E f : MadeTo(text, q.stack.nodes, f)
         /\ Placed(old, q.reusable)
         /\ q.root # <<>> => SoundTree(text, q.root)
<1>1. PICK N \in Nat : N = Len(old) /\ N >= 2 /\ DOMAIN old = 1 .. N
  BY FitsIs
<1>2. PICK P : P = Pos(old)
  OBVIOUS
<1>3. IsForest(old) /\ Measured(old, P)
  BY <1>2, FitsIs
<1>4. PICK w : w = p.reusable
  OBVIOUS
<1>5. PICK i \in 2 .. N : i = w.i
  <2>1. w.i \in 2 .. N + 1 /\ w.i <= N
    BY <1>1, <1>4 DEF Parsers, Walks
  <2>2. QED
    BY <1>1, <2>1
<1>6. PICK e : e = w.at /\ e = P[i]
  BY <1>2, <1>4, <1>5 DEF Placed
<1>7. p = [reusable |-> w, stack |-> p.stack, root |-> <<>>] /\ w = [i |-> w.i, at |-> w.at]
  BY <1>4 DEF Parsers, Walks
<1>8. i \in DOMAIN old /\ ~old[i].changed
  BY <1>1, <1>4, <1>5
<1>9. PICK l : l = FirstLeaf(old, i)
  OBVIOUS
<1>10. l \in DOMAIN old /\ Leaf(old[l]) /\ (l = i \/ l \in Below(old, i)) /\ P[l] = P[i]
  BY <1>3, <1>8, <1>9, FirstLeafBelow
<1>11. PICK ready : ready = Reduced(p.stack, old[l].sym)
  OBVIOUS
<1>12. MadeTo(text, ready.nodes, e)
  BY <1>4, <1>6, <1>11, ReducedMade
<1>13. PICK broken : broken = ts_parser__breakdown_lookahead(old, w, InStatement(ready.nodes))
  OBVIOUS
<1>14. broken.at = e /\ (broken.i = i \/ broken.i = l)
  BY <1>5, <1>6, <1>7, <1>9, <1>13 DEF ts_parser__breakdown_lookahead
<1>15. PICK b \in 2 .. N : b = broken.i /\ P[b] = e /\ (b = i \/ b \in Below(old, i))
  <2>1. l \in 2 .. N
    <3>1. \A j \in Below(old, i) : i < j
      BY <1>3, <1>8, NodeFacts
    <3>2. QED
      BY <1>1, <1>5, <1>10, <3>1
  <2>2. QED
    BY <1>6, <1>10, <1>14, <2>1
<1>16. ~old[b].changed /\ b \in DOMAIN old
  <2>1. Intact(text, old, P, i)
    BY <1>2, <1>8 DEF Fits
  <2>2. QED
    BY <1>1, <1>8, <1>15, <2>1 DEF Intact
<1>17. Intact(text, old, P, b)
  BY <1>2, <1>16 DEF Fits
<1>18. PICK u : u = Subtree(old, b)
  OBVIOUS
<1>19. /\ Len(u) = old[b].node_count /\ u[1] = old[b] /\ IsForest(u) /\ old[b].node_count \in Nat \ {0}
  BY <1>3, <1>16, <1>18, SubtreeIsTree, NodeFacts
<1>20. q = IF u[1].sym = "end" THEN [p EXCEPT !.root = Accept(ready, u)]
           ELSE [p EXCEPT !.reusable = reusable_node_advance(old, broken),
                          !.stack = ts_stack_push(ready, u, ~Leaf(u[1]))]
  <2>1. old[FirstLeaf(old, p.reusable.i)].sym = old[l].sym
    BY <1>4, <1>5, <1>9
  <2>2. QED
    BY <1>4, <1>11, <1>13, <1>15, <1>18, <2>1 DEF ShiftReused
<1>21. CASE u[1].sym = "end"
  <2>1. b = N
    <3>1. \A k \in 2 .. N - 1 : old[k].sym \notin {"end", "program"}
      BY <1>1 DEF Fits, Ends
    <3>2. QED
      BY <1>1, <1>15, <1>19, <1>21, <3>1
  <2>2. Leaf(old[b])
    BY <1>1, <2>1 DEF Fits, Ends
  <2>3. old[b] = Lex(text, e)
    <3>1. old[b] = Lex(text, 0 + P[b])
      BY <1>17, <2>2 DEF Intact, Whole
    <3>2. 0 + P[b] = P[b]
      BY <1>3, <1>16 DEF Measured
    <3>3. QED
      BY <1>15, <3>1, <3>2
  <2>4. u = <<old[b]>>
    <3>1. Len(u) = 1 /\ u \in Seq(TreeNode)
      BY <1>19, <2>2 DEF Leaf, IsForest
    <3>2. QED
      BY <1>19, <3>1
  <2>5. q.stack = p.stack /\ q.reusable = w /\ q.root = Accept(ready, u)
    BY <1>7, <1>20, <1>21
  <2>6. IsEnd(text, ready.nodes, e, old[b])
    BY <1>12, <1>19, <1>21, <2>3 DEF IsEnd
  <2>7. SoundTree(text, q.root)
    BY <2>4, <2>5, <2>6, AcceptSound DEF Accept
  <2>8. QED
    BY <1>4, <2>5, <2>7
<1>22. CASE u[1].sym # "end"
  <2>1. b \in 2 .. Len(old) - 1
    <3>1. old[N].sym = "end"
      BY <1>1 DEF Fits, Ends
    <3>2. b # N
      BY <1>19, <1>22, <3>1
    <3>3. QED
      BY <1>1, <1>15, <3>2
  <2>2. PICK R : R = Moved(P, b - 1, Len(u))
    OBVIOUS
  <2>3. IsReuse(text, old, P, b, u, R)
    BY <1>2, <1>16, <1>18, <2>1, <2>2 DEF IsReuse
  <2>4. Sound(text, P[b], u, R) /\ Firm(u)
    BY <2>3, ReuseSound
  <2>5. IsPush(text, ready.nodes, e, u, R)
    BY <1>12, <1>15, <2>4 DEF IsPush
  <2>6. MadeTo(text, ready.nodes \o u, e + R[Len(u) + 1])
    BY <2>5, PushMade
  <2>7. /\ q.stack = ts_stack_push(ready, u, ~Leaf(u[1]))
        /\ q.reusable = reusable_node_advance(old, broken) /\ q.root = <<>>
    BY <1>7, <1>20, <1>22
  <2>8. q.stack.nodes = ready.nodes \o u
    BY <2>7 DEF ts_stack_push
  <2>9. broken.i \in DOMAIN old /\ Placed(old, broken)
    BY <1>2, <1>14, <1>15, <1>16 DEF Placed
  <2>10. Placed(old, q.reusable)
    BY <2>7, <2>9, AdvancePlaced
  <2>11. QED
    BY <2>6, <2>7, <2>8, <2>10
<1>23. QED
  BY <1>21, <1>22

(* Every turn of the parser keeps the invariant.                           *)
LEMMA ParsingKept ==
  ASSUME NEW text, NEW old, Usable(text, old), NEW start, NEW p \in Parsing(text, old),
         NEW q, q = Advance(p, text, old, start)
  PROVE  q \in Parsing(text, old)
<1>1. IsText(text) /\ IsTree(old) /\ IsForest(old) /\ Len(old) \in Nat /\ Len(old) >= 1
  <2>1. IsText(text) /\ IsTree(old) /\ IsForest(old)
    BY DEF Usable, IsTree
  <2>2. QED
    BY <2>1, EndOfTree
<1>2. /\ p \in Parsers(Len(old))
      /\ Len(old) > 1 => Placed(old, p.reusable)
      /\ p.root # <<>> => SoundTree(text, p.root)
  BY DEF Parsing
<1>3. PICK e : MadeTo(text, p.stack.nodes, e)
  BY DEF Parsing
<1>4. EndOf(p.stack.nodes) = e /\ e \in Nat
  BY <1>1, <1>3, MadeIs
<1>5. q \in Parsers(Len(old))
  BY <1>1, <1>2, AdvanceKeeps
<1>6. Turn(p, text, old, start, q)
  BY AdvanceCases
<1>7. p = [reusable |-> p.reusable, stack |-> p.stack, root |-> p.root] /\ p.stack \in Stacks
      /\ p.reusable \in Walks(Len(old))
  BY <1>2 DEF Parsers
<1>8. p.reusable.i \in 2 .. Len(old) + 1 /\ p.reusable.at \in Nat /\ DOMAIN p.reusable = {"i", "at"}
  BY <1>7, WidthIsPositive DEF Walks, Positions
<1> DEFINE Goal == /\ \E f : MadeTo(text, q.stack.nodes, f)
                   /\ Len(old) > 1 => Placed(old, q.reusable)
                   /\ q.root # <<>> => SoundTree(text, q.root)
<1>9. CASE p.root # <<>>
  BY <1>6, <1>9 DEF Turn
<1>10. CASE p.root = <<>>
  <2>1. CASE /\ p.reusable.i > Len(old) \/ p.reusable.at > EndOf(p.stack.nodes)
             /\ q = ShiftToken(p, Lex(text, EndOf(p.stack.nodes)))
    <3>1. q = ShiftToken(p, Lex(text, e))
      BY <1>4, <2>1
    <3>2. /\ \E f : MadeTo(text, q.stack.nodes, f)
          /\ q.reusable = p.reusable
          /\ q.root # <<>> => SoundTree(text, q.root)
      BY <1>1, <1>2, <1>3, <1>10, <3>1, ShiftTokenMade
    <3>3. Goal
      BY <1>2, <3>2
    <3>4. QED
      BY <1>5, <3>3 DEF Parsing
  <2>2. CASE ~(p.reusable.i > Len(old)) /\ ~(p.reusable.at > EndOf(p.stack.nodes))
    <3>1. PICK i \in DOMAIN old : i = p.reusable.i /\ i >= 2 /\ i <= Len(old)
      BY <1>1, <1>8, <2>2 DEF IsForest
    <3>2. Len(old) > 1 /\ Fits(text, old) /\ Placed(old, p.reusable)
      BY <1>1, <1>2, <3>1 DEF Usable
    <3>3. Placed(old, reusable_node_advance(old, p.reusable))
      BY <1>1, <3>1, <3>2, AdvancePlaced
    <3>4. CASE q = [p EXCEPT !.reusable = reusable_node_advance(old, p.reusable)]
      <4>1. q.reusable = reusable_node_advance(old, p.reusable) /\ q.stack = p.stack /\ q.root = p.root
        BY <1>7, <3>4
      <4>2. Goal
        BY <1>3, <1>10, <3>3, <4>1
      <4>3. QED
        BY <1>5, <4>2 DEF Parsing
    <3>5. CASE /\ ~(p.reusable.at < EndOf(p.stack.nodes))
               /\ CanReuse(old[p.reusable.i], p.reusable.at, start)
               /\ q = ShiftReused(p, old)
      <4>1. p.reusable.at = e
        BY <1>4, <1>8, <2>2, <3>5
      <4>2. ~old[p.reusable.i].changed
        BY <3>5 DEF CanReuse
      <4>3. p.reusable.i <= Len(old)
        BY <3>1
      <4>4. MadeTo(text, p.stack.nodes, p.reusable.at)
        BY <1>3, <4>1
      <4>5. Goal
        BY <1>1, <1>2, <1>10, <3>2, <3>5, <4>2, <4>3, <4>4, ShiftReusedMade
      <4>6. QED
        BY <1>5, <4>5 DEF Parsing
    <3>6. CASE q = [[p EXCEPT !.reusable = reusable_node_advance(old, p.reusable)] EXCEPT
                      !.stack = ts_parser__breakdown_top_of_stack(@)]
      <4>1. /\ q.reusable = reusable_node_advance(old, p.reusable)
            /\ q.stack = ts_parser__breakdown_top_of_stack(p.stack) /\ q.root = p.root
        BY <1>7, <3>6
      <4>2. \E f : MadeTo(text, q.stack.nodes, f)
        BY <1>1, <1>3, <1>7, <4>1, BrokenMade
      <4>3. Goal
        BY <1>10, <3>3, <4>1, <4>2
      <4>4. QED
        BY <1>5, <4>3 DEF Parsing
    <3>7. CASE ~Leaf(old[p.reusable.i]) /\ q = [p EXCEPT !.reusable = reusable_node_descend(p.reusable)]
      <4>1. q.reusable = reusable_node_descend(p.reusable) /\ q.stack = p.stack /\ q.root = p.root
        BY <1>7, <3>7
      <4>2. Placed(old, q.reusable)
        <5>1. PICK w : w = p.reusable
          OBVIOUS
        <5>2. w.i \in DOMAIN old /\ Placed(old, w) /\ DOMAIN w = {"i", "at"} /\ ~Leaf(old[w.i])
          BY <1>8, <3>1, <3>2, <3>7, <5>1
        <5>3. Placed(old, reusable_node_descend(w))
          BY <1>1, <3>2, <5>2, DescendPlaced
        <5>4. QED
          BY <4>1, <5>1, <5>3
      <4>3. Goal
        BY <1>3, <1>10, <4>1, <4>2
      <4>4. QED
        BY <1>5, <4>3 DEF Parsing
    <3>8. QED
      BY <1>6, <1>10, <2>2, <3>4, <3>5, <3>6, <3>7 DEF Turn
  <2>3. QED
    BY <1>6, <1>10, <2>1, <2>2 DEF Turn
<1>11. QED
  BY <1>5, <1>9, <1>10

(* The parser before its first turn.                                       *)
LEMMA StartsParsing ==
  ASSUME NEW text, NEW old, Usable(text, old.root)
  PROVE  NewParser(old.root) \in Parsing(text, old.root)
<1>0. IsText(text) /\ IsTree(old.root)
  BY DEF Usable
<1>1. PICK N \in Nat \ {0} : N = Len(old.root)
  BY <1>0, EndOfTree
<1>2. PICK p : p = NewParser(old.root)
  OBVIOUS
<1>3. /\ p \in Parsers(Len(old.root))
      /\ p = [reusable |-> [i |-> 2, at |-> 0], stack |-> [nodes |-> <<>>, pending |-> {}], root |-> <<>>]
  BY <1>1, <1>2, NewParserIs
<1>4. p.stack.nodes = <<>> /\ p.root = <<>> /\ p.reusable.i = 2 /\ p.reusable.at = 0
  BY <1>3
<1>5. \E e : MadeTo(text, p.stack.nodes, e)
  BY <1>0, <1>4, EmptyIsMade
<1>6. ASSUME Len(old.root) > 1
      PROVE  Placed(old.root, p.reusable)
  <2>1. Fits(text, old.root)
    BY <1>6 DEF Usable
  <2>2. Measured(old.root, Pos(old.root)) /\ 1 \in DOMAIN old.root /\ ~Leaf(old.root[1])
    <3>1. Measured(old.root, Pos(old.root))
      BY <2>1 DEF Fits
    <3>2. 1 \in DOMAIN old.root /\ Beyond(old.root, 1) = Len(old.root) + 1
      BY <1>0, EndOfTree DEF IsTree
    <3>3. ~Leaf(old.root[1])
      BY <1>1, <1>6, <3>2 DEF Beyond, Leaf
    <3>4. QED
      BY <3>1, <3>2, <3>3
  <2>3. Pos(old.root)[1 + 1] = Pos(old.root)[1] /\ Pos(old.root)[1] = 0
    BY <2>2 DEF Measured
  <2>4. QED
    BY <1>4, <2>3 DEF Placed
<1>7. QED
  BY <1>2, <1>3, <1>4, <1>5, <1>6 DEF Parsing

(* The parser makes a sound tree of the text, out of no tree and out of    *)
(* one that fits.                                                          *)
LEMMA ParsedIsSound ==
  ASSUME NEW text, NEW old, Usable(text, old.root)
  PROVE  SoundTree(text, ts_parser_parse(text, old).root) /\ ts_parser_parse(text, old).start = 0
<1>1. IsText(text) /\ IsTree(old.root)
  BY DEF Usable
<1>2. PICK I : I = Parsing(text, old.root)
  OBVIOUS
<1>3. I \in SUBSET Parsers(Len(old.root))
  BY <1>2 DEF Parsing
<1>4. NewParser(old.root) \in I
  <2>1. NewParser(old.root) \in Parsing(text, old.root)
    BY StartsParsing
  <2>2. QED
    BY <1>2, <2>1
<1>5. \A p \in I : Advance(p, text, old.root, old.start) \in I
  BY <1>2, ParsingKept
<1>6. IsKept(I, text, old)
  BY <1>3, <1>4, <1>5 DEF IsKept
<1>7. PICK p \in I : p.root # <<>> /\ ts_parser_parse(text, old) = [root |-> p.root, start |-> 0]
  BY <1>1, <1>6, ParserEnds
<1>8. SoundTree(text, p.root)
  BY <1>2, <1>7 DEF Parsing
<1>9. QED
  BY <1>7, <1>8

(***************************************************************************)
(* An edit in a frame.  The edit replaces the bytes from s to o by those   *)
(* from s to n; the frame reaches from O to T in the text; the children    *)
(* that end before q have been passed.                                     *)
(***************************************************************************)
\* Whether the inserted text has its place at q or later.
Waits(s, o, q) == q < s \/ (q = s /\ (o > s \/ q = 0))

StartIn(s, O) == IF s < O THEN 0 ELSE s - O

OldIn(s, o, O, T) == IF T < s THEN s - O
                     ELSE IF T <= o THEN T - O
                     ELSE IF o < O THEN 0 ELSE o - O

NewIn(s, o, n, O, T, q) ==
  IF T < s \/ (T = s /\ o > s) \/ ~Waits(s, o, q) THEN StartIn(s, O) ELSE n - O

IsEdit(e, s, o, n, O, T, q) ==
  /\ e \in Edits
  /\ e.start.b = StartIn(s, O)
  /\ e.old.b = OldIn(s, o, O, T)
  /\ e.new.b = NewIn(s, o, n, O, T, q)

\* A place only moved by the edit.
Behind(o, q) == q >= o /\ q > 0

(* ChildEdit in plain numbers.                                             *)
LEMMA ChildEditIs ==
  ASSUME NEW e \in Edits, NEW left \in Lengths, NEW right \in Lengths, left.b <= right.b,
         NEW c, c = ChildEdit(e, left, right)
  PROVE  /\ c \in Edits
         /\ c.start.b = IF e.start.b < left.b THEN 0 ELSE e.start.b - left.b
         /\ c.old.b = IF ~Touches(e, right) THEN c.start.b
                      ELSE IF e.old.b > right.b THEN right.b - left.b
                      ELSE IF e.old.b < left.b THEN 0 ELSE e.old.b - left.b
         /\ c.new.b = IF ~Touches(e, right) THEN c.start.b
                      ELSE IF e.new.b < left.b THEN 0 ELSE e.new.b - left.b
<1>1. e.start \in Lengths /\ e.old \in Lengths /\ e.new \in Lengths
  BY DEF Edits
<1>2. c \in Edits
  BY ChildEditTyped
<1> DEFINE moved(x) == IF x.b < left.b THEN Zero ELSE length_sub(x, left)
<1>3. ASSUME NEW x \in Lengths
      PROVE  moved(x).b = IF x.b < left.b THEN 0 ELSE x.b - left.b
  <2>1. x.b \in Nat /\ left.b \in Nat
    BY WidthIsPositive DEF Lengths
  <2>2. CASE x.b < left.b
    BY <2>2, ZeroIsLength
  <2>3. CASE ~(x.b < left.b)
    <3>1. left.b <= x.b
      BY <2>1, <2>3
    <3>2. length_sub(x, left).b = x.b - left.b
      BY <3>1, LengthFacts
    <3>3. QED
      BY <2>3, <3>2
  <2>4. QED
    BY <2>2, <2>3
<1>4. length_sub(right, left).b = right.b - left.b
  BY LengthFacts
<1>5. c = [start |-> moved(e.start),
           old |-> IF ~Touches(e, right) THEN moved(e.start)
                   ELSE IF e.old.b > right.b THEN length_sub(right, left) ELSE moved(e.old),
           new |-> IF Touches(e, right) THEN moved(e.new) ELSE moved(e.start)]
  BY DEF ChildEdit
<1>6. c.start = moved(e.start)
  BY <1>5
<1>7. c.old = IF ~Touches(e, right) THEN moved(e.start)
              ELSE IF e.old.b > right.b THEN length_sub(right, left) ELSE moved(e.old)
  BY <1>5
<1>8. c.new = IF Touches(e, right) THEN moved(e.new) ELSE moved(e.start)
  BY <1>5
<1>9. /\ moved(e.start).b = IF e.start.b < left.b THEN 0 ELSE e.start.b - left.b
      /\ moved(e.old).b = IF e.old.b < left.b THEN 0 ELSE e.old.b - left.b
      /\ moved(e.new).b = IF e.new.b < left.b THEN 0 ELSE e.new.b - left.b
  BY <1>1, <1>3
<1> HIDE DEF moved
<1>10. c.start.b = IF e.start.b < left.b THEN 0 ELSE e.start.b - left.b
  BY <1>6, <1>9
<1>11. c.old.b = IF ~Touches(e, right) THEN c.start.b
                 ELSE IF e.old.b > right.b THEN right.b - left.b
                 ELSE IF e.old.b < left.b THEN 0 ELSE e.old.b - left.b
  BY <1>4, <1>6, <1>7, <1>9
<1>12. c.new.b = IF ~Touches(e, right) THEN c.start.b
                 ELSE IF e.new.b < left.b THEN 0 ELSE e.new.b - left.b
  BY <1>6, <1>8, <1>9
<1>13. QED
  BY <1>2, <1>10, <1>11, <1>12

(* The same from frame to frame, in numbers only: a child from L to R.     *)
TouchedAt(x, y, r) == r > x \/ (r = x /\ y = x)

InFrame(s, o, n, O, L, R, T, x, y, z) ==
  /\ s \in Nat /\ o \in Nat /\ n \in Nat /\ s <= o /\ s <= n
  /\ O \in Nat /\ L \in Nat /\ R \in Nat /\ T \in Nat /\ O <= L /\ L <= R /\ R <= T
  /\ x = StartIn(s, O) /\ y = OldIn(s, o, O, T) /\ z = NewIn(s, o, n, O, T, L)

(* The edit a child is given is the part of the edit that lies in it: in   *)
(* its own coordinates, the numbers ChildEdit computes are these.          *)
LEMMA FrameOfChild ==
  ASSUME NEW s, NEW o, NEW n, NEW O, NEW L, NEW R, NEW T, NEW x, NEW y, NEW z,
         InFrame(s, o, n, O, L, R, T, x, y, z)
  PROVE  /\ (IF x < L - O THEN 0 ELSE x - (L - O)) = StartIn(s, L)
         /\ (IF ~TouchedAt(x, y, R - O) THEN StartIn(s, L)
             ELSE IF y > R - O THEN (R - O) - (L - O)
             ELSE IF y < L - O THEN 0 ELSE y - (L - O)) = OldIn(s, o, L, R)
         /\ (IF ~TouchedAt(x, y, R - O) THEN StartIn(s, L)
             ELSE IF z < L - O THEN 0 ELSE z - (L - O)) = NewIn(s, o, n, L, R, L)
         /\ R > 0 => (IF TouchedAt(x, y, R - O) THEN x ELSE z) = NewIn(s, o, n, O, T, R)
<1> USE DEF InFrame
<1>1. (IF x < L - O THEN 0 ELSE x - (L - O)) = StartIn(s, L)
  BY DEF StartIn
<1>2. (IF ~TouchedAt(x, y, R - O) THEN StartIn(s, L)
       ELSE IF y > R - O THEN (R - O) - (L - O)
       ELSE IF y < L - O THEN 0 ELSE y - (L - O)) = OldIn(s, o, L, R)
  BY DEF TouchedAt, StartIn, OldIn
<1>3. (IF ~TouchedAt(x, y, R - O) THEN StartIn(s, L)
       ELSE IF z < L - O THEN 0 ELSE z - (L - O)) = NewIn(s, o, n, L, R, L)
  BY DEF TouchedAt, StartIn, OldIn, NewIn, Waits
<1>4. R > 0 => (IF TouchedAt(x, y, R - O) THEN x ELSE z) = NewIn(s, o, n, O, T, R)
  BY DEF TouchedAt, StartIn, OldIn, NewIn, Waits
<1>5. QED
  BY <1>1, <1>2, <1>3, <1>4

(* A child from L to R, when the edit of the frame from O to T comes to it. *)
IsChild(x, m, left, edit, live, first, s, o, n, O, L, R, T) ==
  /\ s \in Nat /\ o \in Nat /\ n \in Nat /\ s <= o /\ s <= n
  /\ O \in Nat /\ L \in Nat /\ R \in Nat /\ T \in Nat /\ O <= L /\ L <= R /\ R <= T /\ T < Width
  /\ IsEdit(edit, s, o, n, O, T, L)
  /\ left \in Lengths /\ left.b = L - O
  /\ m \in TreeNode /\ Total(m) \in Lengths /\ Total(m).b = R - L /\ m.look >= 1
  /\ live \in BOOLEAN /\ first \in BOOLEAN /\ (first => L = O) /\ (~first => L > 0)
  /\ x = EditChild(m, left, edit, live, first)

(* What the loop over the children does with one that lies from L to R     *)
(* below a node that lies from O to T: the child is left alone only when   *)
(* the edit is over or does not reach it.                                  *)
LEMMA ChildFrame ==
  ASSUME NEW x, NEW m, NEW left, NEW edit, NEW live, NEW first,
         NEW s, NEW o, NEW n, NEW O, NEW L, NEW R, NEW T,
         IsChild(x, m, left, edit, live, first, s, o, n, O, L, R, T)
  PROVE  /\ x.right \in Lengths /\ x.right.b = R - O
         /\ IsEdit(x.own, s, o, n, L, R, L)
         /\ R > 0 => IsEdit(x.edit, s, o, n, O, T, R)
         /\ x.live => live
         /\ x.edited => live
         /\ ~x.live => ~live \/ Behind(o, L)
         /\ ~x.edited => ~live \/ Behind(o, L) \/ R + m.look <= s
<1>0. /\ s \in Nat /\ o \in Nat /\ n \in Nat /\ s <= o /\ s <= n
      /\ O \in Nat /\ L \in Nat /\ R \in Nat /\ T \in Nat /\ O <= L /\ L <= R /\ R <= T /\ T < Width
      /\ IsEdit(edit, s, o, n, O, T, L)
      /\ left \in Lengths /\ left.b = L - O
      /\ m \in TreeNode /\ Total(m) \in Lengths /\ Total(m).b = R - L /\ m.look >= 1
      /\ live \in BOOLEAN /\ first \in BOOLEAN /\ (first => L = O) /\ (~first => L > 0)
      /\ x = EditChild(m, left, edit, live, first)
  BY DEF IsChild
<1>1. /\ edit \in Edits
      /\ edit.start \in Lengths /\ edit.old \in Lengths /\ edit.new \in Lengths
      /\ edit.start.b = StartIn(s, O) /\ edit.old.b = OldIn(s, o, O, T)
      /\ edit.new.b = NewIn(s, o, n, O, T, L)
      /\ edit = [start |-> edit.start, old |-> edit.old, new |-> edit.new]
  BY <1>0 DEF IsEdit, Edits
<1>2. PICK k \in Nat : k = m.look /\ k >= 1
  BY <1>0 DEF TreeNode
<1>3. PICK right : right = length_add(left, Total(m))
  OBVIOUS
<1>4. right \in Lengths /\ right.b = R - O
  <2>1. right \in Lengths
    BY <1>0, <1>3, PlusLength
  <2>2. right.b = Plus(L - O, R - L)
    BY <1>0, <1>3, PlusLength
  <2>3. (L - O) + (R - L) = R - O /\ R - O < Width
    BY <1>0, WidthIsPositive
  <2>4. Plus(L - O, R - L) = R - O
    BY <2>3 DEF Plus
  <2>5. QED
    BY <2>1, <2>2, <2>4
<1>5. PICK own : own = ChildEdit(edit, left, right)
  OBVIOUS
<1>6. PICK a \in Nat : a = edit.start.b /\ a = StartIn(s, O)
  BY <1>1, WidthIsPositive DEF Lengths
<1>7. PICK b \in Nat : b = edit.old.b /\ b = OldIn(s, o, O, T)
  BY <1>1, WidthIsPositive DEF Lengths
<1>8. PICK c \in Nat : c = edit.new.b /\ c = NewIn(s, o, n, O, T, L)
  BY <1>1, WidthIsPositive DEF Lengths
<1>9. Touches(edit, right) <=> TouchedAt(a, b, R - O)
  BY <1>4, <1>6, <1>7 DEF Touches, TouchedAt, IsInsertion
<1>10. /\ own \in Edits
       /\ own.start.b = IF a < L - O THEN 0 ELSE a - (L - O)
       /\ own.old.b = IF ~TouchedAt(a, b, R - O) THEN own.start.b
                      ELSE IF b > R - O THEN (R - O) - (L - O)
                      ELSE IF b < L - O THEN 0 ELSE b - (L - O)
       /\ own.new.b = IF ~TouchedAt(a, b, R - O) THEN own.start.b
                      ELSE IF c < L - O THEN 0 ELSE c - (L - O)
  <2>1. left.b <= right.b
    BY <1>0, <1>4
  <2>2. /\ own \in Edits
        /\ own.start.b = IF edit.start.b < left.b THEN 0 ELSE edit.start.b - left.b
        /\ own.old.b = IF ~Touches(edit, right) THEN own.start.b
                       ELSE IF edit.old.b > right.b THEN right.b - left.b
                       ELSE IF edit.old.b < left.b THEN 0 ELSE edit.old.b - left.b
        /\ own.new.b = IF ~Touches(edit, right) THEN own.start.b
                       ELSE IF edit.new.b < left.b THEN 0 ELSE edit.new.b - left.b
    BY <1>0, <1>1, <1>4, <1>5, <2>1, ChildEditIs
  <2>3. QED
    BY <1>0, <1>4, <1>6, <1>7, <1>8, <1>9, <2>2
<1>a. InFrame(s, o, n, O, L, R, T, a, b, c)
  BY <1>0, <1>6, <1>7, <1>8 DEF InFrame
<1>11. IsEdit(own, s, o, n, L, R, L)
  <2>1. own.start.b = StartIn(s, L)
    <3>1. (IF a < L - O THEN 0 ELSE a - (L - O)) = StartIn(s, L)
      BY <1>a, FrameOfChild
    <3>2. QED
      BY <1>10, <3>1
  <2>2. own.old.b = OldIn(s, o, L, R)
    <3>1. (IF ~TouchedAt(a, b, R - O) THEN StartIn(s, L)
           ELSE IF b > R - O THEN (R - O) - (L - O)
           ELSE IF b < L - O THEN 0 ELSE b - (L - O)) = OldIn(s, o, L, R)
      BY <1>a, FrameOfChild
    <3>2. QED
      BY <1>10, <2>1, <3>1
  <2>3. own.new.b = NewIn(s, o, n, L, R, L)
    <3>1. (IF ~TouchedAt(a, b, R - O) THEN StartIn(s, L)
           ELSE IF c < L - O THEN 0 ELSE c - (L - O)) = NewIn(s, o, n, L, R, L)
      BY <1>a, FrameOfChild
    <3>2. QED
      BY <1>10, <2>1, <3>1
  <2>4. QED
    BY <1>10, <2>1, <2>2, <2>3 DEF IsEdit
<1> DEFINE skips == right.b + m.look < edit.start.b
           stops == /\ ~skips
                    /\ \/ left.b > edit.old.b
                       \/ left.b = edit.old.b /\ Total(m).b > 0 /\ ~first
<1>12. x = [right |-> right, own |-> own,
            edited |-> live /\ ~skips /\ ~stops /\ ~Untouched(m, own),
            edit |-> IF ~skips /\ Touches(edit, right) THEN [edit EXCEPT !.new = edit.start] ELSE edit,
            live |-> live /\ ~stops]
  BY <1>0, <1>3, <1>5 DEF EditChild
<1>13. /\ x.right = right /\ x.own = own
       /\ x.edit = IF ~skips /\ Touches(edit, right) THEN [edit EXCEPT !.new = edit.start] ELSE edit
  BY <1>12
<1>14. x.edited <=> live /\ ~skips /\ ~stops /\ ~Untouched(m, own)
  BY <1>12
<1>15. x.live <=> live /\ ~stops
  BY <1>12
<1>16. skips <=> (R - O) + k < a
  BY <1>2, <1>4, <1>6
<1>17. skips => R + k <= s
  BY <1>0, <1>6, <1>16 DEF StartIn
<1>18. stops => Behind(o, L)
  <2>1. stops => (L - O) > b \/ ((L - O) = b /\ R - L > 0 /\ ~first)
    BY <1>0, <1>7
  <2>2. stops => L > 0
    BY <1>0, <1>7, <2>1
  <2>3. (L - O) > b => L >= o
    BY <1>0, <1>7 DEF OldIn
  <2>4. (L - O) = b /\ R - L > 0 => L >= o
    BY <1>0, <1>7 DEF OldIn
  <2> HIDE DEF stops
  <2>5. QED
    BY <2>1, <2>2, <2>3, <2>4 DEF Behind
<1>19. Untouched(m, own) => R + k <= s
  <2>1. own.start.b = StartIn(s, L)
    BY <1>11 DEF IsEdit
  <2>2. Untouched(m, own) => own.start.b >= (R - L) + k
    <3>1. PICK d \in Nat : d = own.start.b
      BY <1>0, <2>1 DEF StartIn
    <3>2. QED
      BY <1>0, <1>2, <3>1 DEF Untouched
  <2>3. StartIn(s, L) >= (R - L) + k => R + k <= s
    BY <1>0, <1>2 DEF StartIn
  <2>4. QED
    BY <2>1, <2>2, <2>3
<1>20. ASSUME R > 0
       PROVE  IsEdit(x.edit, s, o, n, O, T, R)
  <2>1. (IF TouchedAt(a, b, R - O) THEN a ELSE c) = NewIn(s, o, n, O, T, R)
    BY <1>a, <1>20, FrameOfChild
  <2>2. CASE Touches(edit, right)
    <3>1. ~skips
      <4>1. R - O >= a
        BY <1>0, <1>6, <1>9, <2>2 DEF TouchedAt
      <4>2. QED
        BY <1>0, <1>6, <1>16, <4>1
    <3> HIDE DEF skips
    <3>2. x.edit = [start |-> edit.start, old |-> edit.old, new |-> edit.start]
      BY <1>1, <1>13, <2>2, <3>1
    <3>3. x.edit \in Edits
      BY <1>1, <3>2 DEF Edits
    <3>4. x.edit.new.b = a /\ x.edit.start.b = edit.start.b /\ x.edit.old.b = edit.old.b
      <4>1. x.edit.new = edit.start /\ x.edit.start = edit.start /\ x.edit.old = edit.old
        BY <3>2
      <4>2. QED
        BY <1>6, <4>1
    <3>5. QED
      BY <1>1, <1>9, <2>1, <2>2, <3>3, <3>4 DEF IsEdit
  <2>3. CASE ~Touches(edit, right)
    <3>1. x.edit = edit
      BY <1>13, <2>3
    <3>2. QED
      BY <1>1, <1>8, <1>9, <2>1, <2>3, <3>1 DEF IsEdit
  <2>4. QED
    BY <2>2, <2>3
<1> HIDE DEF skips, stops
<1>21. R + m.look = R + k
  BY <1>2
<1>22. ~x.edited => ~live \/ Behind(o, L) \/ R + m.look <= s
  BY <1>14, <1>17, <1>18, <1>19, <1>21
<1>23. (~x.live => ~live \/ Behind(o, L)) /\ (x.live => live) /\ (x.edited => live)
  BY <1>14, <1>15, <1>18
<1>24. QED
  BY <1>4, <1>11, <1>13, <1>20, <1>22, <1>23

(***************************************************************************)
(* ts_subtree_edit on the tree of a text: each node is given the part of   *)
(* the edit that lies in it, and one that is passed over is out of reach.  *)
(***************************************************************************)
LEMMA SoundTreeIs ==
  ASSUME NEW text, IsText(text), NEW t, SoundTree(text, t), NEW P, P = Pos(t), NEW j \in DOMAIN t
  PROVE  /\ Whole(text, 0, t, P, j) /\ t[j].look >= 1 /\ ~t[j].changed
         /\ t[j] \in TreeNode /\ Total(t[j]) \in Lengths /\ t[j].look \in Nat
         /\ Beyond(t, j) \in j + 1 .. Len(t) + 1
         /\ P[j] \in Nat /\ P[Beyond(t, j)] \in Nat /\ P[j] <= P[Beyond(t, j)]
         /\ P[Beyond(t, j)] <= Len(text) /\ Total(t[j]).b = P[Beyond(t, j)] - P[j]
         /\ j > 1 /\ Beyond(t, j) <= Len(t) => P[Beyond(t, j)] > 0
<1>1. Fits(text, t) /\ ~t[j].changed
  BY DEF SoundTree
<1>2. /\ IsForest(t) /\ Len(t) \in Nat /\ DOMAIN t = 1 .. Len(t) /\ Measured(t, P)
      /\ \A k \in 1 .. Len(t) + 1 : P[k] \in Nat /\ P[k] <= Len(text)
  BY <1>1, FitsIs
<1>3. Intact(text, t, P, j)
  BY <1>1 DEF Fits
<1>4. Whole(text, 0, t, P, j) /\ t[j].look >= 1
  BY <1>3 DEF Intact, Whole
<1>5. /\ t[j] \in TreeNode /\ Total(t[j]) \in Lengths /\ t[j].look \in Nat
      /\ Beyond(t, j) \in j + 1 .. Len(t) + 1
  BY <1>2, NodeFacts
<1>6. PICK x \in Nat : x = P[j]
  BY <1>2
<1>7. PICK b \in 1 .. Len(t) + 1 : b = Beyond(t, j)
  BY <1>2, <1>5
<1>8. PICK y \in Nat : y = P[b] /\ y <= Len(text)
  BY <1>2
<1>9. PICK z \in Nat : z = Total(t[j]).b
  BY <1>5, WidthIsPositive DEF Lengths
<1>10. y = x + z
  BY <1>2, <1>6, <1>7, <1>8, <1>9 DEF Measured
<1>11. ASSUME j > 1, b <= Len(t)
       PROVE  z > 0
  <2>1. j \in 2 .. Len(t) - 1
    BY <1>2, <1>5, <1>7, <1>11
  <2>2. QED
    BY <1>3, <1>9, <2>1 DEF Intact
<1>12. x <= y /\ z = y - x /\ (z > 0 => y > 0)
  BY <1>10
<1>13. QED
  BY <1>1, <1>4, <1>5, <1>6, <1>7, <1>8, <1>9, <1>11, <1>12

IsEditing(text, t, P, e, s, o, n, c) ==
  /\ IsText(text) /\ SoundTree(text, t) /\ P = Pos(t)
  /\ e \in Edits /\ e.start.b = s /\ e.old.b = o /\ e.new.b = n
  /\ s \in Nat /\ o \in Nat /\ n \in Nat /\ s <= o /\ s <= n /\ o <= Len(text)
  /\ Len(text) + n - o < Width
  /\ c = EditChildren(t, e)

Far(t, P, s, o, j) == Behind(o, P[j]) \/ P[Beyond(t, j)] + t[j].look <= s

OwnIs(t, P, s, o, n, c, j) ==
  /\ IsEdit(c[j].own, s, o, n, P[j], P[Beyond(t, j)], P[j])
  /\ ~c[j].edited => Far(t, P, s, o, j)

KidIs(t, P, s, o, n, c, j, i) ==
  /\ i \in 1 .. j - 1 /\ j \in Kids(t, i)
  /\ c[j].right \in Lengths /\ c[j].right.b = P[Beyond(t, j)] - P[i]
  /\ Beyond(t, j) <= Len(t) =>
       IsEdit(c[j].edit, s, o, n, P[i], P[Beyond(t, i)], P[Beyond(t, j)])
  /\ ~c[j].live => Behind(o, P[Beyond(t, j)]) \/ P[Beyond(t, i)] + t[i].look <= s
  /\ c[j].live => c[i].edited
  /\ c[j].edited => c[i].edited

NodeIsEdited(t, P, s, o, n, c, j) ==
  /\ OwnIs(t, P, s, o, n, c, j)
  /\ j > 1 => \E i : KidIs(t, P, s, o, n, c, j, i)

(* One node, below the i-th one.                                           *)
IsStep(text, t, P, e, s, o, n, c, j, i, left, edit, live, first) ==
  /\ IsEditing(text, t, P, e, s, o, n, c)
  /\ j \in DOMAIN t /\ i \in 1 .. j - 1 /\ j \in Kids(t, i)
  /\ left \in Lengths /\ left.b = P[j] - P[i]
  /\ IsEdit(edit, s, o, n, P[i], P[Beyond(t, i)], P[j])
  /\ live \in BOOLEAN /\ first \in BOOLEAN /\ (first => P[j] = P[i]) /\ (~first => P[j] > 0)
  /\ live => c[i].edited
  /\ ~live => Behind(o, P[j]) \/ P[Beyond(t, i)] + t[i].look <= s
  /\ c[j] = EditChild(t[j], left, edit, live, first)

(* A child is edited as its parent's edit says.                            *)
LEMMA EditStep ==
  ASSUME NEW text, NEW t, NEW P, NEW e, NEW s, NEW o, NEW n, NEW c, NEW j, NEW i,
         NEW left, NEW edit, NEW live, NEW first,
         IsStep(text, t, P, e, s, o, n, c, j, i, left, edit, live, first)
  PROVE  NodeIsEdited(t, P, s, o, n, c, j)
<1>0. /\ IsEditing(text, t, P, e, s, o, n, c)
      /\ j \in DOMAIN t /\ i \in 1 .. j - 1 /\ j \in Kids(t, i)
      /\ left \in Lengths /\ left.b = P[j] - P[i]
      /\ IsEdit(edit, s, o, n, P[i], P[Beyond(t, i)], P[j])
      /\ live \in BOOLEAN /\ first \in BOOLEAN /\ (first => P[j] = P[i]) /\ (~first => P[j] > 0)
      /\ live => c[i].edited
      /\ ~live => Behind(o, P[j]) \/ P[Beyond(t, i)] + t[i].look <= s
      /\ c[j] = EditChild(t[j], left, edit, live, first)
  BY DEF IsStep
<1>1. /\ IsText(text) /\ SoundTree(text, t) /\ P = Pos(t) /\ Fits(text, t)
      /\ s \in Nat /\ o \in Nat /\ n \in Nat /\ s <= o /\ s <= n
  BY <1>0 DEF IsEditing, SoundTree
<1>2. /\ IsForest(t) /\ Len(t) \in Nat /\ DOMAIN t = 1 .. Len(t) /\ Measured(t, P)
      /\ Len(text) \in Nat /\ Len(text) < Width /\ Width \in Nat
  BY <1>1, FitsIs
<1>3. i \in DOMAIN t /\ i < j
  BY <1>0, <1>2
<1>4. j \in Below(t, i)
  BY <1>0 DEF Kids
<1>5. PICK L \in Nat : L = P[j]
  BY <1>0, <1>1, SoundTreeIs
<1>6. PICK R \in Nat : R = P[Beyond(t, j)] /\ L <= R /\ Total(t[j]).b = R - L
  BY <1>0, <1>1, <1>5, SoundTreeIs
<1>7. PICK O \in Nat : O = P[i]
  BY <1>1, <1>3, SoundTreeIs
<1>8. PICK T \in Nat : T = P[Beyond(t, i)] /\ T <= Len(text)
  BY <1>1, <1>3, SoundTreeIs
<1>9. O <= L /\ R <= T
  <2>1. i \in 1 .. Len(t) + 1 /\ j \in 1 .. Len(t) + 1 /\ i <= j
    BY <1>0, <1>2, <1>3
  <2>2. P[i] <= P[j]
    BY <1>2, <2>1, MeasureGrows
  <2>3. Beyond(t, j) <= Beyond(t, i)
    BY <1>2, <1>3, <1>4 DEF IsForest
  <2>4. Beyond(t, j) \in 1 .. Len(t) + 1 /\ Beyond(t, i) \in 1 .. Len(t) + 1
    BY <1>0, <1>2, <1>3, NodeFacts
  <2>5. P[Beyond(t, j)] <= P[Beyond(t, i)]
    BY <1>2, <2>3, <2>4, MeasureGrows
  <2>6. QED
    BY <1>5, <1>6, <1>7, <1>8, <2>2, <2>5
<1>10. /\ t[j] \in TreeNode /\ Total(t[j]) \in Lengths /\ t[j].look >= 1 /\ t[j].look \in Nat
       /\ j > 1 /\ Beyond(t, j) <= Len(t) => R > 0
  BY <1>0, <1>1, <1>6, SoundTreeIs
<1>11. t[i].look \in Nat /\ R + t[j].look <= T + t[i].look
  <2>1. Whole(text, 0, t, P, i) /\ t[i].look \in Nat
    BY <1>1, <1>3, SoundTreeIs
  <2>2. P[Beyond(t, j)] + t[j].look <= P[Beyond(t, i)] + t[i].look
    BY <1>4, <2>1 DEF Whole
  <2>3. QED
    BY <1>6, <1>8, <2>1, <2>2
<1>12. PICK x : x = c[j]
  OBVIOUS
<1>13. PICK m : m = t[j]
  OBVIOUS
<1>14. T < Width
  BY <1>2, <1>8
<1>15. IsChild(x, m, left, edit, live, first, s, o, n, O, L, R, T)
  BY <1>0, <1>1, <1>5, <1>6, <1>7, <1>8, <1>9, <1>10, <1>12, <1>13, <1>14 DEF IsChild
<1>16. /\ x.right \in Lengths /\ x.right.b = R - O
       /\ IsEdit(x.own, s, o, n, L, R, L)
       /\ R > 0 => IsEdit(x.edit, s, o, n, O, T, R)
       /\ x.live => live
       /\ x.edited => live
       /\ ~x.live => ~live \/ Behind(o, L)
       /\ ~x.edited => ~live \/ Behind(o, L) \/ R + m.look <= s
  BY <1>15, ChildFrame
<1>17. Behind(o, L) => Behind(o, R)
  BY <1>1, <1>6 DEF Behind
<1>18. PICK kj \in Nat : kj = t[j].look
  BY <1>10
<1>19. PICK ki \in Nat : ki = t[i].look /\ R + kj <= T + ki
  BY <1>11, <1>18
<1>20. ~live => Behind(o, L) \/ T + ki <= s
  BY <1>0, <1>5, <1>8, <1>19
<1>21. T + ki <= s => R + kj <= s
  BY <1>1, <1>18, <1>19
<1>22. ~x.edited => Behind(o, L) \/ R + kj <= s
  BY <1>13, <1>16, <1>18, <1>20, <1>21
<1>23. OwnIs(t, P, s, o, n, c, j)
  BY <1>5, <1>6, <1>12, <1>16, <1>18, <1>22 DEF OwnIs, Far
<1>24. ~x.live => Behind(o, R) \/ T + ki <= s
  BY <1>16, <1>17, <1>20
<1>25. KidIs(t, P, s, o, n, c, j, i)
  <2>1. Beyond(t, j) <= Len(t) => R > 0
    BY <1>0, <1>10
  <2>2. (x.live => c[i].edited) /\ (x.edited => c[i].edited)
    BY <1>0, <1>16
  <2>3. QED
    BY <1>0, <1>6, <1>7, <1>8, <1>12, <1>16, <1>19, <1>24, <2>1, <2>2 DEF KidIs
<1>26. QED
  BY <1>23, <1>25 DEF NodeIsEdited

(* A first child, and the sibling after a child.                           *)
LEMMA FirstKid ==
  ASSUME NEW t, IsForest(t), NEW j \in DOMAIN t, j > 1, ~Leaf(t[j - 1])
  PROVE  j - 1 \in 1 .. j - 1 /\ j \in Kids(t, j - 1)
<1>1. PICK i \in DOMAIN t : i = j - 1 /\ j = i + 1
  BY NodeFacts
<1>2. i + 1 \in Below(t, i) /\ i \in Nat
  BY <1>1, NodeFacts
<1>3. i + 1 .. (i + 1) - 1 = {}
  BY <1>2
<1>4. i + 1 \in Kids(t, i)
  BY <1>2, <1>3 DEF Kids
<1>5. QED
  BY <1>1, <1>2, <1>4

(* The sibling after a child is a child.                                   *)
LEMMA NextKid ==
  ASSUME NEW t, IsForest(t), NEW j \in DOMAIN t, j > 1, Leaf(t[j - 1]),
         NEW k, k = Before(t, j), NEW i \in 1 .. k - 1, k \in Kids(t, i)
  PROVE  i \in 1 .. j - 1 /\ j \in Kids(t, i)
<1>1. Len(t) \in Nat /\ DOMAIN t = 1 .. Len(t) /\ j \in 2 .. Len(t) + 1 /\ j \in Nat
  BY DEF IsForest
<1>2. /\ k \in 1 .. j - 1 /\ k \in DOMAIN t /\ Beyond(t, k) = j
      /\ \A m \in 1 .. j - 1 : Beyond(t, m) = j => k <= m
  BY <1>1, BeforeIs
<1>3. i \in DOMAIN t /\ i \in Nat /\ k \in Nat /\ j \in Nat /\ i < k /\ k < j /\ i \in 1 .. j - 1
  BY <1>1, <1>2
<1>4. k \in Below(t, i) /\ \A m \in i + 1 .. k - 1 : k \notin Below(t, m)
  BY DEF Kids
<1>5. Beyond(t, k) <= Beyond(t, i)
  BY <1>3, <1>4 DEF IsForest
<1>6. Beyond(t, i) \in Nat /\ Beyond(t, i) > j
  <2>1. Beyond(t, i) \in i + 1 .. Len(t) + 1
    BY <1>3, NodeFacts
  <2>2. Beyond(t, i) # j
    BY <1>2, <1>3
  <2>3. QED
    BY <1>1, <1>2, <1>3, <1>5, <2>1, <2>2
<1>7. j \in Below(t, i)
  BY <1>1, <1>3, <1>6, NodeFacts
<1>8. ASSUME NEW m \in i + 1 .. j - 1, j \in Below(t, m)
      PROVE  FALSE
  <2>1. m \in DOMAIN t /\ m \in Nat /\ i < m /\ m < j
    <3>1. PICK N \in Nat : N = Len(t)
      BY <1>1
    <3>2. j \in 1 .. N /\ m \in i + 1 .. j - 1
      BY <1>1, <3>1
    <3>3. QED
      BY <1>1, <1>3, <3>1, <3>2
  <2>2. PICK b \in m + 1 .. Len(t) + 1 : b = Beyond(t, m) /\ j < b
    BY <1>8, <2>1, NodeFacts
  <2>3. CASE m < k
    <3>1. k \in Below(t, m)
      BY <1>3, <2>1, <2>2, <2>3 DEF Below
    <3>2. m \in i + 1 .. k - 1
      BY <1>3, <2>1, <2>3
    <3>3. QED
      BY <1>4, <3>1, <3>2
  <2>4. CASE m = k
    BY <1>1, <1>2, <2>2, <2>4
  <2>5. CASE m > k
    <3>1. m \in Below(t, k)
      BY <1>2, <1>3, <2>1, <2>5 DEF Below
    <3>2. Beyond(t, m) <= Beyond(t, k)
      BY <1>2, <3>1 DEF IsForest
    <3>3. QED
      BY <1>1, <1>2, <2>2, <3>2
  <2>6. QED
    BY <1>3, <2>1, <2>3, <2>4, <2>5
<1>9. j \in Kids(t, i)
  BY <1>7, <1>8 DEF Kids
<1>10. QED
  BY <1>3, <1>9

(* The root has the whole edit.                                            *)
LEMMA RootIsEdited ==
  ASSUME NEW text, NEW t, NEW P, NEW e, NEW s, NEW o, NEW n, NEW c,
         IsEditing(text, t, P, e, s, o, n, c)
  PROVE  1 \in DOMAIN t /\ NodeIsEdited(t, P, s, o, n, c, 1)
<1>0. /\ IsText(text) /\ SoundTree(text, t) /\ P = Pos(t) /\ Fits(text, t)
      /\ e \in Edits /\ e.start.b = s /\ e.old.b = o /\ e.new.b = n
      /\ s \in Nat /\ o \in Nat /\ n \in Nat /\ s <= o /\ s <= n /\ o <= Len(text)
      /\ c = EditChildren(t, e)
  BY DEF IsEditing, SoundTree
<1>1. /\ IsForest(t) /\ Len(t) \in Nat /\ Len(t) >= 2 /\ DOMAIN t = 1 .. Len(t) /\ Measured(t, P)
      /\ Len(text) \in Nat /\ P[Len(t) + 1] = Len(text)
  BY <1>0, FitsIs
<1>2. PICK i \in DOMAIN t : i = 1
  BY <1>1
<1>3. Beyond(t, i) = Len(t) + 1
  BY <1>0, <1>2 DEF Fits, IsSyntaxTree, IsTree
<1>4. P[i] = 0 /\ P[Beyond(t, i)] = Len(text)
  BY <1>1, <1>2, <1>3 DEF Measured
<1>5. c[i] = EditOf(t, e, c, i)
  BY <1>0, <1>1, EditsAre
<1>6. c[i] = [right |-> Total(t[1]), own |-> e, edited |-> ~Untouched(t[1], e), edit |-> e, live |-> FALSE]
  BY <1>2, <1>5 DEF EditOf
<1>7. c[i].own = e /\ (c[i].edited <=> ~Untouched(t[i], e))
  <2>1. c[i].own = e
    BY <1>6
  <2>2. c[i].edited = ~Untouched(t[1], e)
    BY <1>6
  <2>3. QED
    BY <1>2, <2>1, <2>2
<1>8. IsEdit(e, s, o, n, 0, Len(text), 0)
  <2>1. StartIn(s, 0) = s
    BY <1>0 DEF StartIn
  <2>2. OldIn(s, o, 0, Len(text)) = o
    BY <1>0, <1>1 DEF OldIn
  <2>3. NewIn(s, o, n, 0, Len(text), 0) = n
    BY <1>0, <1>1 DEF NewIn, Waits
  <2>4. QED
    BY <1>0, <2>1, <2>2, <2>3 DEF IsEdit
<1>9. Untouched(t[i], e) => Len(text) + t[i].look <= s
  <2>1. /\ Total(t[i]).b = P[Beyond(t, i)] - P[i] /\ t[i].look \in Nat
    BY <1>0, SoundTreeIs
  <2>2. Total(t[i]).b = Len(text)
    BY <1>1, <1>4, <2>1
  <2>3. QED
    BY <1>0, <1>1, <2>1, <2>2 DEF Untouched
<1>10. OwnIs(t, P, s, o, n, c, i)
  BY <1>4, <1>7, <1>8, <1>9 DEF OwnIs, Far
<1>11. QED
  BY <1>1, <1>2, <1>10 DEF NodeIsEdited

(* A node is edited as the nodes before it are.                            *)
LEMMA NextIsEdited ==
  ASSUME NEW text, NEW t, NEW P, NEW e, NEW s, NEW o, NEW n, NEW c,
         IsEditing(text, t, P, e, s, o, n, c),
         NEW j \in DOMAIN t, j > 1, \A k \in 1 .. j - 1 : NodeIsEdited(t, P, s, o, n, c, k)
  PROVE  NodeIsEdited(t, P, s, o, n, c, j)
<1>0. /\ IsText(text) /\ SoundTree(text, t) /\ P = Pos(t) /\ Fits(text, t)
      /\ e \in Edits /\ c = EditChildren(t, e)
  BY DEF IsEditing, SoundTree
<1>1. /\ IsForest(t) /\ Len(t) \in Nat /\ DOMAIN t = 1 .. Len(t) /\ Measured(t, P)
  BY <1>0, FitsIs
<1>2. c[j] = EditOf(t, e, c, j) /\ \A k \in 1 .. Len(t) : c[k] \in EditedNodes
  BY <1>0, <1>1, EditsAre
<1>3. CASE ~Leaf(t[j - 1])
  <2>1. PICK i \in 1 .. j - 1 : i = j - 1 /\ j \in Kids(t, i) /\ i + 1 = j
    BY <1>1, <1>3, FirstKid
  <2>2. i \in DOMAIN t /\ ~Leaf(t[i])
    BY <1>1, <1>3, <2>1
  <2>3. P[j] = P[i] /\ P[i] \in Nat
    BY <1>0, <1>1, <2>1, <2>2, SoundTreeIs DEF Measured
  <2>4. NodeIsEdited(t, P, s, o, n, c, i)
    BY <2>1
  <2>5. IsEdit(c[i].own, s, o, n, P[i], P[Beyond(t, i)], P[i]) /\ (~c[i].edited => Far(t, P, s, o, i))
    BY <2>4 DEF NodeIsEdited, OwnIs
  <2>6. c[i].edited \in BOOLEAN
    BY <1>1, <1>2, <2>2 DEF EditedNodes
  <2>7. PICK live : live = c[i].edited
    OBVIOUS
  <2>8. PICK left : left = Zero
    OBVIOUS
  <2>9. PICK edit : edit = c[i].own
    OBVIOUS
  <2>10. c[j] = EditChild(t[j], left, edit, live, TRUE)
    <3>1. j \in Nat /\ j # 1
      BY <1>1
    <3>2. EditOf(t, e, c, j) = EditChild(t[j], Zero, c[j - 1].own, c[j - 1].edited, TRUE)
      BY <1>3, <3>1 DEF EditOf
    <3>3. QED
      BY <1>2, <2>1, <2>7, <2>8, <2>9, <3>2
  <2>11. left \in Lengths /\ left.b = P[j] - P[i]
    BY <2>3, <2>8, ZeroIsLength
  <2>12. ~live => Behind(o, P[j]) \/ P[Beyond(t, i)] + t[i].look <= s
    BY <2>3, <2>5, <2>7 DEF Far
  <2>13. IsEdit(edit, s, o, n, P[i], P[Beyond(t, i)], P[j])
    BY <2>3, <2>5, <2>9
  <2>14. IsStep(text, t, P, e, s, o, n, c, j, i, left, edit, live, TRUE)
    BY <2>1, <2>3, <2>6, <2>7, <2>10, <2>11, <2>12, <2>13 DEF IsStep
  <2>15. QED
    BY <2>14, EditStep
<1>4. CASE Leaf(t[j - 1])
  <2>1. PICK k : k = Before(t, j)
    OBVIOUS
  <2>2. k \in 1 .. j - 1 /\ k \in DOMAIN t /\ Beyond(t, k) = j
    BY <1>1, <1>4, <2>1, BeforeIs
  <2>3. k > 1
    <3>1. k # 1
      <4>1. Beyond(t, 1) = Len(t) + 1
        BY <1>0 DEF Fits, IsSyntaxTree, IsTree
      <4>2. QED
        BY <1>1, <2>2, <4>1
    <3>2. QED
      BY <1>1, <2>2, <3>1
  <2>4. NodeIsEdited(t, P, s, o, n, c, k)
    BY <2>2
  <2>5. PICK i : KidIs(t, P, s, o, n, c, k, i)
    BY <2>3, <2>4 DEF NodeIsEdited
  <2>6. /\ i \in 1 .. k - 1 /\ k \in Kids(t, i)
        /\ c[k].right \in Lengths /\ c[k].right.b = P[Beyond(t, k)] - P[i]
        /\ Beyond(t, k) <= Len(t) =>
             IsEdit(c[k].edit, s, o, n, P[i], P[Beyond(t, i)], P[Beyond(t, k)])
        /\ ~c[k].live => Behind(o, P[Beyond(t, k)]) \/ P[Beyond(t, i)] + t[i].look <= s
        /\ c[k].live => c[i].edited
    BY <2>5 DEF KidIs
  <2>7. i \in 1 .. j - 1 /\ j \in Kids(t, i)
    BY <1>1, <1>4, <2>1, <2>6, NextKid
  <2>8. j <= Len(t)
    BY <1>1
  <2>9. P[j] > 0
    BY <1>0, <2>2, <2>3, <2>8, SoundTreeIs
  <2>10. c[k].live \in BOOLEAN
    BY <1>1, <1>2, <2>2 DEF EditedNodes
  <2>11. PICK live : live = c[k].live
    OBVIOUS
  <2>12. PICK left : left = c[k].right
    OBVIOUS
  <2>13. PICK edit : edit = c[k].edit
    OBVIOUS
  <2>14. c[j] = EditChild(t[j], left, edit, live, FALSE)
    <3>1. j \in Nat /\ j # 1
      BY <1>1
    <3>2. EditOf(t, e, c, j) = EditChild(t[j], c[k].right, c[k].edit, c[k].live, FALSE)
      BY <1>4, <2>1, <3>1 DEF EditOf
    <3>3. QED
      BY <1>2, <2>11, <2>12, <2>13, <3>2
  <2>15. IsStep(text, t, P, e, s, o, n, c, j, i, left, edit, live, FALSE)
    BY <2>2, <2>6, <2>7, <2>8, <2>9, <2>10, <2>11, <2>12, <2>13, <2>14 DEF IsStep
  <2>16. QED
    BY <2>15, EditStep
<1>5. QED
  BY <1>3, <1>4

(* Every node is given the part of the edit that lies in it, and is left   *)
(* alone only when the edit does not reach what its lexers have read.      *)
LEMMA NodesAreEdited ==
  ASSUME NEW text, NEW t, NEW P, NEW e, NEW s, NEW o, NEW n, NEW c,
         IsEditing(text, t, P, e, s, o, n, c), NEW j \in DOMAIN t
  PROVE  NodeIsEdited(t, P, s, o, n, c, j)
<1>1. Len(t) \in Nat /\ DOMAIN t = 1 .. Len(t)
  <2>1. IsForest(t)
    BY DEF IsEditing, SoundTree, Fits, IsSyntaxTree, IsTree
  <2>2. QED
    BY <2>1 DEF IsForest
<1> DEFINE Good(k) == NodeIsEdited(t, P, s, o, n, c, k)
           S == {k \in Nat : \A i \in 1 .. k : i \in DOMAIN t => Good(i)}
<1>2. 0 \in S
  OBVIOUS
<1>3. \A k \in Nat : k \in S => k + 1 \in S
  <2> SUFFICES ASSUME NEW k \in Nat, k \in S
               PROVE  k + 1 \in S
    OBVIOUS
  <2>1. ASSUME k + 1 \in DOMAIN t
        PROVE  Good(k + 1)
    <3>1. CASE k = 0
      BY <3>1, RootIsEdited
    <3>2. CASE k # 0
      <4>1. PICK m \in DOMAIN t : m = k + 1 /\ m > 1
        BY <2>1, <3>2
      <4>2. \A i \in 1 .. m - 1 : i \in 1 .. k /\ i \in DOMAIN t
        BY <1>1, <4>1
      <4>3. \A i \in 1 .. m - 1 : NodeIsEdited(t, P, s, o, n, c, i)
        BY <4>2
      <4>4. NodeIsEdited(t, P, s, o, n, c, m)
        BY <4>1, <4>3, NextIsEdited
      <4>5. QED
        BY <4>1, <4>4
    <3>3. QED
      BY <3>1, <3>2
  <2>2. \A i \in 1 .. k + 1 : i \in 1 .. k \/ i = k + 1
    OBVIOUS
  <2> HIDE DEF Good
  <2>3. QED
    BY <2>1, <2>2
<1>4. Nat \subseteq S
  <2> HIDE DEF S
  <2> QED BY <1>2, <1>3, Inductive
<1>5. j \in S /\ j \in 1 .. j
  BY <1>1, <1>4
<1>6. QED
  BY <1>5

(* Below a node that is passed over, every node is.                        *)
LEMMA NotEditedBelow ==
  ASSUME NEW text, NEW t, NEW P, NEW e, NEW s, NEW o, NEW n, NEW c,
         IsEditing(text, t, P, e, s, o, n, c), NEW a \in DOMAIN t, ~c[a].edited,
         NEW j \in Below(t, a)
  PROVE  ~c[j].edited
<1>1. IsForest(t) /\ Len(t) \in Nat /\ DOMAIN t = 1 .. Len(t)
  <2>1. IsForest(t)
    BY DEF IsEditing, SoundTree, Fits, IsSyntaxTree, IsTree
  <2>2. QED
    BY <2>1 DEF IsForest
<1> DEFINE S == {k \in Nat : \A i \in 1 .. k : i \in Below(t, a) => ~c[i].edited}
<1>2. 0 \in S
  OBVIOUS
<1>3. \A k \in Nat : k \in S => k + 1 \in S
  <2> SUFFICES ASSUME NEW k \in Nat, k \in S
               PROVE  k + 1 \in S
    OBVIOUS
  <2>1. ASSUME k + 1 \in Below(t, a)
        PROVE  ~c[k + 1].edited
    <3>1. PICK m \in DOMAIN t : m = k + 1 /\ m > a /\ m < Beyond(t, a) /\ m \in Below(t, a)
      BY <1>1, <2>1, NodeFacts
    <3>2. m > 1 /\ a \in Nat /\ m \in Nat
      BY <1>1, <3>1
    <3>3. PICK i : KidIs(t, P, s, o, n, c, m, i)
      BY <3>2, NodesAreEdited DEF NodeIsEdited
    <3>4. i \in 1 .. m - 1 /\ m \in Kids(t, i) /\ (c[m].edited => c[i].edited)
      BY <3>3 DEF KidIs
    <3>5. ~(a \in i + 1 .. m - 1)
      BY <3>1, <3>4 DEF Kids
    <3>6. i = a \/ (a < i /\ i < m)
      BY <3>1, <3>2, <3>4, <3>5
    <3>7. CASE i = a
      BY <3>1, <3>4, <3>7
    <3>8. CASE a < i /\ i < m
      <4>1. Beyond(t, a) \in Int
        BY <1>1, NodeFacts
      <4>2. i \in Below(t, a)
        BY <1>1, <3>1, <3>4, <3>8, <4>1, NodeFacts
      <4>3. i \in 1 .. k
        BY <3>1, <3>4
      <4>4. ~c[i].edited
        BY <4>2, <4>3
      <4>5. QED
        BY <3>1, <3>4, <4>4
    <3>9. QED
      BY <3>6, <3>7, <3>8
  <2>2. \A i \in 1 .. k + 1 : i \in 1 .. k \/ i = k + 1
    OBVIOUS
  <2>3. QED
    BY <2>1, <2>2
<1>4. Nat \subseteq S
  <2> HIDE DEF S
  <2> QED BY <1>2, <1>3, Inductive
<1>5. j \in Nat /\ j \in 1 .. j
  BY <1>1, NodeFacts
<1>6. j \in S
  BY <1>4, <1>5
<1>7. QED
  BY <1>5, <1>6

(***************************************************************************)
(* The new length of a node, and the new places.                           *)
(***************************************************************************)
Minus(x, y) == IF y <= x THEN x - y ELSE x - y + Width

(* Minus is subtraction modulo the width.                                  *)
LEMMA MinusLength ==
  ASSUME NEW x \in Lengths, NEW y \in Lengths, NEW z, z = length_sub(x, y)
  PROVE  z \in Lengths /\ z.b = Minus(x.b, y.b)
BY LengthFacts DEF Minus

(* What Reshape adds and takes away, rearranged.                           *)
LEMMA Rearranged ==
  ASSUME NEW a \in Positions, NEW b \in Positions, NEW c \in Positions, NEW d \in Positions,
         Plus(a, b) + c - d \in Positions
  PROVE  /\ Plus(Plus(c, Minus(a, d)), b) = Plus(a, b) + c - d
         /\ Plus(c, Minus(b, Minus(d, a))) = Plus(a, b) + c - d
         /\ Plus(a, Plus(Minus(c, a), Minus(b, Minus(d, a)))) = Plus(a, b) + c - d
<1>1. PICK w \in Nat \ {0} : w = Width
  BY WidthIsPositive
<1>2. a \in 0 .. w - 1 /\ b \in 0 .. w - 1 /\ c \in 0 .. w - 1 /\ d \in 0 .. w - 1
      /\ Plus(a, b) + c - d \in 0 .. w - 1
  BY <1>1 DEF Positions
<1>3. Plus(Plus(c, Minus(a, d)), b) = Plus(a, b) + c - d
  BY <1>1, <1>2 DEF Plus, Minus
<1>4. Plus(c, Minus(b, Minus(d, a))) = Plus(a, b) + c - d
  BY <1>1, <1>2 DEF Plus, Minus
<1>5. Plus(a, Plus(Minus(c, a), Minus(b, Minus(d, a)))) = Plus(a, b) + c - d
  BY <1>1, <1>2 DEF Plus, Minus
<1>6. QED
  BY <1>3, <1>4, <1>5

(* An edit that reaches a node changes its length by what it inserts less  *)
(* what it removes, wherever the border of its padding is.                 *)
LEMMA ReshapeTotal ==
  ASSUME NEW m \in TreeNode, NEW e \in Edits, NEW l, l = Total(m).b,
         l + e.new.b - e.old.b \in Positions,
         e.start.b >= l /\ ~(e.start.b = l /\ e.old.b = e.start.b) => e.new.b = e.old.b
  PROVE  Total(Reshape(m, e)).b = l + e.new.b - e.old.b
<1>1. e.start \in Lengths /\ e.old \in Lengths /\ e.new \in Lengths /\ m.pad \in Lengths /\ m.size \in Lengths
  BY DEF Edits, TreeNode
<1>2. PICK a \in Positions : a = m.pad.b
  BY <1>1, PlusLength
<1>3. PICK b \in Positions : b = m.size.b
  BY <1>1, PlusLength
<1>4. PICK c \in Positions : c = e.new.b
  BY <1>1, PlusLength
<1>5. PICK d \in Positions : d = e.old.b
  BY <1>1, PlusLength
<1>6. PICK f \in Positions : f = e.start.b
  BY <1>1, PlusLength
<1>7. l = Plus(a, b)
  BY <1>1, <1>2, <1>3, PlusLength DEF Total
<1>8. Plus(a, b) + c - d \in Positions
  BY <1>4, <1>5, <1>7
<1>9. /\ Plus(Plus(c, Minus(a, d)), b) = l + c - d
      /\ Plus(c, Minus(b, Minus(d, a))) = l + c - d
      /\ Plus(a, Plus(Minus(c, a), Minus(b, Minus(d, a)))) = l + c - d
  BY <1>7, <1>8, Rearranged
<1>10. PICK p1 \in Lengths : p1 = length_add(e.new, length_sub(m.pad, e.old)) /\ p1.b = Plus(c, Minus(a, d))
  <2>1. PICK x \in Lengths : x = length_sub(m.pad, e.old) /\ x.b = Minus(a, d)
    BY <1>1, <1>2, <1>5, MinusLength
  <2>2. length_add(e.new, x) \in Lengths /\ length_add(e.new, x).b = Plus(c, Minus(a, d))
    <3>1. PICK z : z = length_add(e.new, x)
      OBVIOUS
    <3>2. z \in Lengths
      BY <1>1, <2>1, <3>1, LengthFacts
    <3>3. z.b = Plus(e.new.b, x.b)
      BY <1>1, <2>1, <3>1, AddIsPlus
    <3>4. QED
      BY <1>4, <2>1, <3>1, <3>2, <3>3
  <2>3. QED
    BY <2>1, <2>2
<1>11. PICK s2 \in Lengths : s2 = length_sub(m.size, length_sub(e.old, m.pad)) /\ s2.b = Minus(b, Minus(d, a))
  <2>1. PICK x \in Lengths : x = length_sub(e.old, m.pad) /\ x.b = Minus(d, a)
    BY <1>1, <1>2, <1>5, MinusLength
  <2>2. length_sub(m.size, x) \in Lengths /\ length_sub(m.size, x).b = Minus(b, Minus(d, a))
    BY <1>1, <1>3, <2>1, MinusLength
  <2>3. QED
    BY <2>1, <2>2
<1>12. PICK s3 \in Lengths :
         /\ s3 = length_add(length_sub(e.new, m.pad), length_sub(m.size, length_sub(e.old, m.pad)))
         /\ s3.b = Plus(Minus(c, a), Minus(b, Minus(d, a)))
  <2>1. PICK x \in Lengths : x = length_sub(e.new, m.pad) /\ x.b = Minus(c, a)
    BY <1>1, <1>2, <1>4, MinusLength
  <2>2. length_add(x, s2) \in Lengths /\ length_add(x, s2).b = Plus(Minus(c, a), Minus(b, Minus(d, a)))
    BY <1>11, <2>1, PlusLength
  <2>3. QED
    BY <1>11, <2>1, <2>2
<1>13. d \in Int /\ a \in Int /\ f \in Int /\ l \in Int /\ c \in Int /\ b \in Int
  <2>1. l \in Positions
    BY <1>7, PlusFacts
  <2>2. QED
    BY <2>1, WidthIsPositive DEF Positions
<1>14. CASE d <= a
  <2>1. Reshape(m, e) = [m EXCEPT !.pad = p1]
    BY <1>2, <1>5, <1>10, <1>13, <1>14 DEF Reshape
  <2>2. Reshape(m, e).pad = p1 /\ Reshape(m, e).size = m.size
    BY <2>1 DEF TreeNode
  <2>3. Total(Reshape(m, e)).b = Plus(p1.b, b)
    <3>1. PICK z : z = length_add(p1, m.size)
      OBVIOUS
    <3>2. Total(Reshape(m, e)) = z
      BY <2>2, <3>1 DEF Total
    <3>3. z.b = Plus(p1.b, m.size.b)
      BY <1>1, <1>10, <3>1, AddIsPlus
    <3>4. QED
      BY <1>3, <3>2, <3>3
  <2>4. QED
    BY <1>4, <1>5, <1>9, <1>10, <2>3
<1>15. CASE d > a /\ f < a
  <2>1. Reshape(m, e) = [m EXCEPT !.size = s2, !.pad = e.new]
    BY <1>2, <1>5, <1>6, <1>11, <1>13, <1>15 DEF Reshape
  <2>2. Reshape(m, e).pad = e.new /\ Reshape(m, e).size = s2
    BY <2>1 DEF TreeNode
  <2>3. Total(Reshape(m, e)).b = Plus(c, s2.b)
    <3>1. PICK z : z = length_add(e.new, s2)
      OBVIOUS
    <3>2. Total(Reshape(m, e)) = z
      BY <2>2, <3>1 DEF Total
    <3>3. z.b = Plus(e.new.b, s2.b)
      BY <1>1, <1>11, <3>1, AddIsPlus
    <3>4. QED
      BY <1>4, <3>2, <3>3
  <2>4. QED
    BY <1>4, <1>5, <1>9, <1>11, <2>3
<1>16. CASE d > a /\ f >= a /\ (f < l \/ (f = l /\ d = f))
  <2>1. Reshape(m, e) = [m EXCEPT !.size = s3]
    BY <1>2, <1>5, <1>6, <1>12, <1>13, <1>16 DEF Reshape, IsInsertion
  <2>2. Reshape(m, e).pad = m.pad /\ Reshape(m, e).size = s3
    BY <2>1 DEF TreeNode
  <2>3. Total(Reshape(m, e)).b = Plus(a, s3.b)
    <3>1. PICK z : z = length_add(m.pad, s3)
      OBVIOUS
    <3>2. Total(Reshape(m, e)) = z
      BY <2>2, <3>1 DEF Total
    <3>3. z.b = Plus(m.pad.b, s3.b)
      BY <1>1, <1>12, <3>1, AddIsPlus
    <3>4. QED
      BY <1>2, <3>2, <3>3
  <2>4. QED
    BY <1>4, <1>5, <1>9, <1>12, <2>3
<1>17. CASE d > a /\ f >= a /\ ~(f < l \/ (f = l /\ d = f))
  <2>1. Reshape(m, e) = m
    BY <1>2, <1>5, <1>6, <1>13, <1>17 DEF Reshape, IsInsertion
  <2>2. e.new.b = e.old.b
    BY <1>5, <1>6, <1>13, <1>17
  <2>3. c = d
    BY <1>4, <1>5, <2>2
  <2>4. Total(Reshape(m, e)).b = l
    BY <2>1
  <2>5. l + e.new.b - e.old.b = l
    BY <1>4, <1>5, <1>13, <2>3
  <2>6. QED
    BY <2>4, <2>5
<1>18. QED
  BY <1>13, <1>14, <1>15, <1>16, <1>17

\* Where the edit moves what begins at q.
NewPlace(s, o, n, q) == IF Waits(s, o, q) THEN q ELSE IF q <= o THEN n ELSE q + n - o

\* The text ends at l.
NewPlaces(t, P, s, o, n, l) ==
  [j \in 1 .. Len(t) + 1 |-> IF j <= Len(t) THEN NewPlace(s, o, n, P[j]) ELSE l + n - o]

(* A node from L to R, with what follows at x in the new text.             *)
InShape(s, o, n, l, L, R, x) ==
  /\ s \in Nat /\ o \in Nat /\ n \in Nat /\ l \in Nat /\ L \in Nat /\ R \in Nat
  /\ s <= o /\ o <= l /\ s <= n /\ L <= R /\ R <= l
  /\ (R > 0 /\ x = NewPlace(s, o, n, R)) \/ (R = l /\ x = l + n - o)

(* What a node measures after the edit is the distance of the places its   *)
(* ends are moved to.                                                      *)
LEMMA NewSize ==
  ASSUME NEW s, NEW o, NEW n, NEW l, NEW L, NEW R, NEW x, InShape(s, o, n, l, L, R, x)
  PROVE  /\ NewPlace(s, o, n, L) \in Nat /\ x \in Nat /\ NewPlace(s, o, n, L) <= x
         /\ x <= l + n - o
         /\ x - NewPlace(s, o, n, L) = (R - L) + NewIn(s, o, n, L, R, L) - OldIn(s, o, L, R)
         /\ StartIn(s, L) >= R - L /\ ~(StartIn(s, L) = R - L /\ OldIn(s, o, L, R) = StartIn(s, L))
              => NewIn(s, o, n, L, R, L) = OldIn(s, o, L, R)
         /\ Behind(o, L) => NewPlace(s, o, n, L) = L + n - o /\ x = R + n - o
         /\ R < s => NewPlace(s, o, n, L) = L /\ x = R
<1> USE DEF InShape
<1>1. NewPlace(s, o, n, L) \in Nat /\ x \in Nat /\ NewPlace(s, o, n, L) <= x
  BY DEF NewPlace, Waits
<1>2. x <= l + n - o
  BY DEF NewPlace, Waits
<1>3. x - NewPlace(s, o, n, L) = (R - L) + NewIn(s, o, n, L, R, L) - OldIn(s, o, L, R)
  BY DEF NewPlace, Waits, NewIn, OldIn, StartIn
<1>4. StartIn(s, L) >= R - L /\ ~(StartIn(s, L) = R - L /\ OldIn(s, o, L, R) = StartIn(s, L))
        => NewIn(s, o, n, L, R, L) = OldIn(s, o, L, R)
  BY DEF Waits, NewIn, OldIn, StartIn
<1>5. Behind(o, L) => NewPlace(s, o, n, L) = L + n - o /\ x = R + n - o
  BY DEF NewPlace, Waits, Behind
<1>6. R < s => NewPlace(s, o, n, L) = L /\ x = R
  BY DEF NewPlace, Waits
<1>7. QED
  BY <1>1, <1>2, <1>3, <1>4, <1>5, <1>6

(* The edited nodes.                                                       *)
LEMMA EditedNode ==
  ASSUME NEW t, IsForest(t), NEW e \in Edits, NEW u, u = ts_subtree_edit(t, e),
         NEW c, c = EditChildren(t, e), NEW j \in DOMAIN t
  PROVE  /\ c[j].edited => /\ u[j].changed /\ Total(u[j]) = Total(Reshape(t[j], c[j].own))
         /\ ~c[j].edited => u[j] = t[j]
<1>1. u[j] = IF c[j].edited THEN [Reshape(t[j], c[j].own) EXCEPT !.changed = TRUE] ELSE t[j]
  BY DEF ts_subtree_edit
<1>2. CASE ~c[j].edited
  BY <1>1, <1>2
<1>3. CASE c[j].edited
  <2>1. PICK m : m = Reshape(t[j], c[j].own)
    OBVIOUS
  <2>2. m \in TreeNode
    <3>1. t[j] \in TreeNode /\ j \in 1 .. Len(t)
      BY NodeFacts
    <3>2. c[j] \in EditedNodes
      BY <3>1, EditsAre
    <3>3. c[j].own \in Edits
      BY <3>2 DEF EditedNodes
    <3>4. QED
      BY <2>1, <3>1, <3>3, ReshapeTyped
  <2>3. u[j] = [m EXCEPT !.changed = TRUE]
    BY <1>1, <1>3, <2>1, SMTT(60)
  <2>4. u[j].changed /\ u[j].pad = m.pad /\ u[j].size = m.size
    BY <2>2, <2>3 DEF TreeNode
  <2>5. QED
    BY <1>3, <2>1, <2>4 DEF Total
<1>4. QED
  BY <1>2, <1>3

(* The length of an edited node is that of what it covers in the new text. *)
IsPlaced(text, t, P, e, s, o, n, c, u, Q) ==
  /\ IsEditing(text, t, P, e, s, o, n, c)
  /\ u = ts_subtree_edit(t, e) /\ Q = NewPlaces(t, P, s, o, n, Len(text))

(* The ends of a node, and the place its end is moved to.                  *)
LEMMA PlacedShape ==
  ASSUME NEW text, NEW t, NEW P, NEW e, NEW s, NEW o, NEW n, NEW c, NEW u, NEW Q,
         IsPlaced(text, t, P, e, s, o, n, c, u, Q), NEW j \in DOMAIN t
  PROVE  /\ InShape(s, o, n, Len(text), P[j], P[Beyond(t, j)], Q[Beyond(t, j)])
         /\ Q[j] = NewPlace(s, o, n, P[j])
<1>0. /\ IsText(text) /\ SoundTree(text, t) /\ P = Pos(t) /\ Fits(text, t)
      /\ s \in Nat /\ o \in Nat /\ n \in Nat /\ s <= o /\ s <= n /\ o <= Len(text)
      /\ Q = NewPlaces(t, P, s, o, n, Len(text))
  BY DEF IsPlaced, IsEditing, SoundTree
<1>1. /\ IsForest(t) /\ Len(t) \in Nat /\ DOMAIN t = 1 .. Len(t) /\ Measured(t, P)
      /\ Len(text) \in Nat /\ P[Len(t) + 1] = Len(text)
  BY <1>0, FitsIs
<1>2. PICK N \in Nat : N = Len(t)
  BY <1>1
<1>3. PICK b \in 1 .. N + 1 : b = Beyond(t, j)
  BY <1>0, <1>1, <1>2, SoundTreeIs
<1>4. /\ P[j] \in Nat /\ P[b] \in Nat /\ P[j] <= P[b] /\ P[b] <= Len(text)
      /\ j > 1 /\ b <= Len(t) => P[b] > 0
  BY <1>0, <1>3, SoundTreeIs
<1>5. Q[j] = NewPlace(s, o, n, P[j])
  BY <1>0, <1>1, <1>2 DEF NewPlaces
<1>6. CASE b = N + 1
  <2>1. Q[b] = Len(text) + n - o
    BY <1>0, <1>2, <1>6 DEF NewPlaces
  <2>2. P[b] = Len(text)
    BY <1>1, <1>2, <1>6
  <2>3. QED
    BY <1>0, <1>1, <1>3, <1>4, <1>5, <2>1, <2>2 DEF InShape
<1>7. CASE b # N + 1
  <2>1. b <= N
    BY <1>7
  <2>2. Q[b] = NewPlace(s, o, n, P[b])
    BY <1>0, <1>2, <2>1 DEF NewPlaces
  <2>3. j # 1
    <3>1. Beyond(t, 1) = Len(t) + 1
      BY <1>0 DEF Fits, IsSyntaxTree, IsTree
    <3>2. QED
      BY <1>2, <1>3, <1>7, <3>1
  <2>4. j > 1
    BY <1>1, <2>3
  <2>5. P[b] > 0
    BY <1>2, <1>4, <2>1, <2>4
  <2>6. QED
    BY <1>0, <1>1, <1>3, <1>4, <1>5, <2>2, <2>5 DEF InShape
<1>8. QED
  BY <1>6, <1>7

(* An edited node is as long as the distance of the places its ends are    *)
(* moved to.                                                               *)
LEMMA PlacedTotal ==
  ASSUME NEW text, NEW t, NEW P, NEW e, NEW s, NEW o, NEW n, NEW c, NEW u, NEW Q,
         IsPlaced(text, t, P, e, s, o, n, c, u, Q), NEW j \in DOMAIN t
  PROVE  /\ Q[j] \in Nat /\ Q[Beyond(t, j)] \in Nat /\ Q[j] <= Q[Beyond(t, j)]
         /\ Total(u[j]).b = Q[Beyond(t, j)] - Q[j]
<1>0. /\ IsText(text) /\ SoundTree(text, t) /\ P = Pos(t) /\ Fits(text, t)
      /\ s \in Nat /\ o \in Nat /\ n \in Nat /\ e \in Edits
      /\ c = EditChildren(t, e) /\ u = ts_subtree_edit(t, e)
      /\ Len(text) + n - o < Width /\ IsEditing(text, t, P, e, s, o, n, c)
  BY DEF IsPlaced, IsEditing, SoundTree
<1>1. IsForest(t) /\ Len(t) \in Nat /\ DOMAIN t = 1 .. Len(t) /\ Len(text) \in Nat /\ Width \in Nat
  BY <1>0, FitsIs
<1>2. InShape(s, o, n, Len(text), P[j], P[Beyond(t, j)], Q[Beyond(t, j)]) /\ Q[j] = NewPlace(s, o, n, P[j])
  BY PlacedShape
<1>3. PICK l \in Nat : l = Len(text)
  BY <1>1
<1>4. PICK L \in Nat : L = P[j]
  BY <1>0, SoundTreeIs
<1>5. PICK R \in Nat : R = P[Beyond(t, j)] /\ Total(t[j]).b = R - L /\ L <= R
  BY <1>0, <1>4, SoundTreeIs
<1>6. PICK x : x = Q[Beyond(t, j)]
  OBVIOUS
<1>7. PICK y : y = Q[j]
  OBVIOUS
<1>8. InShape(s, o, n, l, L, R, x)
  BY <1>2, <1>3, <1>4, <1>5, <1>6
<1>9. y = NewPlace(s, o, n, L)
  BY <1>2, <1>4, <1>7
<1>10. y \in Nat /\ x \in Nat /\ y <= x /\ x <= l + n - o
  BY <1>8, <1>9, NewSize
<1>11. x < Width
  BY <1>0, <1>1, <1>3, <1>10
<1>12. NodeIsEdited(t, P, s, o, n, c, j)
  BY <1>0, NodesAreEdited
<1>13. IsEdit(c[j].own, s, o, n, L, R, L) /\ (~c[j].edited => Behind(o, L) \/ R + t[j].look <= s)
  BY <1>4, <1>5, <1>12 DEF NodeIsEdited, OwnIs, Far
<1>14. /\ t[j] \in TreeNode /\ t[j].look \in Nat /\ t[j].look >= 1
  BY <1>0, SoundTreeIs
<1>15. CASE ~c[j].edited
  <2>1. Total(u[j]).b = R - L
    BY <1>0, <1>1, <1>5, <1>15, EditedNode
  <2>2. Behind(o, L) \/ R < s
    BY <1>0, <1>5, <1>13, <1>14, <1>15
  <2>3. Behind(o, L) => y = L + n - o /\ x = R + n - o
    BY <1>8, <1>9, NewSize
  <2>4. R < s => y = L /\ x = R
    BY <1>8, <1>9, NewSize
  <2>5. x - y = R - L
    BY <1>0, <1>4, <1>5, <2>2, <2>3, <2>4
  <2>6. QED
    BY <1>6, <1>7, <1>10, <2>1, <2>5
<1>16. CASE c[j].edited
  <2>1. PICK own \in Edits : own = c[j].own
    BY <1>13 DEF IsEdit
  <2>2. own.start.b = StartIn(s, L) /\ own.old.b = OldIn(s, o, L, R) /\ own.new.b = NewIn(s, o, n, L, R, L)
    BY <1>13, <2>1 DEF IsEdit
  <2>3. x - y = (R - L) + NewIn(s, o, n, L, R, L) - OldIn(s, o, L, R)
    BY <1>8, <1>9, NewSize
  <2>4. PICK k : k = R - L
    OBVIOUS
  <2>5. k + own.new.b - own.old.b = x - y
    BY <2>2, <2>3, <2>4
  <2>6. x - y \in Positions
    BY <1>1, <1>10, <1>11 DEF Positions
  <2>7. StartIn(s, L) >= R - L /\ ~(StartIn(s, L) = R - L /\ OldIn(s, o, L, R) = StartIn(s, L))
          => NewIn(s, o, n, L, R, L) = OldIn(s, o, L, R)
    BY <1>8, NewSize
  <2>8. own.start.b >= k /\ ~(own.start.b = k /\ own.old.b = own.start.b) => own.new.b = own.old.b
    BY <2>2, <2>4, <2>7
  <2>9. PICK m \in TreeNode : m = t[j] /\ k = Total(m).b
    BY <1>5, <1>14, <2>4
  <2>10. Total(Reshape(m, own)).b = k + own.new.b - own.old.b
    BY <2>5, <2>6, <2>8, <2>9, ReshapeTotal
  <2>11. Total(u[j]) = Total(Reshape(t[j], c[j].own))
    BY <1>0, <1>1, <1>16, EditedNode
  <2>12. QED
    BY <1>6, <1>7, <1>10, <2>1, <2>5, <2>9, <2>10, <2>11
<1>17. QED
  BY <1>15, <1>16

(* The edited nodes lie where the edit moves them, from the start of the   *)
(* new text to its end.                                                    *)
LEMMA PlacedMeasured ==
  ASSUME NEW text, NEW t, NEW P, NEW e, NEW s, NEW o, NEW n, NEW c, NEW u, NEW Q,
         IsPlaced(text, t, P, e, s, o, n, c, u, Q)
  PROVE  /\ IsForest(u) /\ Len(u) = Len(t) /\ Measured(u, Q) /\ Pos(u) = Q
         /\ Q[Len(u) + 1] = Len(text) + n - o
<1>0. /\ IsText(text) /\ SoundTree(text, t) /\ P = Pos(t) /\ Fits(text, t)
      /\ s \in Nat /\ o \in Nat /\ n \in Nat /\ e \in Edits /\ o <= Len(text)
      /\ u = ts_subtree_edit(t, e) /\ Q = NewPlaces(t, P, s, o, n, Len(text))
      /\ Len(text) + n - o < Width
  BY DEF IsPlaced, IsEditing, SoundTree
<1>1. /\ IsForest(t) /\ Len(t) \in Nat /\ DOMAIN t = 1 .. Len(t) /\ Len(text) \in Nat
      /\ Measured(t, P) /\ Len(t) >= 2
  BY <1>0, FitsIs
<1>2. PICK N \in Nat : N = Len(t) /\ N >= 2
  BY <1>1
<1>3. /\ IsForest(u) /\ Len(u) = Len(t)
      /\ \A j \in 1 .. Len(t) : Beyond(u, j) = Beyond(t, j) /\ (Leaf(u[j]) <=> Leaf(t[j]))
  BY <1>0, <1>1, EditIs
<1>4. DOMAIN u = 1 .. Len(u)
  BY <1>3 DEF IsForest
<1>5. PICK l \in Nat : l = Len(text) + n - o
  <2>1. PICK k \in Nat : k = Len(text)
    BY <1>1
  <2>2. s \in Nat /\ o \in Nat /\ n \in Nat /\ o <= k
    BY <1>0, <2>1
  <2>3. k + n - o \in Nat
    BY <2>2
  <2>4. QED
    BY <2>1, <2>3
<1>6. Q = [j \in 1 .. N + 1 |-> IF j <= N THEN NewPlace(s, o, n, P[j]) ELSE l]
  BY <1>0, <1>2, <1>5 DEF NewPlaces
<1>7. Q[N + 1] = l
  BY <1>2, <1>6
<1>8. ASSUME NEW j \in 1 .. N
      PROVE  /\ Q[j] \in Nat /\ Q[Beyond(t, j)] = Q[j] + Total(u[j]).b
  <2>1. j \in DOMAIN t
    BY <1>1, <1>2
  <2>2. /\ Q[j] \in Nat /\ Q[Beyond(t, j)] \in Nat
        /\ Total(u[j]).b = Q[Beyond(t, j)] - Q[j]
    BY <2>1, PlacedTotal
  <2>3. QED
    BY <2>2
<1>9. Q \in [1 .. N + 1 -> Nat]
  <2>1. \A j \in 1 .. N + 1 : Q[j] \in Nat
    <3>1. TAKE j \in 1 .. N + 1
    <3>2. CASE j = N + 1
      BY <1>7, <3>2
    <3>3. CASE j # N + 1
      <4>1. j \in 1 .. N
        BY <1>2, <3>3
      <4>2. QED
        BY <1>8, <4>1
    <3>4. QED
      BY <3>2, <3>3
  <2>2. Q = [j \in 1 .. N + 1 |-> Q[j]]
    BY <1>6
  <2>3. QED
    BY <2>1, <2>2
<1>10. Q[1] = 0
  <2>1. P[1] = 0
    BY <1>1 DEF Measured
  <2>2. Q[1] = NewPlace(s, o, n, 0)
    BY <1>2, <1>6, <2>1
  <2>3. QED
    BY <1>0, <2>2 DEF NewPlace, Waits
<1>11. \A i \in DOMAIN u : Q[Beyond(u, i)] = Q[i] + Total(u[i]).b
  BY <1>2, <1>3, <1>4, <1>8
<1>12. \A i \in DOMAIN u : ~Leaf(u[i]) => Q[i + 1] = Q[i]
  <2>1. TAKE i \in DOMAIN u
  <2>2. HAVE ~Leaf(u[i])
  <2>3. i \in DOMAIN t /\ i \in 1 .. N /\ ~Leaf(t[i])
    BY <1>1, <1>2, <1>3, <1>4, <2>2
  <2>4. i + 1 <= N
    <3>1. i + 1 \in 1 .. Len(t)
      BY <1>1, <2>3, NodeFacts
    <3>2. QED
      BY <1>2, <3>1
  <2>5. P[i + 1] = P[i]
    BY <1>1, <2>3 DEF Measured
  <2>6. Q[i] = NewPlace(s, o, n, P[i]) /\ Q[i + 1] = NewPlace(s, o, n, P[i + 1])
    BY <1>6, <2>3, <2>4
  <2>7. QED
    BY <2>5, <2>6
<1>13. Measured(u, Q)
  BY <1>2, <1>3, <1>9, <1>10, <1>11, <1>12 DEF Measured
<1>14. Q[Len(u) + 1] = l /\ l < Width
  BY <1>0, <1>2, <1>3, <1>5, <1>7
<1>15. Pos(u) = Q
  BY <1>13, <1>14, MeasureIs
<1>16. QED
  BY <1>3, <1>5, <1>13, <1>14, <1>15

(***************************************************************************)
(* What is lexed at a place depends on the characters that were read only. *)
(***************************************************************************)
\* The m characters from p on in one text and from q on in another are the same.
Agree(x, p, y, q, m) == \A i \in 0 .. m - 1 : Character(x, p + i) = Character(y, q + i)

(* Texts that agree on a span agree on what is inside it.                  *)
LEMMA AgreeFrom ==
  ASSUME NEW x, NEW p \in Nat, NEW y, NEW q \in Nat, NEW m \in Nat, Agree(x, p, y, q, m),
         NEW a \in 0 .. m, NEW k \in Nat, k <= m - a
  PROVE  Agree(x, p + a, y, q + a, k)
<1> SUFFICES ASSUME NEW i \in 0 .. k - 1
             PROVE  Character(x, p + a + i) = Character(y, q + a + i)
  BY DEF Agree
<1>1. a + i \in 0 .. m - 1
  OBVIOUS
<1>2. PICK j \in 0 .. m - 1 : j = a + i
  BY <1>1
<1>3. Character(x, p + j) = Character(y, q + j)
  BY DEF Agree
<1>4. p + j = p + a + i /\ q + j = q + a + i
  BY <1>2
<1>5. QED
  BY <1>3, <1>4

(* A run of one character ends at the same place.                          *)
LEMMA PastAgrees ==
  ASSUME NEW x, NEW p \in Nat, NEW y, NEW q \in Nat, NEW m \in Nat, Agree(x, p, y, q, m),
         IsText(x), IsText(y), NEW ch \in Characters, Past(x, p, ch) < p + m
  PROVE  Past(y, q, ch) - q = Past(x, p, ch) - p
<1>1. PICK w \in Nat : w = Past(x, p, ch)
  BY PastIs
<1>2. p <= w /\ Character(x, w) # ch /\ \A i \in p .. w - 1 : Character(x, i) = ch
  BY <1>1, PastIs
<1>3. PICK z \in Nat : z = Past(y, q, ch)
  BY PastIs
<1>4. q <= z /\ Character(y, z) # ch /\ \A i \in q .. z - 1 : Character(y, i) = ch
  BY <1>3, PastIs
<1>5. \A i \in 0 .. m - 1 : Character(x, p + i) = Character(y, q + i)
  BY DEF Agree
<1>6. z - q <= w - p
  <2> SUFFICES ASSUME w - p < z - q
               PROVE  FALSE
    BY <1>2, <1>4
  <2>1. PICK i \in 0 .. m - 1 : i = w - p
    BY <1>1, <1>2
  <2>2. Character(x, p + i) = Character(y, q + i)
    BY <1>5
  <2>3. p + i = w /\ q + i \in q .. z - 1
    BY <1>2, <2>1
  <2>4. QED
    BY <1>2, <1>4, <2>2, <2>3
<1>7. w - p <= z - q
  <2> SUFFICES ASSUME z - q < w - p
               PROVE  FALSE
    BY <1>2, <1>4
  <2>1. PICK i \in 0 .. m - 1 : i = z - q
    BY <1>1, <1>2, <1>4
  <2>2. Character(x, p + i) = Character(y, q + i)
    BY <1>5
  <2>3. q + i = z /\ p + i \in p .. w - 1
    BY <1>4, <2>1
  <2>4. QED
    BY <1>2, <1>4, <2>2, <2>3
<1>8. QED
  BY <1>1, <1>3, <1>6, <1>7

(* The rows of blanks.                                                     *)
LEMMA RowsOfBlanks ==
  ASSUME NEW x, IsText(x), NEW p \in Nat
  PROVE  RowsIn(x, p, Past(x, p, "n")) = Past(x, p, "n") - p
<1>1. PICK w \in Nat : w = Past(x, p, "n")
  BY PastIs DEF Characters
<1>2. p <= w /\ \A i \in p .. w - 1 : Character(x, i) = "n"
  BY <1>1, PastIs DEF Characters
<1>3. {i \in p .. w - 1 : Character(x, i) = "n"} = p .. w - 1
  BY <1>2
<1>4. RowsIn(x, p, w) = Cardinality(p .. w - 1)
  BY <1>3 DEF RowsIn
<1>5. Cardinality(p .. w - 1) = w - p
  <2>1. PICK v \in Int : v = w - 1
    OBVIOUS
  <2>2. Cardinality(p .. v) = IF p > v THEN 0 ELSE v - p + 1
    BY <2>1, FS_Interval
  <2>3. QED
    BY <1>2, <2>1, <2>2
<1>6. QED
  BY <1>1, <1>4, <1>5

(* Tokens with the same measures are the same.                             *)
LEMMA TokenAgrees ==
  ASSUME NEW sym, NEW x, NEW p \in Nat, NEW q \in Nat, NEW e \in Nat, NEW r \in Nat,
         NEW y, NEW p1 \in Nat, NEW q1 \in Nat, NEW e1 \in Nat, NEW r1 \in Nat,
         q1 - p1 = q - p, e1 - q1 = e - q, r1 - e1 = r - e,
         RowsIn(y, p1, q1) = RowsIn(x, p, q)
  PROVE  Token(sym, y, p1, q1, e1, r1) = Token(sym, x, p, q, e, r)
  BY DEF Token

(* Where two texts agree on all that a token was read from, the lexer      *)
(* gives the same token.                                                   *)
LEMMA LexAgrees ==
  ASSUME NEW x, NEW p \in Nat, NEW y, NEW q \in Nat, NEW n, n = Lex(x, p),
         IsText(x), IsText(y), p < Width, q < Width,
         NEW m \in Nat, m = Total(n).b + n.look, Agree(x, p, y, q, m)
  PROVE  Lex(y, q) = n
<1>1. PICK w \in Nat, e \in Nat, r \in Nat, sym \in {"id", "dot", "dots", "end"} :
           LexedAs(x, p, sym, w, e, r)
  BY LexIs
<1>2. /\ n = Token(sym, x, p, w, e, r)
      /\ p <= w /\ w <= e /\ e < r
      /\ w = Past(x, p, "n")
      /\ sym = "end" => e = w /\ r = w + 1 /\ w >= Len(x)
      /\ sym # "end" => w < e
      /\ sym = "id" => Character(x, w) = "a" /\ e = Past(x, w, "a") /\ r = e + 1
      /\ sym = "dots" =>
         /\ Character(x, w) = "." /\ e = w + 3 /\ r = w + 4 /\ e <= Past(x, w, ".")
      /\ sym = "dot" =>
         /\ Character(x, w) = "." /\ e = w + 1 /\ r = Past(x, w, ".") + 1 /\ r < w + 4
  BY <1>1 DEF LexedAs
<1>3. m = r - p
  <2>1. n.look = r - e
    BY <1>2 DEF Token
  <2>2. n.pad.b = w - p /\ n.size.b = e - w
    BY <1>2 DEF Token
  <2>3. Total(n).b = n.pad.b + n.size.b
    BY LexMeasures
  <2>4. QED
    BY <1>2, <2>1, <2>2, <2>3
<1>4. "a" \in Characters /\ "." \in Characters /\ "n" \in Characters
  BY DEF Characters
<1>5. PICK v \in Nat : v = Past(y, q, "n")
  BY <1>4, PastIs
<1>6. v - q = w - p /\ q <= v
  <2>1. Past(x, p, "n") < p + m
    BY <1>2, <1>3
  <2>2. Past(y, q, "n") - q = Past(x, p, "n") - p
    BY <1>4, <2>1, PastAgrees
  <2>3. QED
    BY <1>2, <1>5, <2>2
<1>7. RowsIn(y, q, v) = RowsIn(x, p, w)
  <2>1. RowsIn(y, q, v) = v - q /\ RowsIn(x, p, w) = w - p
    BY <1>2, <1>5, RowsOfBlanks
  <2>2. QED
    BY <1>6, <2>1
<1>8. PICK a \in 0 .. m : a = w - p
  BY <1>2, <1>3
<1>9. PICK k \in Nat : k = r - w /\ k <= m - a /\ k >= 1
  BY <1>2, <1>3, <1>8, SMTT(60)
<1>10. Agree(x, w, y, v, k)
  <2>1. Agree(x, p + a, y, q + a, k)
    BY <1>9, AgreeFrom
  <2>2. p + a = w /\ q + a = v
    BY <1>2, <1>6, <1>8
  <2>3. QED
    BY <2>1, <2>2
<1>11. \A i \in 0 .. k - 1 : Character(x, w + i) = Character(y, v + i)
  BY <1>10 DEF Agree
<1>12. Character(y, v) = Character(x, w)
  <2>1. PICK i \in 0 .. k - 1 : i = 0
    BY <1>9
  <2>2. Character(x, w + i) = Character(y, v + i)
    BY <1>11
  <2>3. w + i = w /\ v + i = v
    BY <2>1
  <2>4. QED
    BY <2>2, <2>3
<1>13. PICK f : f = Past(y, v, IF Character(y, v) = "a" THEN "a" ELSE ".")
  OBVIOUS
<1>14. Lex(y, q) = CASE Character(y, v) = "eof" -> Token("end", y, q, v, v, v + 1)
          [] Character(y, v) = "a"   -> Token("id", y, q, v, f, f + 1)
          [] Character(y, v) = "." /\ f >= v + 3 -> Token("dots", y, q, v, v + 3, v + 4)
          [] Character(y, v) = "." /\ f < v + 3  -> Token("dot", y, q, v, v + 1, f + 1)
  BY <1>5, <1>13 DEF Lex
<1>15. CASE sym = "end"
  <2>1. Character(y, v) = "eof"
    BY <1>2, <1>12, <1>15, CharacterIs
  <2>2. Lex(y, q) = Token("end", y, q, v, v, v + 1)
    BY <1>14, <2>1
  <2>3. Token("end", y, q, v, v, v + 1) = Token("end", x, p, w, e, r)
    <3>1. v + 1 \in Nat /\ v - q = w - p /\ v - v = e - w /\ (v + 1) - v = r - e
      BY <1>2, <1>6, <1>15
    <3>2. QED
      BY <1>7, <3>1, TokenAgrees
  <2>4. QED
    BY <1>2, <1>15, <2>2, <2>3
<1>16. CASE sym = "id"
  <2>1. Character(y, v) = "a"
    BY <1>2, <1>12, <1>16
  <2>2. f - v = e - w /\ f \in Nat
    <3>1. Past(x, w, "a") < w + k
      BY <1>2, <1>9, <1>16
    <3>2. Past(y, v, "a") - v = Past(x, w, "a") - w
      BY <1>4, <1>10, <3>1, PastAgrees
    <3>3. f = Past(y, v, "a")
      BY <1>13, <2>1
    <3>4. f \in Nat
      BY <1>4, <3>3, PastIs
    <3>5. QED
      BY <1>2, <1>16, <3>2, <3>3, <3>4
  <2>3. Lex(y, q) = Token("id", y, q, v, f, f + 1)
    BY <1>14, <2>1
  <2>4. Token("id", y, q, v, f, f + 1) = Token("id", x, p, w, e, r)
    <3>1. f + 1 \in Nat /\ v - q = w - p /\ f - v = e - w /\ (f + 1) - f = r - e
      BY <1>2, <1>6, <1>16, <2>2
    <3>2. QED
      BY <1>7, <2>2, <3>1, TokenAgrees
  <2>5. QED
    BY <1>2, <1>16, <2>3, <2>4
<1>17. CASE sym = "dots"
  <2>1. Character(y, v) = "." /\ f = Past(y, v, ".")
    BY <1>2, <1>12, <1>13, <1>17
  <2>2. /\ f \in Nat /\ v <= f /\ Character(y, f) # "."
    BY <1>4, <2>1, PastIs
  <2>3. f >= v + 3
    <3> SUFFICES ASSUME f < v + 3
                 PROVE  FALSE
      BY <2>2
    <3>1. PICK i \in 0 .. k - 1 : i = f - v /\ i < 3
      BY <1>2, <1>9, <1>17, <2>2
    <3>2. v + i = f /\ w + i \in w .. Past(x, w, ".") - 1
      <4>1. PICK z \in Nat : z = Past(x, w, ".")
        BY <1>4, PastIs
      <4>2. w + 3 <= z
        BY <1>2, <1>17, <4>1
      <4>3. i \in 0 .. 2
        BY <3>1
      <4>4. w + i \in w .. z - 1
        BY <4>2, <4>3
      <4>5. v + i = f
        BY <2>2, <3>1
      <4>6. QED
        BY <4>1, <4>4, <4>5
    <3>3. Character(x, w + i) = "."
      BY <1>4, <3>2, PastIs
    <3>4. QED
      BY <1>11, <2>2, <3>2, <3>3
  <2>4. Lex(y, q) = Token("dots", y, q, v, v + 3, v + 4)
    <3>1. Character(y, v) = "." /\ ~(f < v + 3)
      BY <2>1, <2>2, <2>3
    <3>2. QED
      BY <1>14, <2>3, <3>1
  <2>5. Token("dots", y, q, v, v + 3, v + 4) = Token("dots", x, p, w, e, r)
    <3>1. v + 3 \in Nat /\ v + 4 \in Nat /\ v - q = w - p /\ (v + 3) - v = e - w
          /\ (v + 4) - (v + 3) = r - e
      BY <1>2, <1>6, <1>17
    <3>2. QED
      BY <1>7, <3>1, TokenAgrees
  <2>6. QED
    BY <1>2, <1>17, <2>4, <2>5
<1>18. CASE sym = "dot"
  <2>1. Character(y, v) = "." /\ f = Past(y, v, ".")
    BY <1>2, <1>12, <1>13, <1>18
  <2>2. PICK g \in Nat : g = Past(x, w, ".")
    BY <1>4, PastIs
  <2>3. f - v = g - w /\ f \in Nat
    <3>1. Past(x, w, ".") < w + k
      BY <1>2, <1>9, <1>18, <2>2
    <3>2. Past(y, v, ".") - v = Past(x, w, ".") - w
      BY <1>4, <1>10, <3>1, PastAgrees
    <3>3. f \in Nat
      BY <1>4, <2>1, PastIs
    <3>4. QED
      BY <2>1, <2>2, <3>2, <3>3
  <2>4. f < v + 3
    BY <1>2, <1>18, <2>2, <2>3
  <2>5. Lex(y, q) = Token("dot", y, q, v, v + 1, f + 1)
    <3>1. ~(f >= v + 3)
      BY <2>3, <2>4
    <3>2. QED
      BY <1>14, <2>1, <2>4, <3>1
  <2>6. Token("dot", y, q, v, v + 1, f + 1) = Token("dot", x, p, w, e, r)
    <3>1. v + 1 \in Nat /\ f + 1 \in Nat /\ v - q = w - p /\ (v + 1) - v = e - w
          /\ (f + 1) - (v + 1) = r - e
      BY <1>2, <1>6, <1>18, <2>2, <2>3
    <3>2. QED
      BY <1>7, <3>1, TokenAgrees
  <2>7. QED
    BY <1>2, <1>18, <2>5, <2>6
<1>19. QED
  BY <1>15, <1>16, <1>17, <1>18

(* The text after a change: what lies before it stays, what lies behind it *)
(* moves.                                                                  *)
IsChanged(text, after, s, o, n) ==
  /\ IsText(after) /\ Len(after) = Len(text) + n - o
  /\ \A i \in Nat : i < s => Character(after, i) = Character(text, i)
  /\ \A i \in Nat : i >= o => Character(after, i + n - o) = Character(text, i)

\* A leaf from L to R, at y in the new text.
IsKeptLeaf(text, after, s, o, n, L, R, y, m) ==
  /\ s \in Nat /\ o \in Nat /\ n \in Nat /\ s <= o /\ s <= n
  /\ IsText(text) /\ IsChanged(text, after, s, o, n)
  /\ L \in Nat /\ R \in Nat /\ y \in Nat /\ L <= R /\ L < Width /\ y < Width
  /\ m = Lex(text, L) /\ m.look \in Nat /\ m.look >= 1 /\ Total(m).b = R - L
  /\ (Behind(o, L) /\ y = L + n - o) \/ (R + m.look <= s /\ y = L)

(* The leaf of a place the change does not reach is the token that is read *)
(* at the new place.                                                       *)
LEMMA LeafIsKept ==
  ASSUME NEW text, NEW after, NEW s, NEW o, NEW n, NEW L, NEW R, NEW y, NEW m,
         IsKeptLeaf(text, after, s, o, n, L, R, y, m)
  PROVE  Lex(after, y) = m
<1>0. /\ s \in Nat /\ o \in Nat /\ n \in Nat /\ s <= o /\ s <= n
      /\ IsText(text) /\ IsChanged(text, after, s, o, n)
      /\ L \in Nat /\ R \in Nat /\ y \in Nat /\ L <= R /\ L < Width /\ y < Width
      /\ m = Lex(text, L) /\ m.look \in Nat /\ m.look >= 1 /\ Total(m).b = R - L
      /\ (Behind(o, L) /\ y = L + n - o) \/ (R + m.look <= s /\ y = L)
  BY DEF IsKeptLeaf
<1>1. PICK k \in Nat : k = Total(m).b + m.look
  BY <1>0
<1>2. IsText(after)
  BY <1>0 DEF IsChanged
<1>3. CASE Behind(o, L) /\ y = L + n - o
  <2>1. Agree(text, L, after, y, k)
    <3> SUFFICES ASSUME NEW i \in 0 .. k - 1
                 PROVE  Character(text, L + i) = Character(after, y + i)
      BY DEF Agree
    <3>1. PICK j \in Nat : j = L + i /\ j >= o
      BY <1>0, <1>1, <1>3 DEF Behind
    <3>2. Character(after, j + n - o) = Character(text, j)
      BY <1>0, <3>1 DEF IsChanged
    <3>3. j + n - o = y + i
      BY <1>0, <1>3, <3>1
    <3>4. QED
      BY <3>1, <3>2, <3>3
  <2>2. QED
    BY <1>0, <1>1, <1>2, <2>1, LexAgrees
<1>4. CASE R + m.look <= s /\ y = L
  <2>1. Agree(text, L, after, y, k)
    <3> SUFFICES ASSUME NEW i \in 0 .. k - 1
                 PROVE  Character(text, L + i) = Character(after, y + i)
      BY DEF Agree
    <3>1. PICK j \in Nat : j = L + i /\ j < s
      BY <1>0, <1>1, <1>4
    <3>2. Character(after, j) = Character(text, j)
      BY <1>0, <3>1 DEF IsChanged
    <3>3. j = y + i
      BY <1>0, <1>4, <3>1
    <3>4. QED
      BY <3>1, <3>2, <3>3
  <2>2. QED
    BY <1>0, <1>1, <1>2, <2>1, LexAgrees
<1>5. QED
  BY <1>0, <1>3, <1>4

(* Where a node the edit leaves alone lies in the new text.                *)
LEMMA PlaceIsKept ==
  ASSUME NEW text, NEW t, NEW P, NEW e, NEW s, NEW o, NEW n, NEW c, NEW u, NEW Q,
         IsPlaced(text, t, P, e, s, o, n, c, u, Q), NEW i \in DOMAIN t, ~c[i].edited
  PROVE  /\ Far(t, P, s, o, i)
         /\ Behind(o, P[i]) => Q[i] = P[i] + n - o /\ Q[Beyond(t, i)] = P[Beyond(t, i)] + n - o
         /\ P[Beyond(t, i)] + t[i].look <= s => Q[i] = P[i] /\ Q[Beyond(t, i)] = P[Beyond(t, i)]
<1>0. /\ IsText(text) /\ SoundTree(text, t) /\ P = Pos(t) /\ Fits(text, t)
      /\ s \in Nat /\ IsEditing(text, t, P, e, s, o, n, c)
  BY DEF IsPlaced, IsEditing, SoundTree
<1>1. Far(t, P, s, o, i)
  BY <1>0, NodesAreEdited DEF NodeIsEdited, OwnIs
<1>2. InShape(s, o, n, Len(text), P[i], P[Beyond(t, i)], Q[Beyond(t, i)]) /\ Q[i] = NewPlace(s, o, n, P[i])
  BY PlacedShape
<1>3. PICK R \in Nat : R = P[Beyond(t, i)]
  BY <1>0, SoundTreeIs
<1>4. t[i].look \in Nat /\ t[i].look >= 1
  BY <1>0, SoundTreeIs
<1>5. PICK L : L = P[i]
  OBVIOUS
<1>6. PICK x : x = Q[Beyond(t, i)]
  OBVIOUS
<1>7. PICK l : l = Len(text)
  OBVIOUS
<1>8. InShape(s, o, n, l, L, R, x)
  BY <1>2, <1>3, <1>5, <1>6, <1>7
<1>9. /\ Behind(o, L) => NewPlace(s, o, n, L) = L + n - o /\ x = R + n - o
      /\ R < s => NewPlace(s, o, n, L) = L /\ x = R
  BY <1>8, NewSize
<1>10. R + t[i].look <= s => R < s
  BY <1>0, <1>4
<1>11. QED
  BY <1>1, <1>2, <1>3, <1>5, <1>6, <1>9, <1>10

(* What is below an edited tree's node that the edit has left alone.       *)
LEMMA InnerIsKept ==
  ASSUME NEW t, IsForest(t), NEW u, IsForest(u), Len(u) = Len(t), NEW i \in DOMAIN t,
         u[i] = t[i], \A j \in Below(t, i) : u[j] = t[j]
  PROVE  Inner(u, i) = Inner(t, i) /\ Below(u, i) = Below(t, i)
<1>1. Beyond(u, i) = Beyond(t, i)
  BY DEF Beyond
<1>2. Below(u, i) = Below(t, i)
  BY <1>1 DEF Below
<1>3. DOMAIN u = DOMAIN t /\ i \in DOMAIN u
  <2>1. DOMAIN u = 1 .. Len(u) /\ DOMAIN t = 1 .. Len(t)
    BY DEF IsForest
  <2>2. QED
    BY <2>1
<1>4. PICK x : x = Inner(u, i)
  OBVIOUS
<1>5. PICK y : y = Inner(t, i)
  OBVIOUS
<1>6. PICK b \in Nat : b = Beyond(t, i) /\ i < b /\ i \in Nat /\ Below(t, i) = i + 1 .. b - 1
  <2>1. i \in Nat /\ Beyond(t, i) \in Nat /\ i < Beyond(t, i)
    BY NodeFacts
  <2>2. QED
    BY <2>1 DEF Below
<1>7. /\ y \in Seq(TreeNode) /\ Len(y) = b - 1 - i /\ \A k \in 1 .. b - 1 - i : y[k] = t[i + k]
  <2>1. /\ Inner(t, i) \in Seq(TreeNode)
        /\ Len(Inner(t, i)) = Beyond(t, i) - 1 - i
        /\ \A k \in 1 .. Beyond(t, i) - 1 - i : Inner(t, i)[k] = t[i + k]
    BY InnerIs
  <2>2. QED
    BY <1>5, <1>6, <2>1
<1>8. /\ x \in Seq(TreeNode) /\ Len(x) = b - 1 - i /\ \A k \in 1 .. b - 1 - i : x[k] = u[i + k]
  <2>1. /\ Inner(u, i) \in Seq(TreeNode)
        /\ Len(Inner(u, i)) = Beyond(u, i) - 1 - i
        /\ \A k \in 1 .. Beyond(u, i) - 1 - i : Inner(u, i)[k] = u[i + k]
    BY <1>3, InnerIs
  <2>2. QED
    BY <1>1, <1>4, <1>6, <2>1
<1>9. \A k \in 1 .. b - 1 - i : x[k] = y[k]
  <2>1. TAKE k \in 1 .. b - 1 - i
  <2>2. i + k \in Below(t, i)
    BY <1>6
  <2>3. QED
    BY <1>7, <1>8, <2>2
<1>10. PICK h \in Nat : h = Len(x) /\ h = b - 1 - i
  BY <1>6, <1>8
<1>11. x = y
  <2>1. Len(x) = Len(y) /\ \A k \in 1 .. Len(x) : x[k] = y[k]
    BY <1>7, <1>9, <1>10
  <2>2. QED
    BY <1>7, <1>8, <2>1, SeqEqual
<1>12. QED
  BY <1>2, <1>4, <1>5, <1>11

(* A node the edit has not marked is one of the new text.                  *)
LEMMA NodeIsKept ==
  ASSUME NEW text, NEW after, NEW t, NEW P, NEW e, NEW s, NEW o, NEW n, NEW c, NEW u, NEW Q,
         IsPlaced(text, t, P, e, s, o, n, c, u, Q), IsChanged(text, after, s, o, n),
         NEW i \in DOMAIN t, ~u[i].changed
  PROVE  Intact(after, u, Q, i)
<1>0. /\ IsText(text) /\ SoundTree(text, t) /\ P = Pos(t) /\ Fits(text, t)
      /\ s \in Nat /\ o \in Nat /\ n \in Nat /\ e \in Edits /\ s <= o /\ s <= n
      /\ IsEditing(text, t, P, e, s, o, n, c)
      /\ u = ts_subtree_edit(t, e) /\ c = EditChildren(t, e)
      /\ \A j \in DOMAIN t : ~t[j].changed
  BY DEF IsPlaced, IsEditing, SoundTree
<1>1. /\ IsForest(t) /\ Len(t) \in Nat /\ DOMAIN t = 1 .. Len(t) /\ Len(text) \in Nat
      /\ Measured(t, P) /\ Len(text) < Width
  BY <1>0, FitsIs
<1>2. /\ IsForest(u) /\ Len(u) = Len(t) /\ Q[Len(u) + 1] = Len(text) + n - o /\ Measured(u, Q)
  BY PlacedMeasured
<1>3. /\ ~c[i].edited
  BY <1>0, <1>1, EditedNode
<1>4. u[i] = t[i]
  BY <1>0, <1>1, <1>3, EditedNode
<1>5. \A j \in Below(t, i) : j \in DOMAIN t /\ ~c[j].edited /\ u[j] = t[j]
  <2>1. TAKE j \in Below(t, i)
  <2>2. j \in DOMAIN t
    BY <1>1, BelowIs
  <2>3. ~c[j].edited
    BY <1>0, <1>3, NotEditedBelow
  <2>4. QED
    BY <1>0, <1>1, <2>2, <2>3, EditedNode
<1>6. Inner(u, i) = Inner(t, i) /\ Below(u, i) = Below(t, i)
  BY <1>1, <1>2, <1>4, <1>5, InnerIsKept
<1>7. /\ Far(t, P, s, o, i)
      /\ Behind(o, P[i]) => Q[i] = P[i] + n - o /\ Q[Beyond(t, i)] = P[Beyond(t, i)] + n - o
      /\ P[Beyond(t, i)] + t[i].look <= s => Q[i] = P[i] /\ Q[Beyond(t, i)] = P[Beyond(t, i)]
  BY <1>3, PlaceIsKept
<1>8. /\ Whole(text, 0, t, P, i) /\ t[i].look >= 1 /\ ~t[i].changed
      /\ t[i] \in TreeNode /\ t[i].look \in Nat
      /\ P[i] \in Nat /\ P[Beyond(t, i)] \in Nat /\ P[i] <= P[Beyond(t, i)]
      /\ P[Beyond(t, i)] <= Len(text) /\ Total(t[i]).b = P[Beyond(t, i)] - P[i]
  BY <1>0, SoundTreeIs
<1>9. Beyond(u, i) = Beyond(t, i)
  BY <1>4 DEF Beyond
<1>10. PICK L \in Nat : L = P[i]
  BY <1>8
<1>11. PICK R \in Nat : R = P[Beyond(t, i)] /\ L <= R
  BY <1>8, <1>10
<1>12. PICK y \in Nat : y = Q[i] /\ y < Width
  <2>1. Q[i] \in Nat /\ Q[i] <= Q[Beyond(t, i)]
    BY PlacedTotal
  <2>2. Q[Beyond(t, i)] < Width
    <3>1. Len(u) + 1 \in 1 .. Len(u) + 1 /\ Beyond(t, i) \in 1 .. Len(u) + 1 /\ Beyond(t, i) <= Len(u) + 1
      BY <1>1, <1>2, NodeFacts
    <3>2. Q[Beyond(t, i)] <= Q[Len(u) + 1] /\ Q[Beyond(t, i)] \in Nat /\ Q[Len(u) + 1] \in Nat
      BY <1>2, <3>1, MeasureGrows
    <3>3. Len(text) + n - o < Width
      BY <1>0 DEF IsEditing
    <3>4. QED
      BY <1>2, <3>2, <3>3, WidthIsPositive
  <2>3. Q[Beyond(t, i)] \in Nat
    BY PlacedTotal
  <2>4. QED
    BY <2>1, <2>2, <2>3, WidthIsPositive
<1>13. PICK x : x = Q[Beyond(t, i)]
  OBVIOUS
<1>14. PICK m : m = t[i] /\ m.look \in Nat /\ m.look >= 1
  BY <1>8
<1>15. /\ Behind(o, L) \/ R + m.look <= s
       /\ Behind(o, L) => y = L + n - o /\ x = R + n - o
       /\ R + m.look <= s => y = L /\ x = R
  BY <1>7, <1>10, <1>11, <1>12, <1>13, <1>14 DEF Far
<1>16. Leaf(u[i]) => u[i] = Lex(after, 0 + Q[i])
  <2>1. HAVE Leaf(u[i])
  <2>2. Leaf(t[i])
    BY <1>4, <2>1
  <2>3. m = Lex(text, 0 + P[i])
    BY <1>8, <1>14, <2>2 DEF Whole
  <2>4. m = Lex(text, L)
    BY <1>10, <2>3
  <2>5. Total(m).b = R - L /\ L < Width
    BY <1>1, <1>8, <1>10, <1>11, <1>14, WidthIsPositive
  <2>6. (Behind(o, L) /\ y = L + n - o) \/ (R + m.look <= s /\ y = L)
    BY <1>15
  <2>7. IsKeptLeaf(text, after, s, o, n, L, R, y, m)
    BY <1>0, <1>11, <1>12, <1>14, <2>4, <2>5, <2>6 DEF IsKeptLeaf
  <2>8. Lex(after, y) = m
    BY <2>7, LeafIsKept
  <2>9. 0 + Q[i] = y
    BY <1>12
  <2>10. QED
    BY <1>4, <1>14, <2>8, <2>9
<1>17. ~Leaf(u[i]) => u[i] = Node(u[i].sym, Inner(u, i))[1]
  BY <1>4, <1>6, <1>8 DEF Whole
<1>18. \A j \in Below(u, i) : Q[Beyond(u, j)] + u[j].look <= Q[Beyond(u, i)] + u[i].look
  <2>1. TAKE j \in Below(u, i)
  <2>2. j \in Below(t, i) /\ j \in DOMAIN t /\ ~c[j].edited /\ u[j] = t[j]
    BY <1>5, <1>6
  <2>3. Beyond(u, j) = Beyond(t, j)
    BY <2>2 DEF Beyond
  <2>4. PICK S \in Nat : S = P[Beyond(t, j)]
    BY <1>0, <2>2, SoundTreeIs
  <2>5. PICK K \in Nat : K = P[j]
    BY <1>0, <2>2, SoundTreeIs
  <2>6. L <= K /\ S <= R
    <3>1. /\ i \in 1 .. Len(t) + 1 /\ j \in 1 .. Len(t) + 1 /\ i <= j
          /\ Beyond(t, j) \in 1 .. Len(t) + 1 /\ Beyond(t, i) \in 1 .. Len(t) + 1
      <4>1. j \in 1 .. Len(t) /\ i < j
        BY <1>1, <2>2, BelowIs
      <4>2. Beyond(t, j) \in j + 1 .. Len(t) + 1 /\ Beyond(t, i) \in i + 1 .. Len(t) + 1 /\ i \in 1 .. Len(t)
        BY <1>1, <2>2, NodeFacts
      <4>3. QED
        BY <1>1, <4>1, <4>2
    <3>2. Beyond(t, j) <= Beyond(t, i)
      BY <1>1, <2>2 DEF IsForest
    <3>3. P[i] <= P[j]
      BY <1>1, <3>1, MeasureGrows
    <3>4. P[Beyond(t, j)] <= P[Beyond(t, i)]
      BY <1>1, <3>1, <3>2, MeasureGrows
    <3>5. QED
      BY <1>10, <1>11, <2>4, <2>5, <3>3, <3>4
  <2>7. /\ Far(t, P, s, o, j)
        /\ Behind(o, P[j]) => Q[Beyond(t, j)] = P[Beyond(t, j)] + n - o
        /\ P[Beyond(t, j)] + t[j].look <= s => Q[Beyond(t, j)] = P[Beyond(t, j)]
    BY <2>2, PlaceIsKept
  <2>8. PICK g \in Nat : g = t[j].look
    BY <1>0, <2>2, SoundTreeIs
  <2>9. PICK z : z = Q[Beyond(t, j)]
    OBVIOUS
  <2>10. S + g <= R + m.look
    BY <1>8, <1>11, <1>14, <2>2, <2>4, <2>8 DEF Whole
  <2>11. (Behind(o, K) => z = S + n - o) /\ (S + g <= s => z = S)
    BY <2>4, <2>5, <2>7, <2>8, <2>9
  <2>12. z + g <= x + m.look
    <3>1. CASE Behind(o, L)
      <4>1. Behind(o, K)
        BY <1>0, <2>6, <3>1 DEF Behind
      <4>2. z = S + n - o /\ x = R + n - o
        BY <1>15, <2>11, <3>1, <4>1
      <4>3. QED
        BY <1>0, <1>14, <2>10, <4>2
    <3>2. CASE R + m.look <= s
      <4>1. S + g <= s
        BY <1>0, <1>14, <2>10, <3>2
      <4>2. z = S /\ x = R
        BY <1>15, <2>11, <3>2, <4>1
      <4>3. QED
        BY <2>10, <4>2
    <3>3. QED
      BY <1>15, <3>1, <3>2
  <2>13. QED
    BY <1>4, <1>9, <1>13, <1>14, <2>2, <2>3, <2>8, <2>9, <2>12
<1>19. Whole(after, 0, u, Q, i)
  BY <1>4, <1>8, <1>16, <1>17, <1>18 DEF Whole
<1>20. \A j \in Below(u, i) : ~u[j].changed
  BY <1>0, <1>5, <1>6
<1>21. i \in 2 .. Len(u) - 1 => Total(u[i]).b > 0
  <2>1. Intact(text, t, P, i)
    BY <1>0 DEF Fits
  <2>2. QED
    BY <1>2, <1>4, <2>1 DEF Intact
<1>22. QED
  BY <1>19, <1>20, <1>21 DEF Intact

(* A node keeps its form when only lengths change.                         *)
LEMMA FormIsKept ==
  ASSUME NEW t, IsForest(t), NEW u, IsForest(u), Len(u) = Len(t), NEW i \in DOMAIN t, Formed(t, i),
         \A j \in 1 .. Len(t) : /\ u[j].sym = t[j].sym /\ Beyond(u, j) = Beyond(t, j)
                                /\ (Leaf(u[j]) <=> Leaf(t[j]))
  PROVE  Formed(u, i)
<1>1. PICK N \in Nat : N = Len(t) /\ i \in 1 .. N
  BY NodeFacts
<1>2. PICK b \in i + 1 .. N + 1 : b = Beyond(t, i)
  BY <1>1, NodeFacts
<1>3. /\ u[i].sym = t[i].sym /\ Beyond(u, i) = b /\ (Leaf(u[i]) <=> Leaf(t[i]))
  BY <1>1, <1>2
<1>4. CASE Leaf(t[i])
  <2>1. t[i].sym \in {"id", "dot", "dots", "end"}
    BY <1>4 DEF Formed
  <2>2. QED
    BY <1>3, <1>4, <2>1 DEF Formed
<1>5. CASE ~Leaf(t[i])
  <2>1. b > i + 1
    BY <1>1, <1>2, <1>5, NodeFacts
  <2>2. i + 1 \in 1 .. N /\ b - 1 \in 1 .. N
    BY <1>1, <1>2, <2>1
  <2>3. /\ u[i + 1].sym = t[i + 1].sym /\ Beyond(u, i + 1) = Beyond(t, i + 1)
        /\ u[b - 1].sym = t[b - 1].sym
    BY <1>1, <2>2
  <2>4. \/ /\ t[i].sym = "list"
           /\ Letters(t[i + 1]) /\ Beyond(t, i + 1) = b - 1 /\ t[b - 1].sym = "id"
        \/ /\ t[i].sym = "statement"
           /\ Beyond(t, i + 1) = b /\ t[i + 1].sym \in {"id", "list", "dot", "dots"}
        \/ /\ t[i].sym = "statement"
           /\ Letters(t[i + 1]) /\ Beyond(t, i + 1) = b - 1 /\ t[b - 1].sym \in {"dot", "dots"}
        \/ t[i].sym = "program"
    BY <1>2, <1>5 DEF Formed
  <2>5. Letters(t[i + 1]) <=> Letters(u[i + 1])
    BY <2>3 DEF Letters
  <2>6. QED
    BY <1>3, <1>5, <2>3, <2>4, <2>5 DEF Formed
<1>6. QED
  BY <1>4, <1>5

(* The edit of a tree of one text makes it fit the next text.              *)
LEMMA EditFits ==
  ASSUME NEW text, NEW after, NEW t, NEW P, NEW e, NEW s, NEW o, NEW n, NEW c, NEW u, NEW Q,
         IsPlaced(text, t, P, e, s, o, n, c, u, Q), IsChanged(text, after, s, o, n)
  PROVE  Fits(after, u)
<1>0. /\ IsText(text) /\ SoundTree(text, t) /\ P = Pos(t) /\ Fits(text, t)
      /\ e \in Edits /\ u = ts_subtree_edit(t, e)
  BY DEF IsPlaced, IsEditing, SoundTree
<1>1. IsForest(t) /\ Len(t) \in Nat /\ DOMAIN t = 1 .. Len(t)
  BY <1>0, FitsIs
<1>2. /\ IsForest(u) /\ Len(u) = Len(t) /\ Pos(u) = Q /\ Measured(u, Q)
      /\ Q[Len(u) + 1] = Len(text) + n - o
  BY PlacedMeasured
<1>3. \A j \in 1 .. Len(t) : /\ u[j].sym = t[j].sym /\ Beyond(u, j) = Beyond(t, j)
                             /\ (Leaf(u[j]) <=> Leaf(t[j]))
  BY <1>0, <1>1, EditIs
<1>4. DOMAIN u = 1 .. Len(u)
  BY <1>2 DEF IsForest
<1>5. IsSyntaxTree(u)
  BY <1>0, EditedIsTree DEF Fits
<1>6. Ends(u)
  <2>0. Ends(t)
    BY <1>0 DEF Fits
  <2>1. PICK N \in Nat : N = Len(t) /\ N >= 2
    BY <1>1, <2>0 DEF Ends
  <2>2. /\ Leaf(t[N]) /\ t[N].sym = "end"
        /\ \A i \in DOMAIN t : Formed(t, i)
        /\ \A i \in 2 .. N - 1 : Beyond(t, i) <= N /\ t[i].sym \notin {"end", "program"}
    BY <2>0, <2>1 DEF Ends
  <2>3. Leaf(u[N]) /\ u[N].sym = "end"
    BY <1>3, <2>1, <2>2
  <2>4. \A i \in DOMAIN u : Formed(u, i)
    <3>1. TAKE i \in DOMAIN u
    <3>2. i \in DOMAIN t
      BY <1>1, <1>2, <1>4
    <3>3. QED
      BY <1>1, <1>2, <1>3, <2>2, <3>2, FormIsKept
  <2>5. \A i \in 2 .. N - 1 : Beyond(u, i) <= N /\ u[i].sym \notin {"end", "program"}
    <3>1. \A i \in 2 .. N - 1 : i \in 1 .. Len(t)
      BY <2>1
    <3>2. QED
      BY <1>3, <2>2, <3>1
  <2>6. QED
    BY <1>2, <2>1, <2>3, <2>4, <2>5 DEF Ends
<1>7. Len(after) = Len(text) + n - o
  BY DEF IsChanged
<1>8. \A i \in DOMAIN u : ~u[i].changed => Intact(after, u, Q, i)
  BY <1>1, <1>2, <1>4, NodeIsKept
<1>9. QED
  BY <1>2, <1>5, <1>6, <1>7, <1>8 DEF Fits
=============================================================================
