--------------------------- MODULE TreeWalkProofs ---------------------------
(***************************************************************************)
(* Proofs about TreeWalk: the cursor visits the visible nodes of every     *)
(* tree in order.                                                          *)
(***************************************************************************)
EXTENDS TreeWalk, SyntaxTreeProofs

IsBeginsLoop(t, n, A, a, loop) ==
  /\ \A k \in 0 .. n : loop[k] \in A[k]
  /\ loop[0] = a
  /\ \A k \in 1 .. n : loop[k] = WithBegin(t, loop[k - 1], k)
  /\ Begins(t) = loop[n]

(* The begins of nodes are gathered one by one.                            *)
LEMMA BeginsTurns ==
  ASSUME NEW t, NEW n \in Nat, n = Len(t), NEW A, NEW a \in A[0], a = <<>>,
         \A k \in 1 .. n : \A x \in A[k - 1] : WithBegin(t, x, k) \in A[k]
  PROVE  \E loop : IsBeginsLoop(t, n, A, a, loop)
<1> DEFINE D == UNION {A[k] : k \in 0 .. n}
           turn == [p \in (1 .. n) \X D |-> WithBegin(t, p[2], p[1])]
           Body(g) == [k \in 0 .. n |-> IF k = 0 THEN a ELSE WithBegin(t, g[k - 1], k)]
           loop == CHOOSE g : g = Body(g)
<1>1. ASSUME NEW k \in 1 .. n, NEW x \in A[k - 1]
      PROVE  turn[<<k, x>>] = WithBegin(t, x, k)
  <2>1. k - 1 \in 0 .. n
    OBVIOUS
  <2>2. <<k, x>> \in (1 .. n) \X D
    BY <2>1
  <2>3. QED
    BY <2>2
<1>2. PICK f : IsStaged(f, n, A, a, turn)
  <2> HIDE DEF turn
  <2>1. QED
    BY <1>1, StagedIteration
<1>3. f = Body(f)
  <2> DEFINE g == Body(f)
  <2>1. ASSUME NEW k \in 1 .. n
        PROVE  f[k] = WithBegin(t, f[k - 1], k)
    <3>1. k - 1 \in 0 .. n /\ f[k - 1] \in A[k - 1] /\ f[k] = turn[<<k, f[k - 1]>>]
      <4> HIDE DEF turn
      <4>1. k - 1 \in 0 .. n
        OBVIOUS
      <4>2. QED
        BY <1>2, <4>1 DEF IsStaged
    <3>2. QED
      <4> HIDE DEF turn
      <4>1. QED
        BY <1>1, <3>1
  <2>2. ASSUME NEW k \in 0 .. n
        PROVE  f[k] = g[k]
    <3>1. CASE k = 0
      <4>1. f[0] = a
        BY <1>2 DEF IsStaged
      <4>2. g[0] = a
        OBVIOUS
      <4>3. QED
        BY <3>1, <4>1, <4>2
    <3>2. CASE k # 0
      <4>1. k \in 1 .. n
        BY <3>2
      <4>2. g[k] = WithBegin(t, f[k - 1], k)
        BY <3>2
      <4>3. QED
        BY <2>1, <4>1, <4>2
    <3>3. QED
      BY <3>1, <3>2
  <2>3. f = [k \in 0 .. n |-> f[k]]
    BY <1>2 DEF IsStaged
  <2>4. g = [k \in 0 .. n |-> g[k]]
    OBVIOUS
  <2> HIDE DEF g
  <2>5. f = g
    BY <2>2, <2>3, <2>4
  <2>6. QED
    BY <2>5 DEF g
<1> HIDE DEF turn
<1>4. loop = Body(loop)
  <2> HIDE DEF Body
  <2>1. QED
    BY <1>3
<1>5. Begins(t) = loop[n]
  BY DEF Begins
<1> HIDE DEF loop
<1>6. loop[0] = a
  <2> DEFINE g == Body(loop)
  <2>1. g[0] = a
    OBVIOUS
  <2>2. QED
    BY <1>4, <2>1
<1>7. ASSUME NEW k \in 1 .. n
      PROVE  loop[k] = WithBegin(t, loop[k - 1], k)
  <2> DEFINE g == Body(loop)
  <2>1. g[k] = WithBegin(t, loop[k - 1], k)
    OBVIOUS
  <2>2. QED
    BY <1>4, <2>1
<1>8. \A k \in 0 .. n : loop[k] \in A[k]
  <2> DEFINE S == {k \in 0 .. n : loop[k] \in A[k]}
  <2>1. 0 \in S
    BY <1>6
  <2>2. ASSUME NEW k \in 0 .. n, k \in S, k < n
        PROVE  k + 1 \in S
    <3>1. k + 1 \in 1 .. n /\ (k + 1) - 1 = k
      BY <2>2
    <3>2. loop[k + 1] = WithBegin(t, loop[k], k + 1) /\ loop[k] \in A[k]
      BY <1>7, <2>2, <3>1
    <3>3. QED
      BY <2>2, <3>1, <3>2
  <2> HIDE DEF S
  <2>3. 0 .. n \subseteq S
    BY <2>1, <2>2, InductiveUpTo
  <2>4. QED
    BY <2>3 DEF S
<1>9. QED
  BY <1>5, <1>6, <1>7, <1>8 DEF IsBeginsLoop

IsChildLoop(t, c, from, n, A, a, loop) ==
  /\ \A k \in 0 .. n : loop[k] \in A[k]
  /\ loop[0] = a
  /\ \A k \in 1 .. n : loop[k] = NextChild(t, c, loop[k - 1])
  /\ loop[n] \in Below(t, c) => GotoChildFrom(t, c, from) = loop[n]
  /\ ~(loop[n] \in Below(t, c)) => GotoChildFrom(t, c, from) = c

(* The loop over the children of a node.                                   *)
LEMMA ChildTurns ==
  ASSUME NEW t, NEW c, NEW from, NEW n \in Nat, n = Len(t), NEW A, NEW a \in A[0], a = from,
         \A k \in 1 .. n : \A x \in A[k - 1] : NextChild(t, c, x) \in A[k]
  PROVE  \E loop : IsChildLoop(t, c, from, n, A, a, loop)
<1> DEFINE D == UNION {A[k] : k \in 0 .. n}
           turn == [p \in (1 .. n) \X D |-> NextChild(t, c, p[2])]
           Body(g) == [k \in 0 .. n |-> IF k = 0 THEN a ELSE NextChild(t, c, g[k - 1])]
           loop == CHOOSE g : g = Body(g)
<1>1. ASSUME NEW k \in 1 .. n, NEW x \in A[k - 1]
      PROVE  turn[<<k, x>>] = NextChild(t, c, x)
  <2>1. k - 1 \in 0 .. n
    OBVIOUS
  <2>2. <<k, x>> \in (1 .. n) \X D
    BY <2>1
  <2>3. QED
    BY <2>2
<1>2. PICK f : IsStaged(f, n, A, a, turn)
  <2> HIDE DEF turn
  <2>1. QED
    BY <1>1, StagedIteration
<1>3. f = Body(f)
  <2> DEFINE g == Body(f)
  <2>1. ASSUME NEW k \in 1 .. n
        PROVE  f[k] = NextChild(t, c, f[k - 1])
    <3>1. k - 1 \in 0 .. n /\ f[k - 1] \in A[k - 1] /\ f[k] = turn[<<k, f[k - 1]>>]
      <4> HIDE DEF turn
      <4>1. k - 1 \in 0 .. n
        OBVIOUS
      <4>2. QED
        BY <1>2, <4>1 DEF IsStaged
    <3>2. QED
      <4> HIDE DEF turn
      <4>1. QED
        BY <1>1, <3>1
  <2>2. ASSUME NEW k \in 0 .. n
        PROVE  f[k] = g[k]
    <3>1. CASE k = 0
      <4>1. f[0] = a
        BY <1>2 DEF IsStaged
      <4>2. g[0] = a
        OBVIOUS
      <4>3. QED
        BY <3>1, <4>1, <4>2
    <3>2. CASE k # 0
      <4>1. k \in 1 .. n
        BY <3>2
      <4>2. g[k] = NextChild(t, c, f[k - 1])
        BY <3>2
      <4>3. QED
        BY <2>1, <4>1, <4>2
    <3>3. QED
      BY <3>1, <3>2
  <2>3. f = [k \in 0 .. n |-> f[k]]
    BY <1>2 DEF IsStaged
  <2>4. g = [k \in 0 .. n |-> g[k]]
    OBVIOUS
  <2> HIDE DEF g
  <2>5. f = g
    BY <2>2, <2>3, <2>4
  <2>6. QED
    BY <2>5 DEF g
<1> HIDE DEF turn
<1>4. loop = Body(loop)
  <2> HIDE DEF Body
  <2>1. QED
    BY <1>3
<1>5. GotoChildFrom(t, c, from) = (IF loop[n] \in Below(t, c) THEN loop[n] ELSE c)
  BY DEF GotoChildFrom
<1> HIDE DEF loop
<1>6. loop[0] = a
  <2> DEFINE g == Body(loop)
  <2>1. g[0] = a
    OBVIOUS
  <2>2. QED
    BY <1>4, <2>1
<1>7. ASSUME NEW k \in 1 .. n
      PROVE  loop[k] = NextChild(t, c, loop[k - 1])
  <2> DEFINE g == Body(loop)
  <2>1. g[k] = NextChild(t, c, loop[k - 1])
    OBVIOUS
  <2>2. QED
    BY <1>4, <2>1
<1>8. \A k \in 0 .. n : loop[k] \in A[k]
  <2> DEFINE S == {k \in 0 .. n : loop[k] \in A[k]}
  <2>1. 0 \in S
    BY <1>6
  <2>2. ASSUME NEW k \in 0 .. n, k \in S, k < n
        PROVE  k + 1 \in S
    <3>1. k + 1 \in 1 .. n /\ (k + 1) - 1 = k
      BY <2>2
    <3>2. loop[k + 1] = NextChild(t, c, loop[k]) /\ loop[k] \in A[k]
      BY <1>7, <2>2, <3>1
    <3>3. QED
      BY <2>2, <3>1, <3>2
  <2> HIDE DEF S
  <2>3. 0 .. n \subseteq S
    BY <2>1, <2>2, InductiveUpTo
  <2>4. QED
    BY <2>3 DEF S
<1>9. QED
  BY <1>5, <1>6, <1>7, <1>8 DEF IsChildLoop

IsClimbLoop(t, c, n, A, a, loop) ==
  /\ \A k \in 0 .. n : loop[k] \in A[k]
  /\ loop[0] = a
  /\ \A k \in 1 .. n : loop[k] = Climb(t, loop[k - 1])
  /\ loop[n].found => ts_tree_cursor_goto_next_sibling(t, c) = loop[n].at
  /\ ~(loop[n].found) => ts_tree_cursor_goto_next_sibling(t, c) = c

(* The loop over the nodes above a cursor.                                 *)
LEMMA ClimbTurns ==
  ASSUME NEW t, NEW c, NEW n \in Nat, n = Len(t), NEW A, NEW a \in A[0], a = [at |-> c, found |-> FALSE, over |-> c = 1],
         \A k \in 1 .. n : \A x \in A[k - 1] : Climb(t, x) \in A[k]
  PROVE  \E loop : IsClimbLoop(t, c, n, A, a, loop)
<1> DEFINE D == UNION {A[k] : k \in 0 .. n}
           turn == [p \in (1 .. n) \X D |-> Climb(t, p[2])]
           Body(g) == [k \in 0 .. n |-> IF k = 0 THEN a ELSE Climb(t, g[k - 1])]
           loop == CHOOSE g : g = Body(g)
<1>1. ASSUME NEW k \in 1 .. n, NEW x \in A[k - 1]
      PROVE  turn[<<k, x>>] = Climb(t, x)
  <2>1. k - 1 \in 0 .. n
    OBVIOUS
  <2>2. <<k, x>> \in (1 .. n) \X D
    BY <2>1
  <2>3. QED
    BY <2>2
<1>2. PICK f : IsStaged(f, n, A, a, turn)
  <2> HIDE DEF turn
  <2>1. QED
    BY <1>1, StagedIteration
<1>3. f = Body(f)
  <2> DEFINE g == Body(f)
  <2>1. ASSUME NEW k \in 1 .. n
        PROVE  f[k] = Climb(t, f[k - 1])
    <3>1. k - 1 \in 0 .. n /\ f[k - 1] \in A[k - 1] /\ f[k] = turn[<<k, f[k - 1]>>]
      <4> HIDE DEF turn
      <4>1. k - 1 \in 0 .. n
        OBVIOUS
      <4>2. QED
        BY <1>2, <4>1 DEF IsStaged
    <3>2. QED
      <4> HIDE DEF turn
      <4>1. QED
        BY <1>1, <3>1
  <2>2. ASSUME NEW k \in 0 .. n
        PROVE  f[k] = g[k]
    <3>1. CASE k = 0
      <4>1. f[0] = a
        BY <1>2 DEF IsStaged
      <4>2. g[0] = a
        OBVIOUS
      <4>3. QED
        BY <3>1, <4>1, <4>2
    <3>2. CASE k # 0
      <4>1. k \in 1 .. n
        BY <3>2
      <4>2. g[k] = Climb(t, f[k - 1])
        BY <3>2
      <4>3. QED
        BY <2>1, <4>1, <4>2
    <3>3. QED
      BY <3>1, <3>2
  <2>3. f = [k \in 0 .. n |-> f[k]]
    BY <1>2 DEF IsStaged
  <2>4. g = [k \in 0 .. n |-> g[k]]
    OBVIOUS
  <2> HIDE DEF g
  <2>5. f = g
    BY <2>2, <2>3, <2>4
  <2>6. QED
    BY <2>5 DEF g
<1> HIDE DEF turn
<1>4. loop = Body(loop)
  <2> HIDE DEF Body
  <2>1. QED
    BY <1>3
<1>5. ts_tree_cursor_goto_next_sibling(t, c) = (IF loop[n].found THEN loop[n].at ELSE c)
  BY DEF ts_tree_cursor_goto_next_sibling
<1> HIDE DEF loop
<1>6. loop[0] = a
  <2> DEFINE g == Body(loop)
  <2>1. g[0] = a
    OBVIOUS
  <2>2. QED
    BY <1>4, <2>1
<1>7. ASSUME NEW k \in 1 .. n
      PROVE  loop[k] = Climb(t, loop[k - 1])
  <2> DEFINE g == Body(loop)
  <2>1. g[k] = Climb(t, loop[k - 1])
    OBVIOUS
  <2>2. QED
    BY <1>4, <2>1
<1>8. \A k \in 0 .. n : loop[k] \in A[k]
  <2> DEFINE S == {k \in 0 .. n : loop[k] \in A[k]}
  <2>1. 0 \in S
    BY <1>6
  <2>2. ASSUME NEW k \in 0 .. n, k \in S, k < n
        PROVE  k + 1 \in S
    <3>1. k + 1 \in 1 .. n /\ (k + 1) - 1 = k
      BY <2>2
    <3>2. loop[k + 1] = Climb(t, loop[k]) /\ loop[k] \in A[k]
      BY <1>7, <2>2, <3>1
    <3>3. QED
      BY <2>2, <3>1, <3>2
  <2> HIDE DEF S
  <2>3. 0 .. n \subseteq S
    BY <2>1, <2>2, InductiveUpTo
  <2>4. QED
    BY <2>3 DEF S
<1>9. QED
  BY <1>5, <1>6, <1>7, <1>8 DEF IsClimbLoop

IsRetraceLoop(t, c, n, A, a, loop) ==
  /\ \A k \in 0 .. n : loop[k] \in A[k]
  /\ loop[0] = a
  /\ \A k \in 1 .. n : loop[k] = Retrace(t, loop[k - 1])
  /\ Retraced(t, c) = loop[n]

(* The inner loop of Traverse.                                             *)
LEMMA RetraceTurns ==
  ASSUME NEW t, NEW c, NEW n \in Nat, n = Len(t), NEW A, NEW a \in A[0], a = [at |-> c, root |-> FALSE, over |-> FALSE],
         \A k \in 1 .. n : \A x \in A[k - 1] : Retrace(t, x) \in A[k]
  PROVE  \E loop : IsRetraceLoop(t, c, n, A, a, loop)
<1> DEFINE D == UNION {A[k] : k \in 0 .. n}
           turn == [p \in (1 .. n) \X D |-> Retrace(t, p[2])]
           Body(g) == [k \in 0 .. n |-> IF k = 0 THEN a ELSE Retrace(t, g[k - 1])]
           loop == CHOOSE g : g = Body(g)
<1>1. ASSUME NEW k \in 1 .. n, NEW x \in A[k - 1]
      PROVE  turn[<<k, x>>] = Retrace(t, x)
  <2>1. k - 1 \in 0 .. n
    OBVIOUS
  <2>2. <<k, x>> \in (1 .. n) \X D
    BY <2>1
  <2>3. QED
    BY <2>2
<1>2. PICK f : IsStaged(f, n, A, a, turn)
  <2> HIDE DEF turn
  <2>1. QED
    BY <1>1, StagedIteration
<1>3. f = Body(f)
  <2> DEFINE g == Body(f)
  <2>1. ASSUME NEW k \in 1 .. n
        PROVE  f[k] = Retrace(t, f[k - 1])
    <3>1. k - 1 \in 0 .. n /\ f[k - 1] \in A[k - 1] /\ f[k] = turn[<<k, f[k - 1]>>]
      <4> HIDE DEF turn
      <4>1. k - 1 \in 0 .. n
        OBVIOUS
      <4>2. QED
        BY <1>2, <4>1 DEF IsStaged
    <3>2. QED
      <4> HIDE DEF turn
      <4>1. QED
        BY <1>1, <3>1
  <2>2. ASSUME NEW k \in 0 .. n
        PROVE  f[k] = g[k]
    <3>1. CASE k = 0
      <4>1. f[0] = a
        BY <1>2 DEF IsStaged
      <4>2. g[0] = a
        OBVIOUS
      <4>3. QED
        BY <3>1, <4>1, <4>2
    <3>2. CASE k # 0
      <4>1. k \in 1 .. n
        BY <3>2
      <4>2. g[k] = Retrace(t, f[k - 1])
        BY <3>2
      <4>3. QED
        BY <2>1, <4>1, <4>2
    <3>3. QED
      BY <3>1, <3>2
  <2>3. f = [k \in 0 .. n |-> f[k]]
    BY <1>2 DEF IsStaged
  <2>4. g = [k \in 0 .. n |-> g[k]]
    OBVIOUS
  <2> HIDE DEF g
  <2>5. f = g
    BY <2>2, <2>3, <2>4
  <2>6. QED
    BY <2>5 DEF g
<1> HIDE DEF turn
<1>4. loop = Body(loop)
  <2> HIDE DEF Body
  <2>1. QED
    BY <1>3
<1>5. Retraced(t, c) = loop[n]
  BY DEF Retraced
<1> HIDE DEF loop
<1>6. loop[0] = a
  <2> DEFINE g == Body(loop)
  <2>1. g[0] = a
    OBVIOUS
  <2>2. QED
    BY <1>4, <2>1
<1>7. ASSUME NEW k \in 1 .. n
      PROVE  loop[k] = Retrace(t, loop[k - 1])
  <2> DEFINE g == Body(loop)
  <2>1. g[k] = Retrace(t, loop[k - 1])
    OBVIOUS
  <2>2. QED
    BY <1>4, <2>1
<1>8. \A k \in 0 .. n : loop[k] \in A[k]
  <2> DEFINE S == {k \in 0 .. n : loop[k] \in A[k]}
  <2>1. 0 \in S
    BY <1>6
  <2>2. ASSUME NEW k \in 0 .. n, k \in S, k < n
        PROVE  k + 1 \in S
    <3>1. k + 1 \in 1 .. n /\ (k + 1) - 1 = k
      BY <2>2
    <3>2. loop[k + 1] = Retrace(t, loop[k]) /\ loop[k] \in A[k]
      BY <1>7, <2>2, <3>1
    <3>3. QED
      BY <2>2, <3>1, <3>2
  <2> HIDE DEF S
  <2>3. 0 .. n \subseteq S
    BY <2>1, <2>2, InductiveUpTo
  <2>4. QED
    BY <2>3 DEF S
<1>9. QED
  BY <1>5, <1>6, <1>7, <1>8 DEF IsRetraceLoop

IsWalkLoop(t, n, A, a, loop) ==
  /\ \A k \in 0 .. n : loop[k] \in A[k]
  /\ loop[0] = a
  /\ \A k \in 1 .. n : loop[k] = Walk(t, loop[k - 1])
  /\ Traverse(t) = loop[n]

(* The outer loop of Traverse.                                             *)
LEMMA WalkTurns ==
  ASSUME NEW t, NEW n \in Nat, n = Len(t), NEW A, NEW a \in A[0], a = [at |-> 1, seen |-> <<>>, over |-> FALSE],
         \A k \in 1 .. n : \A x \in A[k - 1] : Walk(t, x) \in A[k]
  PROVE  \E loop : IsWalkLoop(t, n, A, a, loop)
<1> DEFINE D == UNION {A[k] : k \in 0 .. n}
           turn == [p \in (1 .. n) \X D |-> Walk(t, p[2])]
           Body(g) == [k \in 0 .. n |-> IF k = 0 THEN a ELSE Walk(t, g[k - 1])]
           loop == CHOOSE g : g = Body(g)
<1>1. ASSUME NEW k \in 1 .. n, NEW x \in A[k - 1]
      PROVE  turn[<<k, x>>] = Walk(t, x)
  <2>1. k - 1 \in 0 .. n
    OBVIOUS
  <2>2. <<k, x>> \in (1 .. n) \X D
    BY <2>1
  <2>3. QED
    BY <2>2
<1>2. PICK f : IsStaged(f, n, A, a, turn)
  <2> HIDE DEF turn
  <2>1. QED
    BY <1>1, StagedIteration
<1>3. f = Body(f)
  <2> DEFINE g == Body(f)
  <2>1. ASSUME NEW k \in 1 .. n
        PROVE  f[k] = Walk(t, f[k - 1])
    <3>1. k - 1 \in 0 .. n /\ f[k - 1] \in A[k - 1] /\ f[k] = turn[<<k, f[k - 1]>>]
      <4> HIDE DEF turn
      <4>1. k - 1 \in 0 .. n
        OBVIOUS
      <4>2. QED
        BY <1>2, <4>1 DEF IsStaged
    <3>2. QED
      <4> HIDE DEF turn
      <4>1. QED
        BY <1>1, <3>1
  <2>2. ASSUME NEW k \in 0 .. n
        PROVE  f[k] = g[k]
    <3>1. CASE k = 0
      <4>1. f[0] = a
        BY <1>2 DEF IsStaged
      <4>2. g[0] = a
        OBVIOUS
      <4>3. QED
        BY <3>1, <4>1, <4>2
    <3>2. CASE k # 0
      <4>1. k \in 1 .. n
        BY <3>2
      <4>2. g[k] = Walk(t, f[k - 1])
        BY <3>2
      <4>3. QED
        BY <2>1, <4>1, <4>2
    <3>3. QED
      BY <3>1, <3>2
  <2>3. f = [k \in 0 .. n |-> f[k]]
    BY <1>2 DEF IsStaged
  <2>4. g = [k \in 0 .. n |-> g[k]]
    OBVIOUS
  <2> HIDE DEF g
  <2>5. f = g
    BY <2>2, <2>3, <2>4
  <2>6. QED
    BY <2>5 DEF g
<1> HIDE DEF turn
<1>4. loop = Body(loop)
  <2> HIDE DEF Body
  <2>1. QED
    BY <1>3
<1>5. Traverse(t) = loop[n]
  BY DEF Traverse
<1> HIDE DEF loop
<1>6. loop[0] = a
  <2> DEFINE g == Body(loop)
  <2>1. g[0] = a
    OBVIOUS
  <2>2. QED
    BY <1>4, <2>1
<1>7. ASSUME NEW k \in 1 .. n
      PROVE  loop[k] = Walk(t, loop[k - 1])
  <2> DEFINE g == Body(loop)
  <2>1. g[k] = Walk(t, loop[k - 1])
    OBVIOUS
  <2>2. QED
    BY <1>4, <2>1
<1>8. \A k \in 0 .. n : loop[k] \in A[k]
  <2> DEFINE S == {k \in 0 .. n : loop[k] \in A[k]}
  <2>1. 0 \in S
    BY <1>6
  <2>2. ASSUME NEW k \in 0 .. n, k \in S, k < n
        PROVE  k + 1 \in S
    <3>1. k + 1 \in 1 .. n /\ (k + 1) - 1 = k
      BY <2>2
    <3>2. loop[k + 1] = Walk(t, loop[k]) /\ loop[k] \in A[k]
      BY <1>7, <2>2, <3>1
    <3>3. QED
      BY <2>2, <3>1, <3>2
  <2> HIDE DEF S
  <2>3. 0 .. n \subseteq S
    BY <2>1, <2>2, InductiveUpTo
  <2>4. QED
    BY <2>3 DEF S
<1>9. QED
  BY <1>5, <1>6, <1>7, <1>8 DEF IsWalkLoop

IsDescendLoop(t, from, to, n, A, a, loop) ==
  /\ \A k \in 0 .. n : loop[k] \in A[k]
  /\ loop[0] = a
  /\ \A k \in 1 .. n : loop[k] = Descend(t, Begins(t), from, to, loop[k - 1])
  /\ ts_node_descendant_for_byte_range(t, from, to) = loop[n].visible

(* The loop of ts_node_descendant_for_byte_range.                          *)
LEMMA DescendTurns ==
  ASSUME NEW t, NEW from, NEW to, NEW n \in Nat, n = Len(t), NEW A, NEW a \in A[0], a = [node |-> 1, child |-> 2, visible |-> 1],
         \A k \in 1 .. n : \A x \in A[k - 1] : Descend(t, Begins(t), from, to, x) \in A[k]
  PROVE  \E loop : IsDescendLoop(t, from, to, n, A, a, loop)
<1> DEFINE D == UNION {A[k] : k \in 0 .. n}
           turn == [p \in (1 .. n) \X D |-> Descend(t, Begins(t), from, to, p[2])]
           Body(g) == [k \in 0 .. n |-> IF k = 0 THEN a ELSE Descend(t, Begins(t), from, to, g[k - 1])]
           loop == CHOOSE g : g = Body(g)
<1>1. ASSUME NEW k \in 1 .. n, NEW x \in A[k - 1]
      PROVE  turn[<<k, x>>] = Descend(t, Begins(t), from, to, x)
  <2>1. k - 1 \in 0 .. n
    OBVIOUS
  <2>2. <<k, x>> \in (1 .. n) \X D
    BY <2>1
  <2>3. QED
    BY <2>2
<1>2. PICK f : IsStaged(f, n, A, a, turn)
  <2> HIDE DEF turn
  <2>1. QED
    BY <1>1, StagedIteration
<1>3. f = Body(f)
  <2> DEFINE g == Body(f)
  <2>1. ASSUME NEW k \in 1 .. n
        PROVE  f[k] = Descend(t, Begins(t), from, to, f[k - 1])
    <3>1. k - 1 \in 0 .. n /\ f[k - 1] \in A[k - 1] /\ f[k] = turn[<<k, f[k - 1]>>]
      <4> HIDE DEF turn
      <4>1. k - 1 \in 0 .. n
        OBVIOUS
      <4>2. QED
        BY <1>2, <4>1 DEF IsStaged
    <3>2. QED
      <4> HIDE DEF turn
      <4>1. QED
        BY <1>1, <3>1
  <2>2. ASSUME NEW k \in 0 .. n
        PROVE  f[k] = g[k]
    <3>1. CASE k = 0
      <4>1. f[0] = a
        BY <1>2 DEF IsStaged
      <4>2. g[0] = a
        OBVIOUS
      <4>3. QED
        BY <3>1, <4>1, <4>2
    <3>2. CASE k # 0
      <4>1. k \in 1 .. n
        BY <3>2
      <4>2. g[k] = Descend(t, Begins(t), from, to, f[k - 1])
        BY <3>2
      <4>3. QED
        BY <2>1, <4>1, <4>2
    <3>3. QED
      BY <3>1, <3>2
  <2>3. f = [k \in 0 .. n |-> f[k]]
    BY <1>2 DEF IsStaged
  <2>4. g = [k \in 0 .. n |-> g[k]]
    OBVIOUS
  <2> HIDE DEF g
  <2>5. f = g
    BY <2>2, <2>3, <2>4
  <2>6. QED
    BY <2>5 DEF g
<1> HIDE DEF turn
<1>4. loop = Body(loop)
  <2> HIDE DEF Body
  <2>1. QED
    BY <1>3
<1>5. ts_node_descendant_for_byte_range(t, from, to) = loop[n].visible
  BY DEF ts_node_descendant_for_byte_range
<1> HIDE DEF loop
<1>6. loop[0] = a
  <2> DEFINE g == Body(loop)
  <2>1. g[0] = a
    OBVIOUS
  <2>2. QED
    BY <1>4, <2>1
<1>7. ASSUME NEW k \in 1 .. n
      PROVE  loop[k] = Descend(t, Begins(t), from, to, loop[k - 1])
  <2> DEFINE g == Body(loop)
  <2>1. g[k] = Descend(t, Begins(t), from, to, loop[k - 1])
    OBVIOUS
  <2>2. QED
    BY <1>4, <2>1
<1>8. \A k \in 0 .. n : loop[k] \in A[k]
  <2> DEFINE S == {k \in 0 .. n : loop[k] \in A[k]}
  <2>1. 0 \in S
    BY <1>6
  <2>2. ASSUME NEW k \in 0 .. n, k \in S, k < n
        PROVE  k + 1 \in S
    <3>1. k + 1 \in 1 .. n /\ (k + 1) - 1 = k
      BY <2>2
    <3>2. loop[k + 1] = Descend(t, Begins(t), from, to, loop[k]) /\ loop[k] \in A[k]
      BY <1>7, <2>2, <3>1
    <3>3. QED
      BY <2>2, <3>1, <3>2
  <2> HIDE DEF S
  <2>3. 0 .. n \subseteq S
    BY <2>1, <2>2, InductiveUpTo
  <2>4. QED
    BY <2>3 DEF S
<1>9. QED
  BY <1>5, <1>6, <1>7, <1>8 DEF IsDescendLoop

(***************************************************************************)
(* The cursor.                                                             *)
(***************************************************************************)
(* No visible node stands from lo on and before hi; the first that does.   *)
Hidden(t, lo, hi) == \A k \in lo .. hi - 1 : ~Visible(t[k])

FirstVisible(t, lo, hi, i) == i \in lo .. hi - 1 /\ Visible(t[i]) /\ Hidden(t, lo, i)

(* Two spans without a visible node make one.                              *)
LEMMA HiddenJoins ==
  ASSUME NEW t, NEW x \in Int, NEW y \in Int, NEW z \in Int, Hidden(t, x, y), Hidden(t, y, z)
  PROVE  Hidden(t, x, z)
<1> SUFFICES ASSUME NEW k \in x .. z - 1
             PROVE  ~Visible(t[k])
  BY DEF Hidden
<1>1. k \in x .. y - 1 \/ k \in y .. z - 1
  OBVIOUS
<1>2. QED
  BY <1>1 DEF Hidden

(* The first visible node after a span without one.                        *)
LEMMA FirstAfterHidden ==
  ASSUME NEW t, NEW x \in Int, NEW y \in Int, NEW z \in Int, NEW i \in Int, x <= y,
         Hidden(t, x, y), FirstVisible(t, y, z, i)
  PROVE  FirstVisible(t, x, z, i)
<1>1. i \in y .. z - 1 /\ Visible(t[i]) /\ Hidden(t, y, i)
  BY DEF FirstVisible
<1>2. Hidden(t, x, i)
  BY <1>1, HiddenJoins
<1>3. i \in x .. z - 1
  BY <1>1
<1>4. QED
  BY <1>1, <1>2, <1>3 DEF FirstVisible

(* The loop over the children of a node finds the first visible node of    *)
(* those below it, from the place it begins at.                            *)
ChildFrom(t, c, from, i) ==
  \/ i = c /\ Hidden(t, from, Beyond(t, c))
  \/ FirstVisible(t, from, Beyond(t, c), i)

(* A turn of the loop over children passes over hidden nodes only.         *)
LEMMA NextChildIs ==
  ASSUME NEW t, IsForest(t), NEW c \in DOMAIN t, NEW j \in Below(t, c), ~Visible(t[j])
  PROVE  /\ NextChild(t, c, j) \in j + 1 .. Beyond(t, c)
         /\ Hidden(t, j, NextChild(t, c, j))
<1>1. Len(t) \in Nat /\ Beyond(t, c) \in c + 1 .. Len(t) + 1 /\ c \in Nat
      /\ j \in 1 .. Len(t) /\ c < j /\ j < Beyond(t, c) /\ j \in DOMAIN t
  BY NodeFacts
<1>2. Beyond(t, j) \in j + 1 .. Len(t) + 1 /\ Beyond(t, j) <= Beyond(t, c)
  BY <1>1, NodeFacts DEF IsForest
<1>3. CASE HasVisible(t, j)
  <2>1. NextChild(t, c, j) = j + 1
    BY <1>3 DEF NextChild
  <2>2. \A k \in j .. j : ~Visible(t[k])
    BY <1>1
  <2>3. QED
    BY <1>1, <2>1, <2>2 DEF Hidden
<1>4. CASE ~HasVisible(t, j)
  <2>1. NextChild(t, c, j) = Beyond(t, j)
    BY <1>4 DEF NextChild
  <2>2. \A k \in j + 1 .. Beyond(t, j) - 1 : ~Visible(t[k])
    BY <1>4 DEF HasVisible, Below
  <2>3. ASSUME NEW k \in j .. Beyond(t, j) - 1
        PROVE  ~Visible(t[k])
    <3>1. k = j \/ k \in j + 1 .. Beyond(t, j) - 1
      BY <1>1, <1>2
    <3>2. QED
      BY <2>2, <3>1
  <2>4. Hidden(t, j, Beyond(t, j))
    BY <2>3 DEF Hidden
  <2>5. QED
    BY <1>1, <1>2, <2>1, <2>4
<1>5. QED
  BY <1>3, <1>4

(* The loop comes to the first visible node, or to the end of the          *)
(* children.                                                               *)
LEMMA GotoChildIs ==
  ASSUME NEW t, IsForest(t), NEW c \in DOMAIN t, NEW from \in c + 1 .. Beyond(t, c)
  PROVE  ChildFrom(t, c, from, GotoChildFrom(t, c, from))
<1> DEFINE n == Len(t)
           Kept == {j \in from .. Beyond(t, c) : Hidden(t, from, j)}
           Over == {j \in Kept : j = Beyond(t, c) \/ Visible(t[j])}
           V == [j \in Kept |-> IF j \in Over THEN 0 ELSE Beyond(t, c) - j]
           A == [k \in 0 .. n |-> Kept]
<1>1. n \in Nat /\ Beyond(t, c) \in c + 1 .. n + 1 /\ c \in Nat \ {0} /\ Len(t) \in Nat
  BY NodeFacts
<1>2. from \in Kept
  BY <1>1 DEF Hidden
<1>3. ASSUME NEW j \in Kept
      PROVE  /\ j \in Below(t, c) <=> j # Beyond(t, c)
             /\ j \in Int
  BY <1>1, <1>3 DEF Below
<1>4. ASSUME NEW j \in Kept, j \in Over
      PROVE  NextChild(t, c, j) = j
  BY <1>3, <1>4 DEF NextChild
<1>5. ASSUME NEW j \in Kept, j \notin Over
      PROVE  NextChild(t, c, j) \in Kept /\ NextChild(t, c, j) > j
  <2>1. j \in Below(t, c) /\ ~Visible(t[j])
    BY <1>3, <1>5
  <2>2. NextChild(t, c, j) \in j + 1 .. Beyond(t, c) /\ Hidden(t, j, NextChild(t, c, j))
    BY <2>1, NextChildIs
  <2>3. Hidden(t, from, NextChild(t, c, j))
    BY <1>1, <1>3, <2>2, HiddenJoins
  <2>4. QED
    BY <1>1, <1>3, <2>2, <2>3
<1>6. \A k \in 1 .. n : \A j \in A[k - 1] : NextChild(t, c, j) \in A[k]
  <2> SUFFICES ASSUME NEW k \in 1 .. n, NEW j \in A[k - 1]
               PROVE  NextChild(t, c, j) \in A[k]
    OBVIOUS
  <2>1. A[k - 1] = Kept /\ A[k] = Kept
    BY <1>1
  <2> HIDE DEF A
  <2>2. QED
    BY <1>4, <1>5, <2>1
<1>7. from \in A[0] /\ A[0] = Kept
  BY <1>1, <1>2
<1>8. PICK loop : /\ \A k \in 0 .. n : loop[k] \in A[k]
                  /\ loop[0] = from
                  /\ \A k \in 1 .. n : loop[k] = NextChild(t, c, loop[k - 1])
                  /\ loop[n] \in Below(t, c) => GotoChildFrom(t, c, from) = loop[n]
                  /\ ~(loop[n] \in Below(t, c)) => GotoChildFrom(t, c, from) = c
  <2> HIDE DEF A
  <2>1. PICK loop : IsChildLoop(t, c, from, n, A, from, loop)
    BY <1>1, <1>6, <1>7, ChildTurns
  <2>2. QED
    BY <2>1 DEF IsChildLoop
<1>9. \A k \in 0 .. n : loop[k] \in Kept
  BY <1>8
<1>10. \A j \in Kept : V[j] \in Nat /\ (V[j] = 0 => j \in Over)
  BY <1>1
<1>11. V[loop[0]] <= n
  <2>1. from \in c + 1 .. n + 1
    BY <1>1
  <2>2. QED
    BY <1>1, <1>2, <1>8, <2>1
<1>12. \A k \in 1 .. n : loop[k] \in Over \/ (loop[k - 1] \notin Over /\ V[loop[k]] < V[loop[k - 1]])
  <2> SUFFICES ASSUME NEW k \in 1 .. n, loop[k] \notin Over
               PROVE  loop[k - 1] \notin Over /\ V[loop[k]] < V[loop[k - 1]]
    OBVIOUS
  <2>1. k - 1 \in 0 .. n /\ k \in 0 .. n
    BY <1>1
  <2>2. loop[k - 1] \in Kept /\ loop[k] \in Kept /\ loop[k] = NextChild(t, c, loop[k - 1])
    BY <1>8, <1>9, <2>1
  <2>3. loop[k - 1] \notin Over
    <3> HIDE DEF Kept, Over
    <3>1. QED
      BY <1>4, <2>2
  <2>4. loop[k] > loop[k - 1]
    <3> HIDE DEF Kept, Over
    <3>1. QED
      BY <1>5, <2>2, <2>3
  <2>5. QED
    BY <1>1, <1>3, <2>2, <2>3, <2>4
<1>13. loop[n] \in Over
  <2> HIDE DEF Kept, Over, V
  <2>1. QED
    BY <1>1, <1>9, <1>10, <1>11, <1>12, LoopEnds
<1>14. PICK j \in Over : j = loop[n]
  BY <1>13
<1>15. CASE j = Beyond(t, c)
  <2>1. j \notin Below(t, c)
    BY <1>1, <1>15 DEF Below
  <2>2. GotoChildFrom(t, c, from) = c
    BY <1>8, <1>14, <2>1
  <2>3. QED
    BY <1>15, <2>2 DEF ChildFrom
<1>16. CASE j # Beyond(t, c)
  <2>1. j \in Below(t, c) /\ j \in from .. Beyond(t, c) - 1 /\ Visible(t[j]) /\ Hidden(t, from, j)
    BY <1>1, <1>3, <1>16
  <2>2. GotoChildFrom(t, c, from) = j
    BY <1>8, <1>14, <2>1
  <2>3. QED
    BY <2>1, <2>2 DEF ChildFrom, FirstVisible
<1>17. QED
  BY <1>15, <1>16

(* The trees the cursor walks over: their root is visible.                 *)
IsVisibleTree(t) == IsTree(t) /\ Visible(t[1])

(* The root of such a tree is around every node.                           *)
LEMMA VisibleTreeFacts ==
  ASSUME NEW t, IsVisibleTree(t)
  PROVE  /\ IsForest(t) /\ Len(t) \in Nat \ {0} /\ 1 \in DOMAIN t /\ DOMAIN t = 1 .. Len(t)
         /\ Beyond(t, 1) = Len(t) + 1 /\ Visible(t[1])
         /\ \A j \in 2 .. Len(t) : 1 \in Above(t, j)
<1>1. IsForest(t) /\ Beyond(t, 1) = Len(t) + 1 /\ Visible(t[1]) /\ Len(t) \in Nat \ {0} /\ 1 \in DOMAIN t
  BY EndOfTree DEF IsVisibleTree, IsTree
<1>2. DOMAIN t = 1 .. Len(t)
  BY <1>1 DEF IsForest
<1>3. \A j \in 2 .. Len(t) : 1 \in Above(t, j)
  BY <1>1 DEF Above, Below
<1>4. QED
  BY <1>1, <1>2, <1>3

(* The nodes above a node end where it ends or later.                      *)
LEMMA AboveIs ==
  ASSUME NEW t, IsForest(t), NEW j \in DOMAIN t
  PROVE  /\ Above(t, j) \in SUBSET (0 .. Len(t))
         /\ \A i \in Above(t, j) : /\ i \in DOMAIN t /\ i \in 1 .. j - 1 /\ j < Beyond(t, i)
                                   /\ Beyond(t, j) <= Beyond(t, i)
                                   /\ Beyond(t, i) \in i + 1 .. Len(t) + 1
<1>1. Len(t) \in Nat /\ j \in 1 .. Len(t) /\ DOMAIN t = 1 .. Len(t)
  BY DEF IsForest
<1>2. ASSUME NEW i \in Above(t, j)
      PROVE  /\ i \in 0 .. Len(t) /\ i \in DOMAIN t /\ i \in 1 .. j - 1 /\ j < Beyond(t, i)
             /\ Beyond(t, j) <= Beyond(t, i) /\ Beyond(t, i) \in i + 1 .. Len(t) + 1
  <2>1. i \in 1 .. j - 1 /\ j \in Below(t, i)
    BY DEF Above
  <2>2. i \in DOMAIN t /\ i \in 0 .. Len(t)
    BY <1>1, <2>1
  <2>3. j < Beyond(t, i) /\ Beyond(t, i) \in i + 1 .. Len(t) + 1
    BY <2>1, <2>2, NodeFacts
  <2>4. Beyond(t, j) <= Beyond(t, i)
    BY <2>1, <2>2 DEF IsForest
  <2>5. QED
    BY <2>1, <2>2, <2>3, <2>4
<1>3. QED
  BY <1>2

(* The node goto_parent comes to.                                          *)
ParentOf(t, x, up) ==
  /\ up \in 1 .. x /\ up \in DOMAIN t /\ Visible(t[up])
  /\ x < Beyond(t, up) /\ Beyond(t, x) <= Beyond(t, up)
  /\ up = x <=> x = 1
  /\ \A i \in Above(t, x) : Visible(t[i]) => i <= up

(* goto_parent comes to the innermost visible node around a node.          *)
LEMMA GotoParentIs ==
  ASSUME NEW t, IsVisibleTree(t), NEW x \in DOMAIN t, Visible(t[x])
  PROVE  ParentOf(t, x, ts_tree_cursor_goto_parent(t, x))
<1> DEFINE W == {i \in Above(t, x) : Visible(t[i])}
<1>1. IsForest(t) /\ Len(t) \in Nat \ {0} /\ DOMAIN t = 1 .. Len(t) /\ Beyond(t, 1) = Len(t) + 1
      /\ x \in 1 .. Len(t) /\ x < Beyond(t, x) /\ Beyond(t, x) \in Int
  <2>1. IsForest(t) /\ Len(t) \in Nat \ {0} /\ DOMAIN t = 1 .. Len(t) /\ Beyond(t, 1) = Len(t) + 1
    BY VisibleTreeFacts
  <2>2. x \in 1 .. Len(t)
    BY <2>1
  <2>3. Beyond(t, x) \in x + 1 .. Len(t) + 1
    BY <2>1, NodeFacts
  <2>4. QED
    BY <2>1, <2>2, <2>3
<1>2. W \in SUBSET (0 .. Len(t))
  BY <1>1, AboveIs
<1>3. CASE x = 1
  <2>1. Above(t, x) = {}
    BY <1>3 DEF Above
  <2>2. ts_tree_cursor_goto_parent(t, x) = x
    BY <2>1 DEF ts_tree_cursor_goto_parent
  <2>3. QED
    BY <1>1, <1>3, <2>1, <2>2 DEF ParentOf
<1>4. CASE x # 1
  <2>1. 1 \in W
    <3>1. x \in 2 .. Len(t)
      BY <1>1, <1>4
    <3>2. QED
      BY <3>1, VisibleTreeFacts
  <2>2. ts_tree_cursor_goto_parent(t, x) = Max(W)
    BY <2>1 DEF ts_tree_cursor_goto_parent
  <2>3. PICK up \in W : up = Max(W) /\ \A i \in W : i <= up
    BY <1>1, <1>2, <2>1, MaxIs
  <2>4. /\ up \in DOMAIN t /\ up \in 1 .. x - 1 /\ x < Beyond(t, up) /\ Beyond(t, x) <= Beyond(t, up)
        /\ Visible(t[up])
    BY <1>1, <2>3, AboveIs
  <2>5. \A i \in Above(t, x) : Visible(t[i]) => i <= up
    BY <2>3
  <2>6. up \in 1 .. x /\ up # x
    BY <1>1, <2>4
  <2>7. ParentOf(t, x, up)
    BY <1>4, <2>4, <2>5, <2>6 DEF ParentOf
  <2>8. QED
    BY <2>2, <2>3, <2>7
<1>5. QED
  BY <1>3, <1>4

(* Where the loop over the nodes above a cursor is, at s: at a node above  *)
(* the cursor or at the cursor, with nothing visible beside it so far, or  *)
(* at the sibling it was looking for.                                      *)
Climbing(t, c, up, s) ==
  /\ s = [at |-> s.at, found |-> s.found, over |-> s.over]
  /\ s.found \in BOOLEAN /\ s.over \in BOOLEAN /\ s.at \in 1 .. Len(t)
  /\ s.found => s.over
  /\ s.found => FirstVisible(t, Beyond(t, c), Beyond(t, up), s.at)
  /\ ~s.found => /\ s.at \in up .. c /\ c < Beyond(t, s.at) /\ Beyond(t, c) <= Beyond(t, s.at)
                 /\ Hidden(t, Beyond(t, c), Beyond(t, s.at))
                 /\ s.over <=> s.at = up

(* A turn of the loop over the nodes above finds the sibling or climbs a   *)
(* node.                                                                   *)
LEMMA ClimbKeeps ==
  ASSUME NEW t, IsVisibleTree(t), NEW c \in DOMAIN t, NEW up, ParentOf(t, c, up),
         NEW s, Climbing(t, c, up, s), ~s.over
  PROVE  /\ Climbing(t, c, up, Climb(t, s))
         /\ Climb(t, s).over \/ Climb(t, s).at < s.at
<1>1. /\ IsForest(t) /\ Len(t) \in Nat \ {0} /\ DOMAIN t = 1 .. Len(t) /\ Beyond(t, 1) = Len(t) + 1
      /\ c \in 1 .. Len(t) /\ c < Beyond(t, c) /\ Beyond(t, c) \in Int
  BY VisibleTreeFacts, NodeFacts
<1>2. /\ up \in 1 .. c /\ up \in DOMAIN t /\ Visible(t[up]) /\ c < Beyond(t, up)
      /\ Beyond(t, c) <= Beyond(t, up) /\ (up = c <=> c = 1)
      /\ \A i \in Above(t, c) : Visible(t[i]) => i <= up
  BY DEF ParentOf
<1>3. PICK x \in 1 .. Len(t) : x = s.at
  BY DEF Climbing
<1>4. ~s.found
  BY DEF Climbing
<1>5. /\ x \in up .. c /\ x # up /\ c < Beyond(t, x) /\ Beyond(t, c) <= Beyond(t, x)
      /\ Hidden(t, Beyond(t, c), Beyond(t, x)) /\ x \in DOMAIN t
  BY <1>1, <1>3, <1>4 DEF Climbing
<1>6. Beyond(t, x) \in x + 1 .. Len(t) + 1 /\ Beyond(t, up) \in up + 1 .. Len(t) + 1
  BY <1>1, <1>2, <1>5, NodeFacts
<1>7. up \in Above(t, x)
  BY <1>1, <1>2, <1>5, <1>6 DEF Above, Below
<1>8. PICK p \in Above(t, x) : p = Max(Above(t, x)) /\ \A i \in Above(t, x) : i <= p
  BY <1>1, <1>5, <1>7, AboveIs, MaxIs
<1>9. /\ p \in DOMAIN t /\ p \in 1 .. x - 1 /\ x < Beyond(t, p) /\ Beyond(t, x) <= Beyond(t, p)
      /\ Beyond(t, p) \in p + 1 .. Len(t) + 1 /\ up <= p
  BY <1>1, <1>5, <1>7, <1>8, AboveIs
<1>10. p \in Above(t, c)
  BY <1>1, <1>2, <1>5, <1>6, <1>9 DEF Above, Below
<1>11. (Visible(t[p]) \/ p = 1) <=> p = up
  BY <1>1, <1>2, <1>9, <1>10
<1>12. Beyond(t, p) <= Beyond(t, up)
  <2>1. CASE p = up
    BY <1>6, <2>1
  <2>2. CASE p # up
    <3>1. p \in Below(t, up)
      BY <1>1, <1>2, <1>5, <1>6, <1>9, <2>2 DEF Below
    <3>2. QED
      BY <1>1, <1>2, <3>1 DEF IsForest
  <2>3. QED
    BY <2>1, <2>2
<1>13. PICK moved : moved = GotoChildFrom(t, p, Beyond(t, x))
  OBVIOUS
<1>14. ChildFrom(t, p, Beyond(t, x), moved)
  <2>1. Beyond(t, x) \in p + 1 .. Beyond(t, p)
    BY <1>6, <1>9
  <2>2. QED
    BY <1>1, <1>9, <1>13, <2>1, GotoChildIs
<1>15. CASE FirstVisible(t, Beyond(t, x), Beyond(t, p), moved)
  <2>1. moved \in Beyond(t, x) .. Beyond(t, p) - 1
    BY <1>15 DEF FirstVisible
  <2>2. moved # p /\ moved \in 1 .. Len(t)
    BY <1>1, <1>6, <1>9, <2>1
  <2>3. PICK r : r = [at |-> moved, found |-> TRUE, over |-> TRUE]
    OBVIOUS
  <2>4. Climb(t, s) = r
    BY <1>3, <1>8, <1>13, <2>2, <2>3, Zenon DEF Climb
  <2>5. FirstVisible(t, Beyond(t, c), Beyond(t, p), moved)
    BY <1>1, <1>5, <1>6, <1>9, <1>15, <2>2, FirstAfterHidden
  <2>6. FirstVisible(t, Beyond(t, c), Beyond(t, up), moved)
    BY <1>6, <1>9, <1>12, <2>5 DEF FirstVisible
  <2>7. Climbing(t, c, up, r)
    BY <2>2, <2>3, <2>6 DEF Climbing
  <2>8. r.over
    BY <2>3
  <2>9. QED
    BY <2>4, <2>7, <2>8
<1>16. CASE moved = p /\ Hidden(t, Beyond(t, x), Beyond(t, p))
  <2>1. PICK b \in BOOLEAN : b = (Visible(t[p]) \/ p = 1)
    OBVIOUS
  <2>2. PICK r : r = [at |-> p, found |-> FALSE, over |-> b]
    OBVIOUS
  <2>3. Climb(t, s) = r
    BY <1>3, <1>8, <1>13, <1>16, <2>1, <2>2, Zenon DEF Climb
  <2>4. Hidden(t, Beyond(t, c), Beyond(t, p))
    BY <1>1, <1>5, <1>6, <1>9, <1>16, HiddenJoins
  <2>5. b <=> p = up
    BY <1>11, <2>1
  <2>6. p \in up .. c /\ c < Beyond(t, p) /\ Beyond(t, c) <= Beyond(t, p) /\ p \in 1 .. Len(t) /\ p < x
    BY <1>1, <1>2, <1>5, <1>6, <1>9
  <2>7. Climbing(t, c, up, r)
    BY <2>2, <2>4, <2>5, <2>6 DEF Climbing
  <2>8. r.at < s.at
    BY <1>3, <2>2, <2>6
  <2>9. QED
    BY <2>3, <2>7, <2>8
<1>17. QED
  BY <1>14, <1>15, <1>16 DEF ChildFrom

(* The node goto_next_sibling comes to from a visible node below up: the   *)
(* first visible one after it.                                             *)
SiblingOf(t, c, up, i) ==
  \/ i = c /\ Hidden(t, Beyond(t, c), Beyond(t, up))
  \/ FirstVisible(t, Beyond(t, c), Beyond(t, up), i)

(* goto_next_sibling comes to the first visible node after a node and      *)
(* inside its parent, or stays.                                            *)
LEMMA GotoSiblingIs ==
  ASSUME NEW t, IsVisibleTree(t), NEW c \in DOMAIN t, NEW up, ParentOf(t, c, up)
  PROVE  SiblingOf(t, c, up, ts_tree_cursor_goto_next_sibling(t, c))
<1> DEFINE n == Len(t)
           S == {s \in [at : 1 .. n, found : BOOLEAN, over : BOOLEAN] : Climbing(t, c, up, s)}
           Over == {s \in S : s.over}
           V == [s \in S |-> IF s \in Over THEN 0 ELSE s.at]
           A == [k \in 0 .. n |-> S]
<1>1. n \in Nat \ {0} /\ Len(t) \in Nat /\ c \in 1 .. Len(t) /\ IsForest(t)
      /\ c < Beyond(t, c) /\ Beyond(t, c) \in Int
  BY VisibleTreeFacts, NodeFacts
<1>2. up \in 1 .. c /\ up \in DOMAIN t /\ c < Beyond(t, up)
      /\ Beyond(t, c) <= Beyond(t, up) /\ (up = c <=> c = 1)
  BY DEF ParentOf
<1>3. \A s : Climbing(t, c, up, s) => s \in S
  BY DEF Climbing
<1>4. PICK a : a = [at |-> c, found |-> FALSE, over |-> c = 1]
  OBVIOUS
<1>5. a \in S /\ a.at = c
  <2>1. PICK b \in BOOLEAN : b = (c = 1)
    OBVIOUS
  <2>2. a = [at |-> c, found |-> FALSE, over |-> b]
    BY <1>4, <2>1
  <2>3. Hidden(t, Beyond(t, c), Beyond(t, c))
    BY <1>1 DEF Hidden
  <2>4. b <=> c = up
    BY <1>2, <2>1
  <2>5. c \in up .. c
    BY <1>1, <1>2
  <2>6. Climbing(t, c, up, a)
    BY <1>1, <2>2, <2>3, <2>4, <2>5 DEF Climbing
  <2>7. QED
    BY <1>3, <2>2, <2>6
<1>6. ASSUME NEW s \in S, s \notin Over
      PROVE  Climb(t, s) \in S /\ (Climb(t, s) \in Over \/ Climb(t, s).at < s.at)
  <2>1. Climbing(t, c, up, s) /\ ~s.over
    BY <1>6
  <2>2. Climbing(t, c, up, Climb(t, s)) /\ (Climb(t, s).over \/ Climb(t, s).at < s.at)
    BY <2>1, ClimbKeeps
  <2>3. Climb(t, s) \in S
    BY <1>3, <2>2
  <2>4. QED
    BY <2>2, <2>3
<1>7. ASSUME NEW s \in S, s \in Over
      PROVE  Climb(t, s) = s
  BY <1>7 DEF Climb
<1>8. PICK loop : /\ \A k \in 0 .. n : loop[k] \in A[k]
                  /\ loop[0] = a
                  /\ \A k \in 1 .. n : loop[k] = Climb(t, loop[k - 1])
                  /\ loop[n].found => ts_tree_cursor_goto_next_sibling(t, c) = loop[n].at
                  /\ ~(loop[n].found) => ts_tree_cursor_goto_next_sibling(t, c) = c
  <2>1. a \in A[0]
    BY <1>1, <1>5
  <2>2. \A k \in 1 .. n : \A s \in A[k - 1] : Climb(t, s) \in A[k]
    <3> SUFFICES ASSUME NEW k \in 1 .. n, NEW s \in A[k - 1]
                 PROVE  Climb(t, s) \in A[k]
      OBVIOUS
    <3>1. A[k - 1] = S /\ A[k] = S
      BY <1>1
    <3> HIDE DEF A, S
    <3>2. QED
      BY <1>6, <1>7, <3>1
  <2> HIDE DEF A, S
  <2>3. PICK loop : IsClimbLoop(t, c, n, A, a, loop)
    BY <1>1, <1>4, <2>1, <2>2, ClimbTurns
  <2>4. QED
    BY <2>3 DEF IsClimbLoop
<1>9. \A k \in 0 .. n : loop[k] \in S
  BY <1>8
<1>10. \A s \in S : V[s] \in Nat /\ (V[s] = 0 => s \in Over)
  <2> SUFFICES ASSUME NEW s \in S
               PROVE  V[s] \in Nat /\ (V[s] = 0 => s \in Over)
    OBVIOUS
  <2>1. s.at \in 1 .. n
    OBVIOUS
  <2>2. V[s] = IF s \in Over THEN 0 ELSE s.at
    OBVIOUS
  <2> HIDE DEF V, S, Over
  <2>3. QED
    BY <1>1, <2>1, <2>2
<1>11. V[loop[0]] <= n
  BY <1>1, <1>5, <1>8
<1>12. \A k \in 1 .. n : loop[k] \in Over \/ (loop[k - 1] \notin Over /\ V[loop[k]] < V[loop[k - 1]])
  <2> SUFFICES ASSUME NEW k \in 1 .. n, loop[k] \notin Over
               PROVE  loop[k - 1] \notin Over /\ V[loop[k]] < V[loop[k - 1]]
    OBVIOUS
  <2>1. k - 1 \in 0 .. n /\ k \in 0 .. n
    BY <1>1
  <2>2. loop[k - 1] \in S /\ loop[k] \in S /\ loop[k] = Climb(t, loop[k - 1])
    BY <1>8, <1>9, <2>1
  <2>3. V[loop[k]] = (IF loop[k] \in Over THEN 0 ELSE loop[k].at)
        /\ V[loop[k - 1]] = IF loop[k - 1] \in Over THEN 0 ELSE loop[k - 1].at
    BY <2>2
  <2> HIDE DEF S, Over, V
  <2>4. loop[k - 1] \notin Over
    BY <1>7, <2>2
  <2>5. loop[k].at < loop[k - 1].at
    BY <1>6, <2>2, <2>4
  <2>6. QED
    BY <2>3, <2>4, <2>5
<1>13. loop[n] \in Over
  <2> HIDE DEF S, Over, V
  <2>1. QED
    BY <1>1, <1>9, <1>10, <1>11, <1>12, LoopEnds
<1>14. PICK s \in S : s = loop[n] /\ s.over /\ Climbing(t, c, up, s)
  BY <1>13
<1>15. CASE s.found
  <2>1. FirstVisible(t, Beyond(t, c), Beyond(t, up), s.at)
    BY <1>14, <1>15 DEF Climbing
  <2>2. ts_tree_cursor_goto_next_sibling(t, c) = s.at
    BY <1>8, <1>14, <1>15
  <2>3. QED
    BY <2>1, <2>2 DEF SiblingOf
<1>16. CASE ~s.found
  <2>1. Hidden(t, Beyond(t, c), Beyond(t, s.at)) /\ s.at = up
    BY <1>14, <1>16 DEF Climbing
  <2>2. ts_tree_cursor_goto_next_sibling(t, c) = c
    BY <1>8, <1>14, <1>16
  <2>3. QED
    BY <2>1, <2>2 DEF SiblingOf
<1>17. QED
  BY <1>15, <1>16

(***************************************************************************)
(* Traverse.                                                               *)
(***************************************************************************)
(* Where the inner loop is, at s, when it climbs from c: at a visible node *)
(* around c with nothing visible after c in the node above it, or at the   *)
(* first visible node after c, or at the root when there is none.          *)
Retracing(t, c, s) ==
  /\ s = [at |-> s.at, root |-> s.root, over |-> s.over]
  /\ s.root \in BOOLEAN /\ s.over \in BOOLEAN /\ s.at \in 1 .. Len(t)
  /\ s.root => s.over
  /\ s.root => Hidden(t, c + 1, Len(t) + 1)
  /\ s.over /\ ~s.root => FirstVisible(t, c + 1, Len(t) + 1, s.at)
  /\ ~s.over => /\ Visible(t[s.at]) /\ s.at <= c /\ c < Beyond(t, s.at)
                /\ Hidden(t, c + 1, Beyond(t, ts_tree_cursor_goto_parent(t, s.at)))

(* A turn of the inner loop of Traverse comes to the next visible node, to *)
(* the root, or climbs.                                                    *)
LEMMA RetraceKeeps ==
  ASSUME NEW t, IsVisibleTree(t), NEW c \in DOMAIN t, NEW s, Retracing(t, c, s), ~s.over
  PROVE  /\ Retracing(t, c, Retrace(t, s))
         /\ Retrace(t, s).over \/ Retrace(t, s).at < s.at
<1>1. /\ IsForest(t) /\ Len(t) \in Nat \ {0} /\ DOMAIN t = 1 .. Len(t) /\ Beyond(t, 1) = Len(t) + 1
      /\ c \in 1 .. Len(t)
  BY VisibleTreeFacts
<1>2. PICK x \in DOMAIN t : x = s.at /\ Visible(t[x]) /\ x <= c /\ c < Beyond(t, x)
  BY <1>1 DEF Retracing
<1>3. PICK up : up = ts_tree_cursor_goto_parent(t, x)
  OBVIOUS
<1>4. ParentOf(t, x, up)
  BY <1>2, <1>3, GotoParentIs
<1>5. up \in 1 .. x /\ up \in DOMAIN t /\ Visible(t[up]) /\ (up = x <=> x = 1)
  BY <1>4 DEF ParentOf
<1>6. Hidden(t, c + 1, Beyond(t, up)) /\ Beyond(t, up) \in up + 1 .. Len(t) + 1
  BY <1>1, <1>2, <1>3, <1>5, NodeFacts DEF Retracing
<1>7. PICK next : next = ts_tree_cursor_goto_next_sibling(t, up)
  OBVIOUS
<1>8. CASE up = x
  <2>1. Hidden(t, c + 1, Len(t) + 1)
    BY <1>1, <1>5, <1>6, <1>8
  <2>2. next \in 1 .. Len(t)
    <3>1. ParentOf(t, x, x)
      BY <1>4, <1>8
    <3>2. SiblingOf(t, x, x, next)
      BY <1>2, <1>7, <1>8, <3>1, GotoSiblingIs
    <3>3. CASE next = x
      BY <1>1, <1>2, <3>3
    <3>4. CASE next # x
      <4>1. next \in Beyond(t, x) .. Beyond(t, x) - 1
        BY <3>2, <3>4 DEF SiblingOf, FirstVisible
      <4>2. QED
        BY <1>6, <1>8, <4>1
    <3>5. QED
      BY <3>3, <3>4
  <2>3. PICK r : r = [at |-> next, root |-> TRUE, over |-> TRUE]
    OBVIOUS
  <2>4. Retrace(t, s) = r
    <3>1. (up = x) = TRUE /\ (up = x \/ next # up) = TRUE
      BY <1>8
    <3>2. Retrace(t, s) = [at |-> next, root |-> up = x, over |-> up = x \/ next # up]
      BY <1>2, <1>3, <1>7, Zenon DEF Retrace
    <3>3. QED
      BY <2>3, <3>1, <3>2
  <2>5. Retracing(t, c, r)
    BY <2>1, <2>2, <2>3 DEF Retracing
  <2>6. r.over
    BY <2>3
  <2>7. QED
    BY <2>4, <2>5, <2>6
<1>9. CASE up # x
  <2>1. PICK upper : upper = ts_tree_cursor_goto_parent(t, up)
    OBVIOUS
  <2>2. ParentOf(t, up, upper)
    BY <1>5, <2>1, GotoParentIs
  <2>3. upper \in 1 .. up /\ upper \in DOMAIN t
    BY <2>2 DEF ParentOf
  <2>4. Beyond(t, upper) \in upper + 1 .. Len(t) + 1 /\ Beyond(t, up) <= Beyond(t, upper)
    BY <1>1, <2>2, <2>3, NodeFacts DEF ParentOf
  <2>5. SiblingOf(t, up, upper, next)
    BY <1>5, <1>7, <2>2, GotoSiblingIs
  <2>6. CASE FirstVisible(t, Beyond(t, up), Beyond(t, upper), next)
    <3>1. next \in Beyond(t, up) .. Beyond(t, upper) - 1
      BY <2>6 DEF FirstVisible
    <3>2. next # up /\ next \in 1 .. Len(t)
      BY <1>1, <1>5, <1>6, <2>4, <3>1
    <3>3. PICK r : r = [at |-> next, root |-> FALSE, over |-> TRUE]
      OBVIOUS
    <3>4. Retrace(t, s) = r
      <4>1. (up = x) = FALSE /\ (up = x \/ next # up) = TRUE
        BY <1>9, <3>2
      <4>2. Retrace(t, s) = [at |-> next, root |-> up = x, over |-> up = x \/ next # up]
        BY <1>2, <1>3, <1>7, Zenon DEF Retrace
      <4>3. QED
        BY <3>3, <4>1, <4>2
    <3>5. FirstVisible(t, c + 1, Len(t) + 1, next)
      <4>1. c + 1 <= Beyond(t, up)
        <5>1. Beyond(t, x) <= Beyond(t, up) /\ Beyond(t, x) \in Int
          BY <1>1, <1>4, NodeFacts DEF ParentOf
        <5>2. QED
          BY <1>1, <1>2, <1>6, <5>1
      <4>2. FirstVisible(t, c + 1, Beyond(t, upper), next)
        BY <1>1, <1>6, <2>4, <2>6, <3>2, <4>1, FirstAfterHidden
      <4>3. QED
        BY <1>1, <2>4, <4>2 DEF FirstVisible
    <3>6. Retracing(t, c, r)
      BY <3>2, <3>3, <3>5 DEF Retracing
    <3>7. r.over
      BY <3>3
    <3>8. QED
      BY <3>4, <3>6, <3>7
  <2>7. CASE next = up /\ Hidden(t, Beyond(t, up), Beyond(t, upper))
    <3>1. PICK r : r = [at |-> up, root |-> FALSE, over |-> FALSE]
      OBVIOUS
    <3>2. Retrace(t, s) = r
      <4>1. (up = x) = FALSE /\ (up = x \/ next # up) = FALSE
        BY <1>9, <2>7
      <4>2. Retrace(t, s) = [at |-> next, root |-> up = x, over |-> up = x \/ next # up]
        BY <1>2, <1>3, <1>7, Zenon DEF Retrace
      <4>3. QED
        BY <2>7, <3>1, <4>1, <4>2
    <3>7. up <= c /\ c < Beyond(t, up)
      <4>1. Beyond(t, x) <= Beyond(t, up) /\ Beyond(t, x) \in Int
        BY <1>1, <1>4, NodeFacts DEF ParentOf
      <4>2. QED
        BY <1>1, <1>2, <1>5, <1>6, <4>1
    <3>3. Hidden(t, c + 1, Beyond(t, upper))
      BY <1>1, <1>6, <2>4, <2>7, HiddenJoins
    <3>4. Retracing(t, c, r)
      BY <1>1, <1>5, <2>1, <3>1, <3>3, <3>7 DEF Retracing
    <3>5. r.at < s.at
      BY <1>1, <1>2, <1>5, <1>9, <3>1
    <3>6. QED
      BY <3>2, <3>4, <3>5
  <2>8. QED
    BY <2>5, <2>6, <2>7 DEF SiblingOf
<1>10. QED
  BY <1>8, <1>9

(* The inner loop ends, at the next visible node of the tree or at the     *)
(* root when there is none.                                                *)
LEMMA RetracedIs ==
  ASSUME NEW t, IsVisibleTree(t), NEW c \in DOMAIN t, Visible(t[c]),
         Hidden(t, c + 1, Beyond(t, ts_tree_cursor_goto_parent(t, c)))
  PROVE  Retraced(t, c).over /\ Retracing(t, c, Retraced(t, c))
<1> DEFINE n == Len(t)
           S == {s \in [at : 1 .. n, root : BOOLEAN, over : BOOLEAN] : Retracing(t, c, s)}
           Over == {s \in S : s.over}
           V == [s \in S |-> IF s \in Over THEN 0 ELSE s.at]
           A == [k \in 0 .. n |-> S]
<1>1. n \in Nat \ {0} /\ Len(t) \in Nat /\ c \in 1 .. Len(t) /\ IsForest(t)
      /\ c < Beyond(t, c) /\ Beyond(t, c) \in Int
  BY VisibleTreeFacts, NodeFacts
<1>2. \A s : Retracing(t, c, s) => s \in S
  BY DEF Retracing
<1>3. PICK a : a = [at |-> c, root |-> FALSE, over |-> FALSE]
  OBVIOUS
<1>4. a \in S /\ a.at = c
  <2>1. Retracing(t, c, a)
    BY <1>1, <1>3 DEF Retracing
  <2>2. QED
    BY <1>2, <1>3, <2>1
<1>5. ASSUME NEW s \in S, s \notin Over
      PROVE  Retrace(t, s) \in S /\ (Retrace(t, s) \in Over \/ Retrace(t, s).at < s.at)
  <2>1. Retracing(t, c, s) /\ ~s.over
    BY <1>5
  <2>2. Retracing(t, c, Retrace(t, s)) /\ (Retrace(t, s).over \/ Retrace(t, s).at < s.at)
    BY <2>1, RetraceKeeps
  <2>3. Retrace(t, s) \in S
    BY <1>2, <2>2
  <2>4. QED
    BY <2>2, <2>3
<1>6. ASSUME NEW s \in S, s \in Over
      PROVE  Retrace(t, s) = s
  BY <1>6 DEF Retrace
<1>7. PICK loop : /\ \A k \in 0 .. n : loop[k] \in A[k]
                  /\ loop[0] = a
                  /\ \A k \in 1 .. n : loop[k] = Retrace(t, loop[k - 1])
                  /\ Retraced(t, c) = loop[n]
  <2>1. a \in A[0]
    BY <1>1, <1>4
  <2>2. \A k \in 1 .. n : \A s \in A[k - 1] : Retrace(t, s) \in A[k]
    <3> SUFFICES ASSUME NEW k \in 1 .. n, NEW s \in A[k - 1]
                 PROVE  Retrace(t, s) \in A[k]
      OBVIOUS
    <3>1. A[k - 1] = S /\ A[k] = S
      BY <1>1
    <3> HIDE DEF A, S
    <3>2. QED
      BY <1>5, <1>6, <3>1
  <2> HIDE DEF A, S
  <2>3. PICK loop : IsRetraceLoop(t, c, n, A, a, loop)
    BY <1>1, <1>3, <2>1, <2>2, RetraceTurns
  <2>4. QED
    BY <2>3 DEF IsRetraceLoop
<1>8. \A k \in 0 .. n : loop[k] \in S
  BY <1>7
<1>9. \A s \in S : V[s] \in Nat /\ (V[s] = 0 => s \in Over)
  <2> SUFFICES ASSUME NEW s \in S
               PROVE  V[s] \in Nat /\ (V[s] = 0 => s \in Over)
    OBVIOUS
  <2>1. s.at \in 1 .. n
    OBVIOUS
  <2>2. V[s] = IF s \in Over THEN 0 ELSE s.at
    OBVIOUS
  <2> HIDE DEF V, S, Over
  <2>3. QED
    BY <1>1, <2>1, <2>2
<1>10. V[loop[0]] <= n
  BY <1>1, <1>4, <1>7
<1>11. \A k \in 1 .. n : loop[k] \in Over \/ (loop[k - 1] \notin Over /\ V[loop[k]] < V[loop[k - 1]])
  <2> SUFFICES ASSUME NEW k \in 1 .. n, loop[k] \notin Over
               PROVE  loop[k - 1] \notin Over /\ V[loop[k]] < V[loop[k - 1]]
    OBVIOUS
  <2>1. k - 1 \in 0 .. n /\ k \in 0 .. n
    BY <1>1
  <2>2. loop[k - 1] \in S /\ loop[k] \in S /\ loop[k] = Retrace(t, loop[k - 1])
    BY <1>7, <1>8, <2>1
  <2>3. V[loop[k]] = (IF loop[k] \in Over THEN 0 ELSE loop[k].at)
        /\ V[loop[k - 1]] = IF loop[k - 1] \in Over THEN 0 ELSE loop[k - 1].at
    BY <2>2
  <2> HIDE DEF S, Over, V
  <2>4. loop[k - 1] \notin Over
    BY <1>6, <2>2
  <2>5. loop[k].at < loop[k - 1].at
    BY <1>5, <2>2, <2>4
  <2>6. QED
    BY <2>3, <2>4, <2>5
<1>12. loop[n] \in Over
  <2> HIDE DEF S, Over, V
  <2>1. QED
    BY <1>1, <1>8, <1>9, <1>10, <1>11, LoopEnds
<1>13. QED
  BY <1>7, <1>12

(* Where the outer loop is, at s: it has seen the visible nodes before the *)
(* one it is at, or every visible node when it is over.                    *)
Walking(t, s) ==
  /\ s = [at |-> s.at, seen |-> s.seen, over |-> s.over]
  /\ s.over \in BOOLEAN /\ s.at \in 1 .. Len(t) /\ s.seen \in Seq(1 .. Len(t))
  /\ \A i \in 1 .. Len(s.seen) - 1 : s.seen[i] < s.seen[i + 1]
  /\ \A i \in 1 .. Len(s.seen) : Visible(t[s.seen[i]])
  /\ ~s.over => /\ Visible(t[s.at])
                /\ \A i \in 1 .. Len(s.seen) : s.seen[i] < s.at
                /\ \A j \in 1 .. s.at - 1 : Visible(t[j]) => \E i \in 1 .. Len(s.seen) : s.seen[i] = j
  /\ s.over => \A j \in 1 .. Len(t) : Visible(t[j]) => \E i \in 1 .. Len(s.seen) : s.seen[i] = j

(* One more node is seen.                                                  *)
SeenUpTo(t, seen, c) ==
  /\ seen \in Seq(1 .. Len(t))
  /\ \A i \in 1 .. Len(seen) - 1 : seen[i] < seen[i + 1]
  /\ \A i \in 1 .. Len(seen) : Visible(t[seen[i]]) /\ seen[i] <= c
  /\ \A j \in 1 .. c : Visible(t[j]) => \E i \in 1 .. Len(seen) : seen[i] = j

(* One more node is seen.                                                  *)
LEMMA SeesOneMore ==
  ASSUME NEW t, NEW s, Walking(t, s), ~s.over, Len(t) \in Nat, NEW seen, seen = Append(s.seen, s.at)
  PROVE  SeenUpTo(t, seen, s.at)
<1>1. PICK old \in Seq(1 .. Len(t)) : old = s.seen
  BY DEF Walking
<1>2. PICK at \in 1 .. Len(t) : at = s.at
  BY DEF Walking
<1>3. PICK m \in Nat : m = Len(old)
  OBVIOUS
<1>4. /\ \A i \in 1 .. m - 1 : old[i] < old[i + 1]
      /\ \A i \in 1 .. m : Visible(t[old[i]])
      /\ Visible(t[at])
      /\ \A i \in 1 .. m : old[i] < at
      /\ \A j \in 1 .. at - 1 : Visible(t[j]) => \E i \in 1 .. m : old[i] = j
  BY <1>1, <1>2, <1>3 DEF Walking
<1>5. /\ seen \in Seq(1 .. Len(t)) /\ Len(seen) = m + 1
      /\ \A i \in 1 .. m : seen[i] = old[i]
      /\ seen[m + 1] = at
  BY <1>1, <1>2, <1>3, AppendProperties
<1>6. ASSUME NEW i \in 1 .. Len(seen) - 1
      PROVE  seen[i] < seen[i + 1]
  <2>1. i \in 1 .. m
    BY <1>3, <1>5
  <2>2. CASE i = m
    <3>1. seen[i] = old[i] /\ seen[i + 1] = at
      BY <1>5, <2>1, <2>2
    <3>2. QED
      BY <1>4, <2>1, <3>1
  <2>3. CASE i # m
    <3>1. i \in 1 .. m - 1 /\ i + 1 \in 1 .. m
      BY <1>3, <2>1, <2>3
    <3>2. QED
      BY <1>4, <1>5, <2>1, <3>1
  <2>4. QED
    BY <2>2, <2>3
<1>7. ASSUME NEW i \in 1 .. Len(seen)
      PROVE  Visible(t[seen[i]]) /\ seen[i] <= s.at
  <2>1. i \in 1 .. m \/ i = m + 1
    BY <1>3, <1>5
  <2>2. CASE i \in 1 .. m
    <3>1. old[i] \in 1 .. Len(t) /\ old[i] < at
      BY <1>1, <1>3, <1>4, <2>2
    <3>2. seen[i] = old[i]
      BY <1>5, <2>2
    <3>3. QED
      BY <1>2, <1>4, <2>2, <3>1, <3>2
  <2>3. CASE i = m + 1
    BY <1>2, <1>4, <1>5, <2>3
  <2>4. QED
    BY <2>1, <2>2, <2>3
<1>8. ASSUME NEW j \in 1 .. s.at, Visible(t[j])
      PROVE  \E i \in 1 .. Len(seen) : seen[i] = j
  <2>1. CASE j = at
    <3>1. m + 1 \in 1 .. Len(seen)
      BY <1>3, <1>5
    <3>2. QED
      BY <1>5, <2>1, <3>1
  <2>2. CASE j # at
    <3>1. j \in 1 .. at - 1
      BY <1>2, <2>2
    <3>2. PICK i \in 1 .. m : old[i] = j
      BY <1>4, <1>8, <3>1
    <3>3. i \in 1 .. Len(seen)
      BY <1>3, <1>5
    <3>4. QED
      BY <1>5, <3>2, <3>3
  <2>3. QED
    BY <2>1, <2>2
<1>9. QED
  BY <1>5, <1>6, <1>7, <1>8 DEF SeenUpTo

(* A turn of the outer loop yields the node it is at and goes on to the    *)
(* next visible one.                                                       *)
LEMMA WalkKeeps ==
  ASSUME NEW t, IsVisibleTree(t), NEW s, Walking(t, s), ~s.over
  PROVE  /\ Walking(t, Walk(t, s))
         /\ Walk(t, s).over \/ s.at < Walk(t, s).at
<1>1. /\ IsForest(t) /\ Len(t) \in Nat \ {0} /\ DOMAIN t = 1 .. Len(t) /\ Beyond(t, 1) = Len(t) + 1
  BY VisibleTreeFacts
<1>2. PICK c \in DOMAIN t : c = s.at /\ Visible(t[c])
  BY <1>1 DEF Walking
<1>3. PICK child : child = ts_tree_cursor_goto_first_child(t, c)
  OBVIOUS
<1>4. PICK sibling : sibling = ts_tree_cursor_goto_next_sibling(t, c)
  OBVIOUS
<1>5. PICK back : back = Retraced(t, c)
  OBVIOUS
<1>6. PICK seen : seen = Append(s.seen, c)
  OBVIOUS
<1>7. /\ seen \in Seq(1 .. Len(t))
      /\ \A i \in 1 .. Len(seen) - 1 : seen[i] < seen[i + 1]
      /\ \A i \in 1 .. Len(seen) : Visible(t[seen[i]]) /\ seen[i] <= c
      /\ \A j \in 1 .. c : Visible(t[j]) => \E i \in 1 .. Len(seen) : seen[i] = j
  <2>1. SeenUpTo(t, seen, c)
    BY <1>1, <1>2, <1>6, SeesOneMore
  <2>2. QED
    BY <2>1 DEF SeenUpTo
<1>8. c \in 1 .. Len(t) /\ Beyond(t, c) \in c + 1 .. Len(t) + 1
  BY <1>1, <1>2, NodeFacts
<1>9. PICK up : up = ts_tree_cursor_goto_parent(t, c)
  OBVIOUS
<1>10. ParentOf(t, c, up)
  BY <1>2, <1>9, GotoParentIs
<1>11. up \in DOMAIN t /\ Beyond(t, c) <= Beyond(t, up) /\ Beyond(t, up) \in up + 1 .. Len(t) + 1
  <2>1. up \in DOMAIN t /\ Beyond(t, c) <= Beyond(t, up)
    BY <1>10 DEF ParentOf
  <2>2. QED
    BY <1>1, <2>1, NodeFacts
<1>12. ChildFrom(t, c, c + 1, child)
  <2>1. c + 1 \in c + 1 .. Beyond(t, c)
    BY <1>8
  <2>2. QED
    BY <1>1, <1>3, <2>1, GotoChildIs DEF ts_tree_cursor_goto_first_child
<1>13. SiblingOf(t, c, up, sibling)
  BY <1>4, <1>10, GotoSiblingIs
<1>14. ASSUME NEW next, FirstVisible(t, c + 1, Len(t) + 1, next),
              NEW r, r = [at |-> next, seen |-> seen, over |-> FALSE]
       PROVE  Walking(t, r) /\ c < r.at
  <2>1. next \in c + 1 .. Len(t) /\ Visible(t[next]) /\ Hidden(t, c + 1, next)
    BY <1>14 DEF FirstVisible
  <2>2. next \in 1 .. Len(t) /\ c < next
    BY <1>1, <1>8, <2>1
  <2>3. \A i \in 1 .. Len(seen) : seen[i] < next
    <3> SUFFICES ASSUME NEW i \in 1 .. Len(seen)
                 PROVE  seen[i] < next
      OBVIOUS
    <3>1. seen[i] <= c /\ seen[i] \in 1 .. Len(t)
      BY <1>7
    <3>2. QED
      BY <1>8, <2>2, <3>1
  <2>4. ASSUME NEW j \in 1 .. next - 1, Visible(t[j])
        PROVE  \E i \in 1 .. Len(seen) : seen[i] = j
    <3>1. j \in 1 .. c \/ j \in c + 1 .. next - 1
      BY <1>8, <2>2
    <3>2. j \in 1 .. c
      BY <2>1, <2>4, <3>1 DEF Hidden
    <3>3. QED
      BY <1>7, <2>4, <3>2
  <2>5. Walking(t, r)
    BY <1>7, <1>14, <2>1, <2>2, <2>3, <2>4 DEF Walking
  <2>6. QED
    BY <1>14, <2>2, <2>5
<1>15. CASE child # c
  <2>1. FirstVisible(t, c + 1, Beyond(t, c), child)
    BY <1>12, <1>15 DEF ChildFrom
  <2>2. FirstVisible(t, c + 1, Len(t) + 1, child)
    BY <1>1, <1>8, <2>1 DEF FirstVisible
  <2>3. PICK r : r = [at |-> child, seen |-> seen, over |-> FALSE]
    OBVIOUS
  <2>4. Walk(t, s) = r
    BY <1>2, <1>3, <1>6, <1>15, <2>3, Zenon DEF Walk
  <2>5. QED
    BY <1>2, <1>14, <2>2, <2>3, <2>4
<1>16. CASE child = c /\ sibling # c
  <2>0. Hidden(t, c + 1, Beyond(t, c))
    <3>1. child \notin c + 1 .. Beyond(t, c) - 1
      BY <1>8, <1>16
    <3>2. QED
      BY <1>12, <3>1 DEF ChildFrom, FirstVisible
  <2>1. FirstVisible(t, Beyond(t, c), Beyond(t, up), sibling)
    BY <1>13, <1>16 DEF SiblingOf
  <2>2. sibling \in Beyond(t, c) .. Beyond(t, up) - 1
    BY <2>1 DEF FirstVisible
  <2>3. FirstVisible(t, c + 1, Beyond(t, up), sibling)
    BY <1>8, <1>11, <2>0, <2>1, <2>2, FirstAfterHidden
  <2>4. FirstVisible(t, c + 1, Len(t) + 1, sibling)
    BY <1>1, <1>11, <2>3 DEF FirstVisible
  <2>5. PICK r : r = [at |-> sibling, seen |-> seen, over |-> FALSE]
    OBVIOUS
  <2>6. Walk(t, s) = r
    BY <1>2, <1>3, <1>4, <1>6, <1>16, <2>5, Zenon DEF Walk
  <2>7. QED
    BY <1>2, <1>14, <2>4, <2>5, <2>6
<1>17. CASE child = c /\ sibling = c
  <2>1. Hidden(t, c + 1, Beyond(t, c))
    <3>1. child \notin c + 1 .. Beyond(t, c) - 1
      BY <1>8, <1>17
    <3>2. QED
      BY <1>12, <3>1 DEF ChildFrom, FirstVisible
  <2>2. Hidden(t, Beyond(t, c), Beyond(t, up))
    <3>1. sibling \notin Beyond(t, c) .. Beyond(t, up) - 1
      BY <1>8, <1>17
    <3>2. QED
      BY <1>13, <3>1 DEF SiblingOf, FirstVisible
  <2>3. Hidden(t, c + 1, Beyond(t, up))
    BY <1>8, <1>11, <2>1, <2>2, HiddenJoins
  <2>4. back.over /\ Retracing(t, c, back)
    BY <1>2, <1>5, <1>9, <2>3, RetracedIs
  <2>5. back.root \in BOOLEAN /\ back.at \in 1 .. Len(t)
    BY <2>4 DEF Retracing
  <2>6. PICK r : r = [at |-> back.at, seen |-> seen, over |-> back.root]
    OBVIOUS
  <2>7. Walk(t, s) = r
    BY <1>2, <1>3, <1>4, <1>5, <1>6, <1>17, <2>6, Zenon DEF Walk
  <2>8. CASE back.root
    <3>1. Hidden(t, c + 1, Len(t) + 1)
      BY <2>4, <2>8 DEF Retracing
    <3>2. ASSUME NEW j \in 1 .. Len(t), Visible(t[j])
          PROVE  \E i \in 1 .. Len(seen) : seen[i] = j
      <4>1. j \in 1 .. c \/ j \in c + 1 .. (Len(t) + 1) - 1
        BY <1>1, <1>8
      <4>2. j \in 1 .. c
        BY <3>1, <3>2, <4>1 DEF Hidden
      <4>3. QED
        BY <1>7, <3>2, <4>2
    <3>3. Walking(t, r)
      BY <1>7, <2>5, <2>6, <2>8, <3>2 DEF Walking
    <3>4. r.over
      BY <2>6, <2>8
    <3>5. QED
      BY <2>7, <3>3, <3>4
  <2>9. CASE ~back.root
    <3>1. FirstVisible(t, c + 1, Len(t) + 1, back.at)
      BY <2>4, <2>9 DEF Retracing
    <3>2. r = [at |-> back.at, seen |-> seen, over |-> FALSE]
      BY <2>5, <2>6, <2>9
    <3>3. QED
      BY <1>2, <1>14, <2>7, <3>1, <3>2
  <2>10. QED
    BY <2>8, <2>9
<1>18. QED
  BY <1>15, <1>16, <1>17

(* SyntaxTreeWalker.Traverse visits every visible node of a tree once and  *)
(* in order, and comes to an end.                                          *)
LEMMA TraverseIs ==
  ASSUME NEW t, IsVisibleTree(t)
  PROVE  Traverse(t).over /\ Walking(t, Traverse(t))
<1> DEFINE n == Len(t)
           S == {s \in [at : 1 .. n, seen : Seq(1 .. n), over : BOOLEAN] : Walking(t, s)}
           Over == {s \in S : s.over}
           V == [s \in S |-> IF s \in Over THEN 0 ELSE n + 1 - s.at]
           A == [k \in 0 .. n |-> S]
<1>1. n \in Nat \ {0} /\ Len(t) \in Nat /\ IsForest(t) /\ Visible(t[1]) /\ n = Len(t)
  BY VisibleTreeFacts
<1>2. \A s : Walking(t, s) => s \in S
  BY DEF Walking
<1>3. PICK a : a = [at |-> 1, seen |-> <<>>, over |-> FALSE]
  OBVIOUS
<1>4. a \in S /\ a.at = 1
  <2>1. a.seen = <<>> /\ Len(a.seen) = 0 /\ a.seen \in Seq(1 .. Len(t))
    BY <1>3
  <2>2. Walking(t, a)
    BY <1>1, <1>3, <2>1 DEF Walking
  <2>3. QED
    BY <1>2, <1>3, <2>2
<1>5. ASSUME NEW s \in S, s \notin Over
      PROVE  Walk(t, s) \in S /\ (Walk(t, s) \in Over \/ s.at < Walk(t, s).at)
  <2>1. Walking(t, s) /\ ~s.over
    BY <1>5
  <2>2. Walking(t, Walk(t, s)) /\ (Walk(t, s).over \/ s.at < Walk(t, s).at)
    BY <2>1, WalkKeeps
  <2>3. Walk(t, s) \in S
    BY <1>2, <2>2
  <2>4. QED
    BY <2>2, <2>3
<1>6. ASSUME NEW s \in S, s \in Over
      PROVE  Walk(t, s) = s
  BY <1>6 DEF Walk
<1>7. PICK loop : /\ \A k \in 0 .. n : loop[k] \in A[k]
                  /\ loop[0] = a
                  /\ \A k \in 1 .. n : loop[k] = Walk(t, loop[k - 1])
                  /\ Traverse(t) = loop[n]
  <2>1. a \in A[0]
    BY <1>1, <1>4
  <2>2. \A k \in 1 .. n : \A s \in A[k - 1] : Walk(t, s) \in A[k]
    <3> SUFFICES ASSUME NEW k \in 1 .. n, NEW s \in A[k - 1]
                 PROVE  Walk(t, s) \in A[k]
      OBVIOUS
    <3>1. A[k - 1] = S /\ A[k] = S
      BY <1>1
    <3> HIDE DEF A, S
    <3>2. QED
      BY <1>5, <1>6, <3>1
  <2> HIDE DEF A, S
  <2>3. PICK loop : IsWalkLoop(t, n, A, a, loop)
    BY <1>1, <1>3, <2>1, <2>2, WalkTurns
  <2>4. QED
    BY <2>3 DEF IsWalkLoop
<1>8. \A k \in 0 .. n : loop[k] \in S
  BY <1>7
<1>9. \A s \in S : V[s] \in Nat /\ (V[s] = 0 => s \in Over)
  <2> SUFFICES ASSUME NEW s \in S
               PROVE  V[s] \in Nat /\ (V[s] = 0 => s \in Over)
    OBVIOUS
  <2>1. s.at \in 1 .. n
    OBVIOUS
  <2>2. V[s] = IF s \in Over THEN 0 ELSE n + 1 - s.at
    OBVIOUS
  <2> HIDE DEF V, S, Over
  <2>3. QED
    BY <1>1, <2>1, <2>2
<1>10. V[loop[0]] <= n
  BY <1>1, <1>4, <1>7
<1>11. \A k \in 1 .. n : loop[k] \in Over \/ (loop[k - 1] \notin Over /\ V[loop[k]] < V[loop[k - 1]])
  <2> SUFFICES ASSUME NEW k \in 1 .. n, loop[k] \notin Over
               PROVE  loop[k - 1] \notin Over /\ V[loop[k]] < V[loop[k - 1]]
    OBVIOUS
  <2>1. k - 1 \in 0 .. n /\ k \in 0 .. n
    BY <1>1
  <2>2. loop[k - 1] \in S /\ loop[k] \in S /\ loop[k] = Walk(t, loop[k - 1])
    BY <1>7, <1>8, <2>1
  <2>3. /\ V[loop[k]] = IF loop[k] \in Over THEN 0 ELSE n + 1 - loop[k].at
        /\ V[loop[k - 1]] = IF loop[k - 1] \in Over THEN 0 ELSE n + 1 - loop[k - 1].at
    BY <2>2
  <2>4. loop[k].at \in 1 .. n /\ loop[k - 1].at \in 1 .. n
    BY <2>2
  <2> HIDE DEF S, Over, V
  <2>5. loop[k - 1] \notin Over
    BY <1>6, <2>2
  <2>6. loop[k - 1].at < loop[k].at
    BY <1>5, <2>2, <2>5
  <2>7. QED
    BY <1>1, <2>3, <2>4, <2>5, <2>6
<1>12. loop[n] \in Over
  <2> HIDE DEF S, Over, V
  <2>1. QED
    BY <1>1, <1>8, <1>9, <1>10, <1>11, LoopEnds
<1>13. QED
  BY <1>7, <1>12

(***************************************************************************)
(* Where the contents of the nodes lie in the tree of a text.              *)
(***************************************************************************)
IsRead(text, t, P, C) ==
  /\ IsText(text) /\ SoundTree(text, t) /\ P = Pos(t)
  /\ C = [j \in 1 .. Len(t) |-> P[j] + t[j].pad.b]

(* A node with children begins with the blanks of its first child.         *)
LEMMA PadOfFirst ==
  ASSUME NEW text, NEW t, NEW P, NEW C, IsRead(text, t, P, C), NEW j \in DOMAIN t, ~Leaf(t[j])
  PROVE  /\ j + 1 \in DOMAIN t /\ t[j].pad = t[j + 1].pad /\ P[j + 1] = P[j]
         /\ Beyond(t, j + 1) <= Beyond(t, j)
<1>0. IsText(text) /\ SoundTree(text, t) /\ P = Pos(t) /\ Fits(text, t)
  BY DEF IsRead, SoundTree
<1>1. IsForest(t) /\ Len(t) \in Nat /\ DOMAIN t = 1 .. Len(t) /\ Measured(t, P)
  BY <1>0, FitsIs
<1>2. j + 1 \in Below(t, j) /\ Beyond(t, j) \in Nat /\ j \in Nat /\ Beyond(t, j) # j + 1 /\ j < Beyond(t, j)
  BY <1>1, NodeFacts
<1>3. j + 1 \in DOMAIN t
  BY <1>1, <1>2, BelowIs
<1>4. P[j + 1] = P[j]
  BY <1>1 DEF Measured
<1>5. Beyond(t, j + 1) <= Beyond(t, j)
  BY <1>1, <1>2 DEF IsForest
<1>6. PICK kids : kids = Inner(t, j)
  OBVIOUS
<1>7. kids[1] = t[j + 1]
  <2>1. /\ \A k \in 1 .. Beyond(t, j) - 1 - j : Inner(t, j)[k] = t[j + k]
    BY <1>1, InnerIs
  <2>2. PICK k \in 1 .. Beyond(t, j) - 1 - j : k = 1
    BY <1>2
  <2>3. QED
    BY <1>6, <2>1, <2>2
<1>8. t[j] = Node(t[j].sym, kids)[1]
  <2>1. Whole(text, 0, t, P, j)
    BY <1>0, SoundTreeIs
  <2>2. QED
    BY <1>6, <2>1 DEF Whole
<1>9. PICK m : m = [sym |-> t[j].sym, pad |-> kids[1].pad,
                    size |-> length_sub(Starts(kids)[Len(kids) + 1], kids[1].pad),
                    look |-> Max({Starts(kids)[Beyond(kids, i)].b + kids[i].look : i \in Tops(kids)})
                               - Starts(kids)[Len(kids) + 1].b,
                    changed |-> FALSE, node_count |-> Len(kids) + 1]
  OBVIOUS
<1>10. Node(t[j].sym, kids) = <<m>> \o kids
  BY <1>9 DEF Node
<1>11. (<<m>> \o kids)[1] = m
  <2>1. kids \in Seq(TreeNode)
    BY <1>1, <1>6, InnerIs
  <2>2. QED
    BY <2>1
<1>12. t[j].pad = kids[1].pad
  BY <1>8, <1>9, <1>10, <1>11
<1>13. QED
  BY <1>3, <1>4, <1>5, <1>7, <1>12

(* The blanks before a node are inside it.                                 *)
LEMMA PadIsInside ==
  ASSUME NEW text, NEW t, NEW P, NEW C, IsRead(text, t, P, C), NEW j \in DOMAIN t
  PROVE  t[j].pad.b <= P[Beyond(t, j)] - P[j]
<1>0. IsText(text) /\ SoundTree(text, t) /\ P = Pos(t) /\ Fits(text, t)
  BY DEF IsRead, SoundTree
<1>1. IsForest(t) /\ Len(t) \in Nat /\ DOMAIN t = 1 .. Len(t) /\ Measured(t, P)
      /\ Len(text) \in Nat /\ Len(text) < Width /\ Width \in Nat
  BY <1>0, FitsIs
<1>2. PICK N \in Nat : N = Len(t)
  BY <1>1
<1> DEFINE Good(i) == t[i].pad.b <= P[Beyond(t, i)] - P[i]
           S == {k \in Nat : \A i \in 1 .. N : i > N - k => Good(i)}
<1>3. 0 \in S
  BY <1>2
<1>4. ASSUME NEW i \in 1 .. N, Leaf(t[i])
      PROVE  Good(i)
  <2>1. i \in DOMAIN t
    BY <1>1, <1>2
  <2>2. Whole(text, 0, t, P, i) /\ P[i] \in Nat /\ P[i] <= P[Beyond(t, i)] /\ P[Beyond(t, i)] <= Len(text)
        /\ P[Beyond(t, i)] \in Nat /\ Total(t[i]).b = P[Beyond(t, i)] - P[i]
    BY <1>0, <2>1, SoundTreeIs
  <2>3. PICK L \in Nat : L = P[i] /\ L < Width
    BY <1>1, <2>2
  <2>4. t[i] = Lex(text, L)
    <3>1. t[i] = Lex(text, 0 + P[i])
      BY <1>4, <2>2 DEF Whole
    <3>2. 0 + P[i] = L
      BY <2>3
    <3>3. QED
      BY <3>1, <3>2
  <2>5. /\ Lex(text, L) \in TreeNode
        /\ Total(Lex(text, L)).b = Lex(text, L).pad.b + Lex(text, L).size.b
    BY <1>0, <2>3, LexMeasures
  <2>6. t[i].pad \in Lengths /\ t[i].size \in Lengths
    BY <1>1, <2>1, NodeFacts
  <2>7. t[i].pad.b \in Nat /\ t[i].size.b \in Nat
    BY <1>1, <2>6 DEF Lengths
  <2>8. Total(t[i]).b = t[i].pad.b + t[i].size.b
    BY <2>4, <2>5
  <2>9. t[i].pad.b <= Total(t[i]).b
    BY <2>7, <2>8
  <2>10. QED
    BY <2>2, <2>9
<1>5. ASSUME NEW i \in 1 .. N, ~Leaf(t[i]), Good(i + 1)
      PROVE  Good(i)
  <2>1. i \in DOMAIN t
    BY <1>1, <1>2
  <2>2. /\ i + 1 \in DOMAIN t /\ t[i].pad = t[i + 1].pad /\ P[i + 1] = P[i]
        /\ Beyond(t, i + 1) <= Beyond(t, i)
    BY <1>5, <2>1, PadOfFirst
  <2>3. P[Beyond(t, i + 1)] <= P[Beyond(t, i)]
    <3>1. Beyond(t, i + 1) \in 1 .. Len(t) + 1 /\ Beyond(t, i) \in 1 .. Len(t) + 1
      <4>1. Beyond(t, i) \in i + 1 .. Len(t) + 1
        BY <1>1, <2>1, NodeFacts
      <4>2. PICK k \in DOMAIN t : k = i + 1
        BY <2>2
      <4>3. Beyond(t, k) \in k + 1 .. Len(t) + 1
        BY <1>1, <4>2, NodeFacts
      <4>4. QED
        BY <1>1, <4>1, <4>2, <4>3
    <3>2. QED
      BY <1>1, <2>2, <3>1, MeasureGrows
  <2>4. P[Beyond(t, i)] \in Nat /\ P[i] \in Nat
    BY <1>0, <2>1, SoundTreeIs
  <2>5. P[Beyond(t, i + 1)] \in Nat
    BY <1>0, <2>2, SoundTreeIs
  <2>6. t[i].pad.b \in Nat
    <3>1. t[i].pad \in Lengths
      BY <1>1, <2>1, NodeFacts
    <3>2. QED
      BY <1>1, <3>1 DEF Lengths
  <2>7. t[i + 1].pad.b <= P[Beyond(t, i + 1)] - P[i + 1]
    BY <1>5
  <2>8. t[i].pad.b <= P[Beyond(t, i + 1)] - P[i]
    BY <2>2, <2>7
  <2>9. QED
    BY <2>3, <2>4, <2>5, <2>6, <2>8
<1> HIDE DEF Good
<1>6. \A k \in Nat : k \in S => k + 1 \in S
  <2> SUFFICES ASSUME NEW k \in Nat, k \in S
               PROVE  k + 1 \in S
    OBVIOUS
  <2>1. ASSUME NEW i \in 1 .. N, i > N - (k + 1)
        PROVE  Good(i)
    <3>1. CASE Leaf(t[i])
      BY <1>4, <3>1
    <3>2. CASE ~Leaf(t[i])
      <4>1. i \in DOMAIN t
        BY <1>1, <1>2
      <4>2. i + 1 \in 1 .. N
        BY <1>1, <1>2, <3>2, <4>1, PadOfFirst
      <4>3. i + 1 > N - k
        BY <2>1
      <4>4. Good(i + 1)
        BY <4>2, <4>3
      <4>5. QED
        BY <1>5, <3>2, <4>4
    <3>3. QED
      BY <3>1, <3>2
  <2>2. QED
    BY <2>1
<1>7. Nat \subseteq S
  <2> HIDE DEF S
  <2>1. QED
    BY <1>3, <1>6, Inductive
<1>8. j \in 1 .. N /\ j > N - N
  BY <1>1, <1>2
<1>9. Good(j)
  BY <1>7, <1>8
<1>10. QED
  BY <1>9 DEF Good

(* The content of a node lies between these places.                        *)
LEMMA ContentIs ==
  ASSUME NEW text, NEW t, NEW P, NEW C, IsRead(text, t, P, C), NEW j \in DOMAIN t
  PROVE  /\ C[j] \in Nat /\ C[j] = P[j] + t[j].pad.b
         /\ t[j].pad.b \in Nat /\ t[j].size.b \in Nat
         /\ C[j] + t[j].size.b = P[Beyond(t, j)] /\ C[j] <= P[Beyond(t, j)]
         /\ P[j] <= C[j] /\ P[Beyond(t, j)] \in Nat /\ P[Beyond(t, j)] <= Len(text)
<1>0. IsText(text) /\ SoundTree(text, t) /\ P = Pos(t) /\ Fits(text, t)
  BY DEF IsRead, SoundTree
<1>1. IsForest(t) /\ Len(t) \in Nat /\ DOMAIN t = 1 .. Len(t)
  BY <1>0, FitsIs
<1>2. C[j] = P[j] + t[j].pad.b
  BY <1>1 DEF IsRead
<1>3. PICK L \in Nat : L = P[j]
  BY <1>0, SoundTreeIs
<1>4. PICK R \in Nat : R = P[Beyond(t, j)] /\ L <= R /\ Total(t[j]).b = R - L /\ R <= Len(text)
  BY <1>0, <1>3, SoundTreeIs
<1>5. t[j].pad \in Lengths /\ t[j].size \in Lengths
  BY <1>1, NodeFacts
<1>6. PICK w \in Nat \ {0} : w = Width
  BY WidthIsPositive
<1>7. PICK p \in 0 .. w - 1 : p = t[j].pad.b
  BY <1>5, <1>6 DEF Lengths
<1>8. PICK z \in 0 .. w - 1 : z = t[j].size.b
  BY <1>5, <1>6 DEF Lengths
<1>9. Total(t[j]).b = IF p + z < w THEN p + z ELSE p + z - w
  BY <1>5, <1>6, <1>7, <1>8, LengthFacts DEF Total
<1>10. p <= R - L
  BY <1>3, <1>4, <1>7, PadIsInside
<1>11. p + z = R - L
  <2>1. p + z < w
    BY <1>4, <1>9, <1>10
  <2>2. QED
    BY <1>4, <1>9, <2>1
<1>12. PICK x \in Nat : x = L + p
  BY <1>3
<1>13. C[j] = x
  BY <1>2, <1>3, <1>7, <1>12
<1>14. x + z = R /\ x <= R /\ L <= x
  BY <1>11, <1>12
<1>15. /\ C[j] \in Nat /\ C[j] = P[j] + t[j].pad.b
       /\ t[j].pad.b \in Nat /\ t[j].size.b \in Nat
  BY <1>2, <1>7, <1>8, <1>13
<1>16. QED
  BY <1>3, <1>4, <1>8, <1>13, <1>14, <1>15

(* Contents begin in the order of the nodes.                               *)
LEMMA ContentGrows ==
  ASSUME NEW text, NEW t, NEW P, NEW C, IsRead(text, t, P, C),
         NEW i \in DOMAIN t, NEW j \in DOMAIN t, i <= j
  PROVE  C[i] <= C[j]
<1>0. IsText(text) /\ SoundTree(text, t) /\ P = Pos(t) /\ Fits(text, t)
  BY DEF IsRead, SoundTree
<1>1. IsForest(t) /\ Len(t) \in Nat /\ DOMAIN t = 1 .. Len(t)
  BY <1>0, FitsIs
<1>2. PICK N \in Nat : N = Len(t) /\ DOMAIN t = 1 .. N
  BY <1>1
<1>3. ASSUME NEW k \in 1 .. N, k + 1 \in 1 .. N
      PROVE  C[k] <= C[k + 1] /\ C[k] \in Nat /\ C[k + 1] \in Nat
  <2>1. k \in DOMAIN t /\ k + 1 \in DOMAIN t
    BY <1>2, <1>3
  <2>2. C[k] \in Nat /\ C[k] = P[k] + t[k].pad.b /\ C[k] <= P[Beyond(t, k)]
    BY <2>1, ContentIs
  <2>3. C[k + 1] \in Nat /\ C[k + 1] = P[k + 1] + t[k + 1].pad.b /\ P[k + 1] <= C[k + 1]
    BY <2>1, ContentIs
  <2>4. CASE Leaf(t[k])
    <3>1. Beyond(t, k) = k + 1
      BY <1>1, <2>1, <2>4, NodeFacts
    <3>2. P[k + 1] \in Nat
      BY <1>0, <2>1, SoundTreeIs
    <3>3. QED
      BY <2>2, <2>3, <3>1, <3>2
  <2>5. CASE ~Leaf(t[k])
    <3>1. t[k].pad = t[k + 1].pad /\ P[k + 1] = P[k]
      BY <2>1, <2>5, PadOfFirst
    <3>2. C[k + 1] = C[k]
      BY <2>2, <2>3, <3>1
    <3>3. QED
      BY <2>2, <3>2
  <2>6. QED
    BY <2>4, <2>5
<1> DEFINE S == {k \in Nat : i + k \in 1 .. N => C[i] <= C[i + k]}
<1>4. i \in 1 .. N /\ j \in 1 .. N
  BY <1>2
<1>5. 0 \in S
  <2>1. i + 0 = i /\ C[i] \in Nat
    BY <1>4, ContentIs
  <2>2. QED
    BY <2>1
<1>6. \A k \in Nat : k \in S => k + 1 \in S
  <2> SUFFICES ASSUME NEW k \in Nat, k \in S, i + (k + 1) \in 1 .. N
               PROVE  C[i] <= C[i + (k + 1)]
    OBVIOUS
  <2>1. PICK m \in 1 .. N : m = i + k /\ m + 1 \in 1 .. N /\ m + 1 = i + (k + 1)
    BY <1>4
  <2>2. C[i] <= C[m]
    BY <2>1
  <2>3. C[m] <= C[m + 1] /\ C[m] \in Nat /\ C[m + 1] \in Nat
    BY <1>3, <2>1
  <2>4. C[i] \in Nat
    BY ContentIs
  <2>5. C[i] <= C[m + 1]
    BY <2>2, <2>3, <2>4
  <2>6. QED
    BY <2>1, <2>5
<1>7. Nat \subseteq S
  <2> HIDE DEF S
  <2>1. QED
    BY <1>5, <1>6, Inductive
<1>8. PICK k \in Nat : i + k = j
  <2>1. j - i \in Nat /\ i + (j - i) = j
    BY <1>4
  <2>2. QED
    BY <2>1
<1>9. QED
  BY <1>4, <1>7, <1>8

(* The loops over children count the places of the contents right.         *)
LEMMA BeginIs ==
  ASSUME NEW text, NEW t, NEW P, NEW C, IsRead(text, t, P, C), NEW j \in DOMAIN t, NEW b,
         \A i \in 1 .. j - 1 : b[i] = C[i]
  PROVE  BeginOf(t, b, j) = C[j]
<1>0. IsText(text) /\ SoundTree(text, t) /\ P = Pos(t) /\ Fits(text, t)
  BY DEF IsRead, SoundTree
<1>1. IsForest(t) /\ Len(t) \in Nat /\ DOMAIN t = 1 .. Len(t) /\ Measured(t, P)
      /\ Len(text) \in Nat /\ Len(text) < Width /\ Width \in Nat
  BY <1>0, FitsIs
<1>2. j \in 1 .. Len(t) /\ j \in Nat
  BY <1>1
<1>3. C[j] \in Nat /\ C[j] = P[j] + t[j].pad.b /\ t[j].pad.b \in Nat
      /\ C[j] <= P[Beyond(t, j)] /\ P[Beyond(t, j)] \in Nat /\ P[Beyond(t, j)] <= Len(text)
  BY ContentIs
<1>4. CASE j = 1
  <2>1. P[1] = 0
    BY <1>1 DEF Measured
  <2>2. BeginOf(t, b, j) = t[1].pad.b
    BY <1>4 DEF BeginOf
  <2>3. QED
    BY <1>3, <1>4, <2>1, <2>2
<1>5. CASE j > 1 /\ ~Leaf(t[j - 1])
  <2>1. BeginOf(t, b, j) = b[j - 1]
    BY <1>2, <1>5 DEF BeginOf
  <2>2. PICK i \in DOMAIN t : i = j - 1 /\ j = i + 1 /\ i \in 1 .. j - 1
    BY <1>1, <1>2, <1>5
  <2>3. t[i].pad = t[i + 1].pad /\ P[i + 1] = P[i]
    BY <1>5, <2>2, PadOfFirst
  <2>4. C[i] = P[i] + t[i].pad.b
    BY <2>2, ContentIs
  <2>5. b[i] = C[i]
    BY <2>2
  <2>6. QED
    BY <1>3, <2>1, <2>2, <2>3, <2>4, <2>5
<1>6. CASE j > 1 /\ Leaf(t[j - 1])
  <2>1. j \in 2 .. Len(t) + 1
    BY <1>1, <1>2, <1>6
  <2>2. PICK i \in DOMAIN t : i = Before(t, j) /\ i \in 1 .. j - 1 /\ Beyond(t, i) = j
    BY <1>1, <1>6, <2>1, BeforeIs
  <2>3. BeginOf(t, b, j) = (b[i] + t[i].size.b + t[j].pad.b) % Width
    BY <1>2, <1>6, <2>2 DEF BeginOf
  <2>4. b[i] = C[i]
    BY <2>2
  <2>5. C[i] + t[i].size.b = P[j]
    BY <2>2, ContentIs
  <2>6. PICK x \in Nat : x = C[j] /\ x < Width
    BY <1>1, <1>3
  <2>7. b[i] + t[i].size.b + t[j].pad.b = x
    BY <1>3, <2>4, <2>5, <2>6
  <2>8. x % Width = x
    <3>1. PICK w \in Nat \ {0} : w = Width
      BY WidthIsPositive
    <3>2. x \in 0 .. w - 1
      BY <2>6, <3>1
    <3>3. x % w = x
      BY <3>2
    <3>4. QED
      BY <3>1, <3>3
  <2>9. QED
    BY <2>3, <2>6, <2>7, <2>8
<1>7. QED
  BY <1>2, <1>4, <1>5, <1>6

(* Begins gives each node where its content begins.                        *)
LEMMA BeginsAre ==
  ASSUME NEW text, NEW t, NEW P, NEW C, IsRead(text, t, P, C)
  PROVE  \A j \in DOMAIN t : Begins(t)[j] = C[j]
<1>0. IsText(text) /\ SoundTree(text, t) /\ P = Pos(t) /\ Fits(text, t)
  BY DEF IsRead, SoundTree
<1>1. IsForest(t) /\ Len(t) \in Nat /\ DOMAIN t = 1 .. Len(t)
  BY <1>0, FitsIs
<1>2. PICK n \in Nat : n = Len(t) /\ DOMAIN t = 1 .. n
  BY <1>1
<1> DEFINE A == [k \in 0 .. n |-> {b \in Seq(Nat) : Len(b) = k /\ \A i \in 1 .. k : b[i] = C[i]}]
<1>3. PICK a \in A[0] : a = <<>>
  <2>1. PICK e \in Seq(Nat) : e = <<>> /\ Len(e) = 0
    <3>1. <<>> \in Seq(Nat) /\ Len(<<>>) = 0
      OBVIOUS
    <3>2. QED
      BY <3>1
  <2>2. 0 \in 0 .. n /\ \A i \in 1 .. 0 : e[i] = C[i]
    BY <1>2
  <2>3. e \in {b \in Seq(Nat) : Len(b) = 0 /\ \A i \in 1 .. 0 : b[i] = C[i]}
    BY <2>1, <2>2
  <2>4. e \in A[0]
    BY <2>2, <2>3
  <2> HIDE DEF A
  <2>5. QED
    BY <2>1, <2>4
<1>4. \A k \in 1 .. n : \A b \in A[k - 1] : WithBegin(t, b, k) \in A[k]
  <2> SUFFICES ASSUME NEW k \in 1 .. n, NEW b \in A[k - 1]
               PROVE  WithBegin(t, b, k) \in A[k]
    OBVIOUS
  <2>1. k - 1 \in 0 .. n /\ k \in 0 .. n /\ k \in DOMAIN t
    BY <1>2
  <2>2. b \in Seq(Nat) /\ Len(b) = k - 1 /\ \A i \in 1 .. k - 1 : b[i] = C[i]
    BY <2>1
  <2>3. PICK x : x = BeginOf(t, b, k)
    OBVIOUS
  <2>4. x = C[k] /\ x \in Nat
    BY <2>1, <2>2, <2>3, BeginIs, ContentIs
  <2>5. PICK c : c = Append(b, x)
    OBVIOUS
  <2>6. /\ c \in Seq(Nat) /\ Len(c) = Len(b) + 1
        /\ \A i \in 1 .. Len(b) : c[i] = b[i]
        /\ c[Len(b) + 1] = x
    BY <2>2, <2>4, <2>5, AppendProperties
  <2>7. Len(c) = k /\ \A i \in 1 .. k : c[i] = C[i]
    <3> SUFFICES ASSUME NEW i \in 1 .. k
                 PROVE  Len(c) = k /\ c[i] = C[i]
      BY <2>2, <2>6
    <3>1. CASE i = k
      BY <2>2, <2>4, <2>6, <3>1
    <3>2. CASE i # k
      <4>1. i \in 1 .. k - 1
        BY <3>2
      <4>2. QED
        BY <2>2, <2>6, <4>1
    <3>3. QED
      BY <3>1, <3>2
  <2>8. WithBegin(t, b, k) = c
    BY <2>3, <2>5 DEF WithBegin
  <2>9. QED
    BY <2>1, <2>6, <2>7, <2>8
<1>5. PICK loop : IsBeginsLoop(t, n, A, a, loop)
  <2> HIDE DEF A
  <2>1. QED
    BY <1>2, <1>3, <1>4, BeginsTurns
<1>6. Begins(t) \in A[n]
  <2> HIDE DEF A
  <2>1. n \in 0 .. n
    OBVIOUS
  <2>2. QED
    BY <1>5, <2>1 DEF IsBeginsLoop
<1>7. \A i \in 1 .. n : Begins(t)[i] = C[i]
  BY <1>6
<1>8. QED
  BY <1>2, <1>7

(***************************************************************************)
(* The loop of ts_node_descendant_for_byte_range.                          *)
(***************************************************************************)
(* The nodes whose content holds a span.                                   *)
Holds(t, P, C, from, to, h) ==
  /\ h \in DOMAIN t /\ C[h] <= from
  /\ from < P[Beyond(t, h)] /\ to <= P[Beyond(t, h)]

(* The loop is at s: a node that holds the span is around s.node, or among *)
(* the nodes below it that are still to come; s.visible is the innermost   *)
(* visible node around s.node, and holds the span if it is not the root.   *)
Searching(t, P, C, from, to, s) ==
  /\ s = [node |-> s.node, child |-> s.child, visible |-> s.visible]
  /\ s.node \in 1 .. Len(t) /\ s.visible \in 1 .. s.node
  /\ s.child \in s.node + 1 .. Beyond(t, s.node)
  /\ \A h : Holds(t, P, C, from, to, h) =>
        \/ h <= s.node /\ s.node < Beyond(t, h)
        \/ s.child <= h /\ h < Beyond(t, s.node)
  /\ s.node < Beyond(t, s.visible) /\ Visible(t[s.visible])
  /\ s.visible # 1 => Holds(t, P, C, from, to, s.visible)
  /\ \A j \in 1 .. s.node : s.node < Beyond(t, j) /\ Visible(t[j]) => j <= s.visible
  /\ \A j \in 1 .. s.child - 1 : s.child < Beyond(t, j) => j <= s.node

IsSearch(text, t, P, C, from, to) ==
  /\ IsRead(text, t, P, C) /\ IsVisibleTree(t)
  /\ from \in Nat /\ to \in Nat

IsTurn(text, t, P, C, from, to, s) ==
  /\ IsSearch(text, t, P, C, from, to)
  /\ Searching(t, P, C, from, to, s)
  /\ s.child \in Below(t, s.node)

(* What a turn of the loop knows of its child.                             *)
LEMMA TurnFacts ==
  ASSUME NEW text, NEW t, NEW P, NEW C, NEW from, NEW to, NEW s, IsTurn(text, t, P, C, from, to, s)
  PROVE  /\ IsForest(t) /\ Len(t) \in Nat /\ DOMAIN t = 1 .. Len(t)
         /\ s.node \in DOMAIN t /\ s.child \in DOMAIN t
         /\ s.node < s.child /\ s.child < Beyond(t, s.node)
         /\ Beyond(t, s.child) <= Beyond(t, s.node)
         /\ Beyond(t, s.node) \in s.node + 1 .. Len(t) + 1
         /\ Beyond(t, s.child) \in s.child + 1 .. Len(t) + 1
         /\ Begins(t)[s.child] = C[s.child]
         /\ (C[s.child] + t[s.child].size.b) % Width = P[Beyond(t, s.child)]
         /\ C[s.child] \in Nat /\ P[Beyond(t, s.child)] \in Nat
<1>0. IsRead(text, t, P, C) /\ Searching(t, P, C, from, to, s) /\ s.child \in Below(t, s.node)
  BY DEF IsTurn, IsSearch
<1>1. IsText(text) /\ SoundTree(text, t) /\ P = Pos(t) /\ Fits(text, t)
  BY <1>0 DEF IsRead, SoundTree
<1>2. /\ IsForest(t) /\ Len(t) \in Nat /\ DOMAIN t = 1 .. Len(t)
      /\ Len(text) \in Nat /\ Len(text) < Width /\ Width \in Nat
  BY <1>1, FitsIs
<1>3. s.node \in DOMAIN t
  BY <1>0, <1>2 DEF Searching
<1>4. Beyond(t, s.node) \in s.node + 1 .. Len(t) + 1
  BY <1>2, <1>3, NodeFacts
<1>5. s.child \in DOMAIN t /\ s.node < s.child /\ s.child < Beyond(t, s.node)
  BY <1>0, <1>2, <1>3, BelowIs
<1>6. Beyond(t, s.child) <= Beyond(t, s.node)
  BY <1>0, <1>2, <1>3 DEF IsForest
<1>7. Beyond(t, s.child) \in s.child + 1 .. Len(t) + 1
  BY <1>2, <1>5, NodeFacts
<1>8. Begins(t)[s.child] = C[s.child]
  BY <1>0, <1>5, BeginsAre
<1>9. PICK x \in Nat : x = P[Beyond(t, s.child)] /\ x < Width /\ C[s.child] + t[s.child].size.b = x
                       /\ C[s.child] \in Nat
  BY <1>0, <1>2, <1>5, ContentIs
<1>10. x % Width = x
  <2>1. PICK w \in Nat \ {0} : w = Width
    BY WidthIsPositive
  <2>2. x \in 0 .. w - 1
    BY <1>9, <2>1
  <2>3. x % w = x
    BY <2>2
  <2>4. QED
    BY <2>1, <2>3
<1>11. (C[s.child] + t[s.child].size.b) % Width = P[Beyond(t, s.child)]
  BY <1>9, <1>10
<1>12. QED
  BY <1>2, <1>3, <1>4, <1>5, <1>6, <1>7, <1>8, <1>9, <1>11

(* A turn that passes over nodes of which none holds the span.             *)
LEMMA PassKeeps ==
  ASSUME NEW text, NEW t, NEW P, NEW C, NEW from, NEW to, NEW s, IsTurn(text, t, P, C, from, to, s),
         NEW next, next \in s.child + 1 .. Beyond(t, s.node),
         \A h : Holds(t, P, C, from, to, h) => ~(s.child <= h /\ h < next),
         \A j \in 1 .. next - 1 : next < Beyond(t, j) => j <= s.node
  PROVE  Searching(t, P, C, from, to, [s EXCEPT !.child = next])
<1>1. /\ Len(t) \in Nat /\ DOMAIN t = 1 .. Len(t)
      /\ s.node \in DOMAIN t /\ s.child \in DOMAIN t
      /\ Beyond(t, s.node) \in s.node + 1 .. Len(t) + 1
      /\ s.node < s.child
  BY TurnFacts
<1>2. Searching(t, P, C, from, to, s)
  BY DEF IsTurn
<1>3. PICK n \in 1 .. Len(t) : n = s.node
  BY <1>1
<1>4. PICK v \in 1 .. n : v = s.visible
  BY <1>2, <1>3 DEF Searching
<1>5. PICK c \in 1 .. Len(t) : c = s.child /\ n < c
  BY <1>1, <1>3
<1>6. PICK r : r = [node |-> n, child |-> next, visible |-> v]
  OBVIOUS
<1>7. [s EXCEPT !.child = next] = r
  <2>1. s = [node |-> n, child |-> c, visible |-> v]
    BY <1>2, <1>3, <1>4, <1>5 DEF Searching
  <2>2. QED
    BY <1>6, <2>1
<1>8. r.node = n /\ r.child = next /\ r.visible = v /\ r = [node |-> r.node, child |-> r.child, visible |-> r.visible]
  BY <1>6
<1>9. next \in n + 1 .. Beyond(t, n)
  BY <1>1, <1>3, <1>5
<1>10. ASSUME NEW h, Holds(t, P, C, from, to, h)
       PROVE  \/ h <= n /\ n < Beyond(t, h)
              \/ next <= h /\ h < Beyond(t, n)
  <2>1. h \in 1 .. Len(t)
    BY <1>1, <1>10 DEF Holds
  <2>2. \/ h <= n /\ n < Beyond(t, h)
        \/ c <= h /\ h < Beyond(t, n)
    BY <1>2, <1>3, <1>5, <1>10 DEF Searching
  <2>3. ~(c <= h /\ h < next)
    BY <1>5, <1>10
  <2>4. QED
    BY <1>1, <2>1, <2>2, <2>3
<1>11. n < Beyond(t, v) /\ Visible(t[v])
  BY <1>2, <1>3, <1>4 DEF Searching
<1>12. v # 1 => Holds(t, P, C, from, to, v)
  BY <1>2, <1>4 DEF Searching
<1>13. \A j \in 1 .. n : n < Beyond(t, j) /\ Visible(t[j]) => j <= v
  BY <1>2, <1>3, <1>4 DEF Searching
<1>14. \A j \in 1 .. next - 1 : next < Beyond(t, j) => j <= n
  BY <1>3
<1>15. Searching(t, P, C, from, to, r)
  BY <1>3, <1>4, <1>8, <1>9, <1>10, <1>11, <1>12, <1>13, <1>14 DEF Searching
<1>16. QED
  BY <1>7, <1>15

(* A turn that enters a child that holds the span.                         *)
LEMMA EnterKeeps ==
  ASSUME NEW text, NEW t, NEW P, NEW C, NEW from, NEW to, NEW s, IsTurn(text, t, P, C, from, to, s),
         Holds(t, P, C, from, to, s.child), NEW v, v = IF Visible(t[s.child]) THEN s.child ELSE s.visible
  PROVE  Searching(t, P, C, from, to, [node |-> s.child, child |-> s.child + 1, visible |-> v])
<1>1. /\ IsForest(t) /\ Len(t) \in Nat /\ DOMAIN t = 1 .. Len(t)
      /\ s.node \in DOMAIN t /\ s.child \in DOMAIN t
      /\ s.node < s.child /\ s.child < Beyond(t, s.node)
      /\ Beyond(t, s.child) <= Beyond(t, s.node)
      /\ Beyond(t, s.node) \in s.node + 1 .. Len(t) + 1
      /\ Beyond(t, s.child) \in s.child + 1 .. Len(t) + 1
  BY TurnFacts
<1>2. Searching(t, P, C, from, to, s) /\ IsRead(text, t, P, C) /\ from \in Nat
  BY DEF IsTurn, IsSearch
<1>3. PICK n \in 1 .. Len(t) : n = s.node /\ n \in DOMAIN t
  BY <1>1
<1>4. PICK c \in 1 .. Len(t) : c = s.child /\ n < c /\ c \in DOMAIN t
  BY <1>1, <1>3
<1>5. PICK r : r = [node |-> c, child |-> c + 1, visible |-> v]
  OBVIOUS
<1>6. r.node = c /\ r.child = c + 1 /\ r.visible = v /\ r = [node |-> r.node, child |-> r.child, visible |-> r.visible]
  BY <1>5
<1>7. c + 1 \in c + 1 .. Beyond(t, c)
  BY <1>1, <1>4
<1>8. PICK y \in Nat : y = Beyond(t, n) /\ y <= Len(t) + 1 /\ c < y
  BY <1>1, <1>3, <1>4
<1>9. PICK z \in Nat : z = Beyond(t, c) /\ c < z /\ z <= y
  BY <1>1, <1>4, <1>8, <1>3
<1>10. ASSUME NEW h \in DOMAIN t, h <= n, n < Beyond(t, h)
       PROVE  c < Beyond(t, h)
  <2>1. Beyond(t, h) \in h + 1 .. Len(t) + 1 /\ h \in 1 .. Len(t)
    BY <1>1, NodeFacts
  <2>2. CASE h = n
    BY <1>8, <2>2
  <2>3. CASE h < n
    <3>1. Beyond(t, h) <= n \/ Beyond(t, n) <= Beyond(t, h)
      BY <1>1, <1>3, <2>3, Nested
    <3>2. QED
      BY <1>8, <1>10, <2>1, <3>1
  <2>4. QED
    BY <1>10, <2>1, <2>2, <2>3
<1>11. ASSUME NEW h, Holds(t, P, C, from, to, h)
       PROVE  \/ h <= c /\ c < Beyond(t, h)
              \/ c + 1 <= h /\ h < Beyond(t, c)
  <2>1. h \in DOMAIN t /\ h \in 1 .. Len(t) /\ Beyond(t, h) \in h + 1 .. Len(t) + 1
    BY <1>1, <1>11, NodeFacts DEF Holds
  <2>2. CASE h <= n /\ n < Beyond(t, h)
    BY <1>10, <2>1, <2>2, <1>4
  <2>3. CASE c <= h /\ h < Beyond(t, n)
    <3>1. CASE h = c
      BY <1>9, <3>1
    <3>2. CASE h # c /\ h < z
      BY <1>9, <2>1, <2>3, <3>2
    <3>3. CASE z <= h
      <4>1. P[z] <= P[h]
        <5>1. SoundTree(text, t) /\ P = Pos(t) /\ Fits(text, t) /\ IsText(text)
          BY <1>2 DEF IsRead, SoundTree
        <5>2. Measured(t, P)
          BY <5>1, FitsIs
        <5>3. z \in 1 .. Len(t) + 1 /\ h \in 1 .. Len(t) + 1
          BY <1>1, <1>8, <1>9, <2>1
        <5>4. QED
          BY <3>3, <5>2, <5>3, MeasureGrows
      <4>2. P[h] <= C[h] /\ C[h] \in Nat /\ C[h] = P[h] + t[h].pad.b /\ t[h].pad.b \in Nat
        BY <1>2, <2>1, ContentIs
      <4>3. from < P[z] /\ P[z] \in Nat
        <5>1. from < P[Beyond(t, s.child)] /\ P[Beyond(t, s.child)] \in Nat
          BY TurnFacts DEF Holds
        <5>2. QED
          BY <1>4, <1>9, <5>1
      <4>4. C[h] <= from
        BY <1>11 DEF Holds
      <4>5. P[h] \in Nat
        <5>1. SoundTree(text, t) /\ P = Pos(t) /\ IsText(text)
          BY <1>2 DEF IsRead
        <5>2. QED
          BY <2>1, <5>1, SoundTreeIs
      <4>6. QED
        BY <1>2, <4>1, <4>2, <4>3, <4>4, <4>5
    <3>4. QED
      BY <1>9, <2>1, <3>1, <3>2, <3>3
  <2>4. \/ h <= n /\ n < Beyond(t, h)
        \/ c <= h /\ h < Beyond(t, n)
    BY <1>2, <1>3, <1>4, <1>11 DEF Searching
  <2>5. QED
    BY <2>2, <2>3, <2>4
<1>12. PICK u \in 1 .. n : /\ u = s.visible /\ n < Beyond(t, u) /\ Visible(t[u])
                           /\ u # 1 => Holds(t, P, C, from, to, u)
                           /\ \A j \in 1 .. n : n < Beyond(t, j) /\ Visible(t[j]) => j <= u
  BY <1>2, <1>3 DEF Searching
<1>13. v = IF Visible(t[c]) THEN c ELSE u
  BY <1>4, <1>12
<1>14. v \in 1 .. c
  BY <1>4, <1>12, <1>13
<1>15. c < Beyond(t, v) /\ Visible(t[v])
  <2>1. CASE Visible(t[c])
    BY <1>9, <1>13, <2>1
  <2>2. CASE ~Visible(t[c])
    <3>1. u \in DOMAIN t /\ u <= n /\ v = u
      BY <1>1, <1>12, <1>13, <2>2
    <3>2. QED
      BY <1>10, <1>12, <3>1
  <2>3. QED
    BY <2>1, <2>2
<1>16. v # 1 => Holds(t, P, C, from, to, v)
  BY <1>4, <1>12, <1>13
<1>17. ASSUME NEW j \in 1 .. c, c < Beyond(t, j), Visible(t[j])
       PROVE  j <= v
  <2>1. CASE j = c
    BY <1>13, <1>17, <2>1
  <2>2. CASE j # c
    <3>1. j \in 1 .. c - 1
      BY <2>2
    <3>2. j <= n
      BY <1>2, <1>3, <1>4, <1>17, <3>1 DEF Searching
    <3>3. j \in 1 .. n
      BY <3>2
    <3>4. n < Beyond(t, j)
      <4>1. j \in DOMAIN t
        BY <1>1, <3>3
      <4>2. Beyond(t, j) \in j + 1 .. Len(t) + 1
        BY <1>1, <4>1, NodeFacts
      <4>3. QED
        BY <1>4, <1>17, <4>2
    <3>5. j <= u
      BY <1>12, <1>17, <3>3, <3>4
    <3>6. QED
      BY <1>4, <1>12, <1>13, <3>5, <3>3
  <2>3. QED
    BY <2>1, <2>2
<1>18. \A j \in 1 .. (c + 1) - 1 : c + 1 < Beyond(t, j) => j <= c
  OBVIOUS
<1>19. Searching(t, P, C, from, to, r)
  BY <1>6, <1>7, <1>11, <1>14, <1>15, <1>16, <1>17, <1>18 DEF Searching
<1>20. QED
  BY <1>4, <1>5, <1>19

(* Each turn keeps what the search has found, and the child moves on.      *)
LEMMA DescendKeeps ==
  ASSUME NEW text, NEW t, NEW P, NEW C, NEW from, NEW to, NEW s, IsTurn(text, t, P, C, from, to, s)
  PROVE  /\ Searching(t, P, C, from, to, Descend(t, Begins(t), from, to, s))
         /\ s.child < Descend(t, Begins(t), from, to, s).child
<1>1. /\ IsForest(t) /\ Len(t) \in Nat /\ DOMAIN t = 1 .. Len(t)
      /\ s.node \in DOMAIN t /\ s.child \in DOMAIN t
      /\ s.node < s.child /\ s.child < Beyond(t, s.node)
      /\ Beyond(t, s.child) <= Beyond(t, s.node)
      /\ Beyond(t, s.node) \in s.node + 1 .. Len(t) + 1
      /\ Beyond(t, s.child) \in s.child + 1 .. Len(t) + 1
      /\ Begins(t)[s.child] = C[s.child]
      /\ (C[s.child] + t[s.child].size.b) % Width = P[Beyond(t, s.child)]
      /\ C[s.child] \in Nat /\ P[Beyond(t, s.child)] \in Nat
  BY TurnFacts
<1>2. Searching(t, P, C, from, to, s) /\ IsRead(text, t, P, C) /\ from \in Nat /\ to \in Nat
      /\ s.child \in Below(t, s.node)
  BY DEF IsTurn, IsSearch
<1>3. PICK n \in DOMAIN t : n = s.node
  BY <1>1
<1>4. PICK c \in DOMAIN t : c = s.child /\ c \in 1 .. Len(t)
  BY <1>1
<1>5. PICK z \in Nat : z = Beyond(t, c) /\ c < z
  BY <1>1, <1>4
<1>6. PICK y \in Nat : y = Beyond(t, n) /\ z <= y /\ n < c
  BY <1>1, <1>3, <1>4, <1>5
<1>7. PICK e \in Nat : e = P[z]
  BY <1>1, <1>4, <1>5
<1>8. (Begins(t)[s.child] + t[s.child].size.b) % Width = e
  BY <1>1, <1>4, <1>5, <1>7
<1>9. PICK next : next = Descend(t, Begins(t), from, to, s)
  OBVIOUS
<1>10. Reaches(e, from, to) <=> e >= to /\ e > from
  BY DEF Reaches
<1>11. SoundTree(text, t) /\ P = Pos(t) /\ IsText(text) /\ Fits(text, t)
  BY <1>2 DEF IsRead, SoundTree
<1>12. Measured(t, P)
  BY <1>11, FitsIs
<1>13. s = [node |-> s.node, child |-> s.child, visible |-> s.visible]
  BY <1>2 DEF Searching
<1>14. CASE ~Reaches(e, from, to)
  <2>1. next = [s EXCEPT !.child = z]
    BY <1>2, <1>4, <1>5, <1>8, <1>9, <1>14 DEF Descend
  <2>2. z \in s.child + 1 .. Beyond(t, s.node)
    BY <1>3, <1>4, <1>5, <1>6
  <2>3. ASSUME NEW h, Holds(t, P, C, from, to, h), s.child <= h, h < z
        PROVE  FALSE
    <3>1. h \in DOMAIN t /\ from < P[Beyond(t, h)] /\ to <= P[Beyond(t, h)]
      BY <2>3 DEF Holds
    <3>2. h \in 1 .. Len(t) /\ Beyond(t, h) \in h + 1 .. Len(t) + 1
      BY <1>1, <3>1, NodeFacts
    <3>3. Beyond(t, h) <= z
      <4>1. CASE h = c
        BY <1>5, <4>1
      <4>2. CASE h # c
        <5>1. h \in Below(t, c)
          <6>1. \A m : m \in Below(t, c) <=> m \in 1 .. Len(t) /\ c < m /\ m < Beyond(t, c)
            BY <1>1, BelowIs
          <6>2. h \in 1 .. Len(t) /\ c < h /\ h < Beyond(t, c)
            BY <1>4, <1>5, <2>3, <3>2, <4>2
          <6>3. QED
            BY <6>1, <6>2
        <5>2. QED
          BY <1>1, <1>5, <5>1 DEF IsForest
      <4>3. QED
        BY <4>1, <4>2
    <3>4. z \in 1 .. Len(t) + 1 /\ Beyond(t, h) \in 1 .. Len(t) + 1
      BY <1>1, <1>4, <1>5, <3>2
    <3>5. P[Beyond(t, h)] <= P[z] /\ P[Beyond(t, h)] \in Nat
      BY <1>12, <3>3, <3>4, MeasureGrows
    <3>6. QED
      BY <1>2, <1>7, <1>10, <1>14, <3>1, <3>5
  <2>4. ASSUME NEW j \in 1 .. z - 1, z < Beyond(t, j)
        PROVE  j <= s.node
    <3>1. j \in DOMAIN t /\ Beyond(t, j) \in j + 1 .. Len(t) + 1
      <4>1. j \in DOMAIN t
        BY <1>1, <1>4, <1>5
      <4>2. QED
        BY <1>1, <4>1, NodeFacts
    <3>2. CASE j < c
      <4>1. j \in 1 .. s.child - 1
        BY <1>4, <3>2
      <4>2. s.child < Beyond(t, j)
        BY <1>4, <1>5, <2>4, <3>1
      <4>3. QED
        BY <1>2, <4>1, <4>2 DEF Searching
    <3>3. CASE j = c
      BY <1>5, <2>4, <3>3
    <3>4. CASE c < j
      <4>1. j \in Below(t, c)
        <5>1. \A m : m \in Below(t, c) <=> m \in 1 .. Len(t) /\ c < m /\ m < Beyond(t, c)
          BY <1>1, BelowIs
        <5>2. j \in 1 .. Len(t) /\ c < j /\ j < Beyond(t, c)
          BY <1>1, <1>5, <3>1, <3>4
        <5>3. QED
          BY <5>1, <5>2
      <4>2. Beyond(t, j) <= z
        BY <1>1, <1>5, <4>1 DEF IsForest
      <4>3. QED
        BY <1>5, <2>4, <3>1, <4>2
    <3>5. QED
      BY <1>1, <1>4, <3>2, <3>3, <3>4
  <2>5. Searching(t, P, C, from, to, next)
    BY <2>1, <2>2, <2>3, <2>4, PassKeeps
  <2>6. next.child = z
    BY <1>13, <2>1
  <2>7. QED
    BY <1>4, <1>5, <1>9, <2>5, <2>6
<1>15. CASE Reaches(e, from, to) /\ from < C[c]
  <2>1. next = [s EXCEPT !.child = y]
    BY <1>1, <1>2, <1>3, <1>4, <1>6, <1>8, <1>9, <1>15 DEF Descend
  <2>2. y \in s.child + 1 .. Beyond(t, s.node)
    BY <1>3, <1>4, <1>5, <1>6
  <2>3. ASSUME NEW h, Holds(t, P, C, from, to, h), s.child <= h, h < y
        PROVE  FALSE
    <3>1. h \in DOMAIN t /\ C[h] <= from
      BY <2>3 DEF Holds
    <3>2. C[c] <= C[h] /\ C[c] \in Nat /\ C[h] \in Nat
      <4>1. c <= h
        BY <1>4, <2>3
      <4>2. C[c] <= C[h]
        BY <1>2, <3>1, <4>1, ContentGrows
      <4>3. C[c] \in Nat /\ C[h] \in Nat
        BY <1>2, <3>1, ContentIs
      <4>4. QED
        BY <4>2, <4>3
    <3>3. QED
      BY <1>2, <1>15, <3>1, <3>2
  <2>4. ASSUME NEW j \in 1 .. y - 1, y < Beyond(t, j)
        PROVE  j <= s.node
    <3>1. j \in DOMAIN t /\ Beyond(t, j) \in j + 1 .. Len(t) + 1
      <4>1. j \in DOMAIN t
        BY <1>1, <1>3, <1>6
      <4>2. QED
        BY <1>1, <4>1, NodeFacts
    <3>2. CASE n < j
      <4>1. j \in Below(t, n)
        <5>1. \A m : m \in Below(t, n) <=> m \in 1 .. Len(t) /\ n < m /\ m < Beyond(t, n)
          BY <1>1, BelowIs
        <5>2. j \in 1 .. Len(t) /\ n < j /\ j < Beyond(t, n)
          BY <1>1, <1>6, <3>1, <3>2
        <5>3. QED
          BY <5>1, <5>2
      <4>2. Beyond(t, j) <= y
        BY <1>1, <1>6, <4>1 DEF IsForest
      <4>3. QED
        BY <2>4, <3>1, <4>2
    <3>3. QED
      BY <1>1, <1>3, <3>2
  <2>5. Searching(t, P, C, from, to, next)
    BY <2>1, <2>2, <2>3, <2>4, PassKeeps
  <2>6. next.child = y
    BY <1>13, <2>1
  <2>7. QED
    BY <1>4, <1>5, <1>6, <1>9, <2>5, <2>6
<1>16. CASE Reaches(e, from, to) /\ ~(from < C[c])
  <2>1. PICK v : v = IF Visible(t[s.child]) THEN s.child ELSE s.visible
    OBVIOUS
  <2>2. next = [node |-> s.child, child |-> s.child + 1, visible |-> v]
    BY <1>1, <1>2, <1>4, <1>8, <1>9, <1>16, <2>1 DEF Descend
  <2>3. C[c] <= from
    BY <1>1, <1>2, <1>4, <1>16
  <2>4. Holds(t, P, C, from, to, s.child)
    BY <1>2, <1>4, <1>5, <1>7, <1>10, <1>16, <2>3 DEF Holds
  <2>5. Searching(t, P, C, from, to, [node |-> s.child, child |-> s.child + 1, visible |-> v])
    BY <2>1, <2>4, EnterKeeps
  <2>6. next.child = c + 1
    BY <1>4, <2>2
  <2>7. QED
    BY <1>4, <1>9, <2>2, <2>5, <2>6
<1>17. QED
  BY <1>14, <1>15, <1>16

(* What the search ends with.                                              *)
LEMMA SearchEnds ==
  ASSUME NEW text, NEW t, NEW P, NEW C, NEW from, NEW to, IsSearch(text, t, P, C, from, to)
  PROVE  \E s : /\ Searching(t, P, C, from, to, s)
                /\ s.child = Beyond(t, s.node)
                /\ ts_node_descendant_for_byte_range(t, from, to) = s.visible
<1>0. IsRead(text, t, P, C) /\ IsVisibleTree(t) /\ from \in Nat /\ to \in Nat
  BY DEF IsSearch
<1>1. /\ IsForest(t) /\ Len(t) \in Nat \ {0} /\ 1 \in DOMAIN t /\ DOMAIN t = 1 .. Len(t)
      /\ Beyond(t, 1) = Len(t) + 1 /\ Visible(t[1])
  BY <1>0, VisibleTreeFacts
<1>2. PICK n \in Nat \ {0} : n = Len(t) /\ DOMAIN t = 1 .. n /\ Beyond(t, 1) = n + 1
  BY <1>1
<1> DEFINE MovedOn(s, k) == s.child >= k + 2 \/ s.child = Beyond(t, s.node)
           A == [k \in 0 .. n |-> {s \in [node : 1 .. n, child : 2 .. n + 1, visible : 1 .. n] :
                                      Searching(t, P, C, from, to, s) /\ MovedOn(s, k)}]
<1>3. ASSUME NEW s, Searching(t, P, C, from, to, s)
      PROVE  /\ s \in [node : 1 .. n, child : 2 .. n + 1, visible : 1 .. n]
             /\ s.child \in s.node + 1 .. Beyond(t, s.node) /\ s.node \in 1 .. n
             /\ Beyond(t, s.node) \in s.node + 1 .. n + 1
             /\ s.child \in Below(t, s.node) <=> s.child # Beyond(t, s.node)
  <2>1. PICK x \in 1 .. n : x = s.node /\ x \in DOMAIN t
    BY <1>2, <1>3 DEF Searching
  <2>2. PICK y \in x + 1 .. n + 1 : y = Beyond(t, x)
    BY <1>1, <1>2, <2>1, NodeFacts
  <2>3. PICK c \in x + 1 .. y : c = s.child
    BY <1>3, <2>1, <2>2 DEF Searching
  <2>4. PICK v \in 1 .. x : v = s.visible
    BY <1>3, <2>1 DEF Searching
  <2>5. s = [node |-> x, child |-> c, visible |-> v]
    BY <1>3, <2>1, <2>3, <2>4 DEF Searching
  <2>6. c \in 2 .. n + 1 /\ v \in 1 .. n
    BY <2>1, <2>2, <2>3, <2>4
  <2>7. c \in Below(t, x) <=> c # y
    <3>1. \A m : m \in Below(t, x) <=> m \in 1 .. Len(t) /\ x < m /\ m < Beyond(t, x)
      BY <1>1, <2>1, BelowIs
    <3>2. c # y => c \in 1 .. Len(t) /\ x < c /\ c < y
      BY <1>2, <2>1, <2>2, <2>3
    <3>3. c = y => ~(c < y)
      BY <2>2
    <3>4. QED
      BY <2>2, <3>1, <3>2, <3>3
  <2>8. QED
    BY <2>1, <2>2, <2>3, <2>5, <2>6, <2>7
<1>4. PICK a : a = [node |-> 1, child |-> 2, visible |-> 1]
  OBVIOUS
<1>5. Searching(t, P, C, from, to, a)
  <2>1. a.node = 1 /\ a.child = 2 /\ a.visible = 1 /\ a = [node |-> a.node, child |-> a.child, visible |-> a.visible]
    BY <1>4
  <2>2. 1 \in 1 .. Len(t) /\ 1 \in 1 .. 1 /\ 2 \in 1 + 1 .. Beyond(t, 1) /\ 1 < Beyond(t, 1)
    BY <1>2
  <2>3. ASSUME NEW h, Holds(t, P, C, from, to, h)
        PROVE  \/ h <= 1 /\ 1 < Beyond(t, h)
               \/ 2 <= h /\ h < Beyond(t, 1)
    <3>1. h \in 1 .. n
      BY <1>2, <2>3 DEF Holds
    <3>2. CASE h = 1
      BY <2>2, <3>2
    <3>3. CASE h # 1
      BY <1>2, <3>1, <3>3
    <3>4. QED
      BY <3>2, <3>3
  <2>4. \A j \in 1 .. 1 : 1 < Beyond(t, j) /\ Visible(t[j]) => j <= 1
    OBVIOUS
  <2>5. \A j \in 1 .. 2 - 1 : 2 < Beyond(t, j) => j <= 1
    OBVIOUS
  <2>6. QED
    BY <1>1, <2>1, <2>2, <2>3, <2>4, <2>5 DEF Searching
<1>6. ASSUME NEW k \in 0 .. n, NEW s, Searching(t, P, C, from, to, s), MovedOn(s, k)
      PROVE  s \in A[k]
  BY <1>3, <1>6
<1>7. a \in A[0]
  <2>1. MovedOn(a, 0)
    BY <1>4
  <2> HIDE DEF A, MovedOn
  <2>2. 0 \in 0 .. n
    BY <1>2
  <2>3. QED
    BY <1>5, <1>6, <2>1, <2>2
<1>8. \A k \in 1 .. n : \A s \in A[k - 1] : Descend(t, Begins(t), from, to, s) \in A[k]
  <2> SUFFICES ASSUME NEW k \in 1 .. n, NEW s \in A[k - 1]
               PROVE  Descend(t, Begins(t), from, to, s) \in A[k]
    OBVIOUS
  <2>1. k - 1 \in 0 .. n /\ k \in 0 .. n
    BY <1>2
  <2>2. Searching(t, P, C, from, to, s) /\ MovedOn(s, k - 1)
    BY <2>1
  <2>3. PICK r : r = Descend(t, Begins(t), from, to, s)
    OBVIOUS
  <2>4. CASE s.child = Beyond(t, s.node)
    <3>1. s.child \notin Below(t, s.node)
      BY <1>3, <2>2, <2>4
    <3>2. r = s
      BY <2>3, <3>1 DEF Descend
    <3>3. MovedOn(r, k)
      BY <2>4, <3>2
    <3> HIDE DEF A, MovedOn
    <3>4. QED
      BY <1>6, <2>1, <2>2, <2>3, <3>2, <3>3
  <2>5. CASE s.child # Beyond(t, s.node)
    <3>1. s.child \in Below(t, s.node)
      BY <1>3, <2>2, <2>5
    <3>2. IsTurn(text, t, P, C, from, to, s)
      BY <2>2, <3>1 DEF IsTurn
    <3>3. Searching(t, P, C, from, to, r) /\ s.child < r.child
      BY <2>3, <3>2, DescendKeeps
    <3>4. s.child >= k - 1 + 2 /\ s.child \in Int /\ r.child \in Int
      <4>1. s.child >= k - 1 + 2
        BY <2>2, <2>5
      <4>2. s.child \in 2 .. n + 1 /\ r.child \in 2 .. n + 1
        BY <1>3, <2>2, <3>3
      <4>3. QED
        BY <4>1, <4>2
    <3>5. r.child >= k + 2
      BY <3>3, <3>4
    <3>6. MovedOn(r, k)
      BY <3>5
    <3> HIDE DEF A, MovedOn
    <3>7. QED
      BY <1>6, <2>1, <2>3, <3>3, <3>6
  <2>6. QED
    BY <2>4, <2>5
<1>9. PICK loop : IsDescendLoop(t, from, to, n, A, a, loop)
  <2> HIDE DEF A
  <2>1. QED
    BY <1>2, <1>4, <1>7, <1>8, DescendTurns
<1>10. PICK s : s = loop[n]
  OBVIOUS
<1>11. s \in A[n] /\ ts_node_descendant_for_byte_range(t, from, to) = s.visible
  <2> HIDE DEF A
  <2>1. n \in 0 .. n
    OBVIOUS
  <2>2. QED
    BY <1>9, <1>10, <2>1 DEF IsDescendLoop
<1>12. Searching(t, P, C, from, to, s) /\ (s.child >= n + 2 \/ s.child = Beyond(t, s.node))
  BY <1>11
<1>13. s.child \in 2 .. n + 1
  BY <1>3, <1>12
<1>14. QED
  BY <1>11, <1>12, <1>13

(* The nodes around a span are the visible ones that hold it.              *)
LEMMA AroundIs ==
  ASSUME NEW text, NEW t, NEW P, NEW C, IsRead(text, t, P, C), NEW j \in DOMAIN t,
         NEW from \in Nat, NEW to \in Nat
  PROVE  Holds(t, P, C, from, to, j)
            <=> /\ Begins(t)[j] <= from /\ from < Begins(t)[j] + t[j].size.b
                /\ to <= Begins(t)[j] + t[j].size.b
<1>1. Begins(t)[j] = C[j]
  BY BeginsAre
<1>2. C[j] + t[j].size.b = P[Beyond(t, j)]
  BY ContentIs
<1>3. QED
  BY <1>1, <1>2 DEF Holds

(* ts_node_descendant_for_byte_range finds the innermost visible node that *)
(* holds the span, the root if none does.                                  *)
LEMMA NodeFound ==
  ASSUME NEW text, NEW t, NEW P, NEW C, NEW from, NEW to, IsSearch(text, t, P, C, from, to),
         NEW found, found = ts_node_descendant_for_byte_range(t, from, to)
  PROVE  /\ (\A j \in DOMAIN t : ~(Visible(t[j]) /\ Holds(t, P, C, from, to, j))) => found = 1
         /\ \A i \in DOMAIN t : Visible(t[i]) /\ Holds(t, P, C, from, to, i) =>
              /\ found \in DOMAIN t /\ Visible(t[found]) /\ Holds(t, P, C, from, to, found)
              /\ i = found \/ found \in Below(t, i)
<1>1. PICK s : /\ Searching(t, P, C, from, to, s)
               /\ s.child = Beyond(t, s.node)
               /\ found = s.visible
  BY SearchEnds
<1>0. IsForest(t) /\ Len(t) \in Nat /\ DOMAIN t = 1 .. Len(t)
  BY VisibleTreeFacts DEF IsSearch
<1>2. PICK n \in 1 .. Len(t) : n = s.node /\ n \in DOMAIN t
  BY <1>0, <1>1 DEF Searching
<1>3. /\ found \in 1 .. n /\ n < Beyond(t, found) /\ Visible(t[found])
      /\ found # 1 => Holds(t, P, C, from, to, found)
      /\ \A j \in 1 .. n : n < Beyond(t, j) /\ Visible(t[j]) => j <= found
  BY <1>1, <1>2 DEF Searching
<1>4. found \in DOMAIN t
  BY <1>0, <1>3
<1>5. ASSUME \A j \in DOMAIN t : ~(Visible(t[j]) /\ Holds(t, P, C, from, to, j))
      PROVE  found = 1
  BY <1>3, <1>4, <1>5
<1>6. ASSUME NEW i \in DOMAIN t, Visible(t[i]), Holds(t, P, C, from, to, i)
      PROVE  /\ found \in DOMAIN t /\ Visible(t[found]) /\ Holds(t, P, C, from, to, found)
             /\ i = found \/ found \in Below(t, i)
  <2>1. PICK y \in Nat : y = Beyond(t, n)
    BY <1>0, <1>2, NodeFacts
  <2>2. i <= n /\ n < Beyond(t, i)
    <3>1. \/ i <= n /\ n < Beyond(t, i)
          \/ y <= i /\ i < y
      BY <1>1, <1>2, <1>6, <2>1 DEF Searching
    <3>2. i \in Nat
      BY <1>0
    <3>3. QED
      BY <2>1, <3>1, <3>2
  <2>3. i \in 1 .. n
    BY <1>0, <2>2
  <2>4. i <= found
    BY <1>3, <1>6, <2>2, <2>3
  <2>5. Holds(t, P, C, from, to, found)
    <3>1. CASE found = 1
      <4>1. i = found
        BY <2>3, <2>4, <3>1
      <4>2. QED
        BY <1>6, <4>1
    <3>2. CASE found # 1
      BY <1>3, <3>2
    <3>3. QED
      BY <3>1, <3>2
  <2>6. CASE i = found
    BY <1>3, <1>4, <2>5, <2>6
  <2>7. CASE i # found
    <3>1. Beyond(t, i) \in i + 1 .. Len(t) + 1
      BY <1>0, NodeFacts
    <3>2. found \in 1 .. Len(t) /\ i < found /\ found < Beyond(t, i)
      BY <1>2, <1>3, <2>2, <2>3, <2>4, <2>7, <3>1
    <3>3. \A m : m \in Below(t, i) <=> m \in 1 .. Len(t) /\ i < m /\ m < Beyond(t, i)
      BY <1>0, BelowIs
    <3>4. found \in Below(t, i)
      BY <3>2, <3>3
    <3>5. QED
      BY <1>3, <1>4, <2>5, <3>4
  <2>8. QED
    BY <2>6, <2>7
<1>7. QED
  BY <1>5, <1>6
=============================================================================
