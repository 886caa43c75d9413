-------------------------- MODULE TextBufferProofs --------------------------
(***************************************************************************)
(* Proofs about TextBuffer, for every text length, number of queued        *)
(* changes and set of texts an edit can insert.                            *)
(***************************************************************************)
EXTENDS TextBuffer, TreeWalkProofs

(***************************************************************************)
(* Type correctness.                                                       *)
(***************************************************************************)
LEMMA ConstantsAre ==
  /\ MaxText \in Nat /\ MaxText < Width /\ MaxEvents \in Nat \ {0} /\ MaxChanges \in 1 .. 2
  /\ \A s \in Inserts : s \in Seq(Characters)
  BY TextBufferAssumption, WidthIsPositive

(* The texts of the editor are texts the lexer can read.                   *)
LEMMA TextsAre ==
  ASSUME NEW t \in Texts
  PROVE  IsText(t) /\ t \in Seq(Characters) /\ Len(t) \in 0 .. MaxText
<1>1. t \in Seq(Characters) /\ Len(t) \in Nat /\ Len(t) <= MaxText
  BY DEF Texts
<1>2. QED
  BY <1>1, ConstantsAre, WidthIsPositive DEF IsText

(* A text with a part replaced.                                            *)
LEMMA ReplacedIs ==
  ASSUME NEW t \in Seq(Characters), NEW c, c.old \in 0 .. Len(t), c.oldEnd \in c.old .. Len(t),
         c.ins \in Seq(Characters)
  PROVE  /\ Replaced(t, c) \in Seq(Characters)
         /\ Len(Replaced(t, c)) = Len(t) - (c.oldEnd - c.old) + Len(c.ins)
<1>1. PICK n \in Nat : n = Len(t)
  OBVIOUS
<1>2. PICK p \in 0 .. n : p = c.old
  BY <1>1
<1>3. PICK e \in p .. n : e = c.oldEnd
  BY <1>1, <1>2
<1>4. PICK s \in Seq(Characters) : s = c.ins
  OBVIOUS
<1>5. \A i \in 1 .. n : t[i] \in Characters
  BY <1>1
<1>6. PICK x : x = SubSeq(t, 1, p)
  OBVIOUS
<1>7. x \in Seq(Characters) /\ Len(x) = p
  <2>1. \A i \in 1 .. p : t[i] \in Characters
    BY <1>1, <1>5
  <2>2. p \in Int /\ 1 \in Int
    BY <1>1
  <2>3. x \in Seq(Characters) /\ Len(x) = IF 1 <= p THEN p - 1 + 1 ELSE 0
    BY <1>6, <2>1, <2>2, SubSeqProperties
  <2>4. QED
    BY <1>1, <2>3
<1>8. PICK y : y = SubSeq(t, e + 1, n)
  OBVIOUS
<1>9. y \in Seq(Characters) /\ Len(y) = n - e
  <2>1. \A i \in e + 1 .. n : t[i] \in Characters
    BY <1>1, <1>5
  <2>2. e + 1 \in Int /\ n \in Int
    BY <1>1
  <2>3. y \in Seq(Characters) /\ Len(y) = IF e + 1 <= n THEN n - (e + 1) + 1 ELSE 0
    BY <1>8, <2>1, <2>2, SubSeqProperties
  <2>4. QED
    BY <1>1, <2>3
<1>10. x \o s \in Seq(Characters) /\ Len(x \o s) = p + Len(s)
  BY <1>4, <1>7, ConcatProperties
<1>11. PICK z \in Seq(Characters) : z = x \o s
  BY <1>10
<1>12. z \o y \in Seq(Characters) /\ Len(z \o y) = Len(z) + Len(y)
  BY <1>9, <1>11, ConcatProperties
<1>13. Len(z \o y) = n - (e - p) + Len(s) /\ Len(s) \in Nat
  BY <1>1, <1>9, <1>10, <1>11, <1>12
<1>14. Replaced(t, c) = z \o y
  BY <1>1, <1>2, <1>3, <1>4, <1>6, <1>8, <1>11 DEF Replaced
<1>15. QED
  BY <1>1, <1>2, <1>3, <1>4, <1>12, <1>13, <1>14

(* The changes of an edit have positions that fit the text before it and   *)
(* the text after it.                                                      *)
LEMMA ChangesTyped ==
  ASSUME NEW t \in Texts, NEW cs \in ChangesOf(t), Len(After(t, cs)) <= MaxText
  PROVE  cs \in Seq(Changes) /\ After(t, cs) \in Texts
<1>1. t \in Seq(Characters) /\ Len(t) \in Nat /\ Len(t) <= MaxText /\ MaxText \in Nat
  BY ConstantsAre, TextsAre
<1>2. CASE cs \in Single(t)
  <2>0. PICK x \in Splices(t) : cs = <<Change(x, x.at)>>
    BY <1>2 DEF Single
  <2>1. PICK p \in 0 .. Len(t), d \in 0 .. Len(t), s \in Inserts : x.at = p /\ x.cut = d /\ x.ins = s
    BY DEF Splices
  <2>2. PICK c : c = Change(x, x.at)
    OBVIOUS
  <2>3. c = [old |-> p, oldEnd |-> p + d, new |-> p, newEnd |-> p + Len(s), ins |-> s]
    BY <2>1, <2>2 DEF Change
  <2>4. cs = <<c>> /\ Len(cs) = 1 /\ cs[1] = c /\ 1 \in DOMAIN cs
    BY <2>0, <2>2
  <2>5. p + d <= Len(t)
    BY <2>3, <2>4 DEF ChangesOf, Effective
  <2>6. s \in Seq(Characters) /\ Len(s) \in Nat
    BY ConstantsAre
  <2>7. After(t, cs) = Replaced(t, c)
    BY <2>4 DEF After
  <2>8. Replaced(t, c) \in Seq(Characters) /\ Len(Replaced(t, c)) = Len(t) - d + Len(s)
    <3>1. p + d \in p .. Len(t)
      BY <1>1, <2>5
    <3>2. c.old = p /\ c.oldEnd = p + d /\ c.ins = s
      BY <2>3
    <3>3. Replaced(t, c) \in Seq(Characters)
          /\ Len(Replaced(t, c)) = Len(t) - (c.oldEnd - c.old) + Len(c.ins)
      BY <1>1, <2>6, <3>1, <3>2, ReplacedIs
    <3>4. QED
      BY <1>1, <2>6, <3>2, <3>3
  <2>9. c \in Changes
    BY <1>1, <2>3, <2>5, <2>6, <2>7, <2>8 DEF Changes
  <2>10. QED
    BY <2>4, <2>7, <2>8, <2>9 DEF Texts
<1>3. CASE cs \in Double(t)
  <2>0. PICK x \in Splices(t), y \in Splices(t) :
          cs = <<Change(x, x.at), Change(y, y.at - x.cut + Len(x.ins))>>
    BY <1>3 DEF Double
  <2>1. PICK p \in 0 .. Len(t), d \in 0 .. Len(t), s \in Inserts,
             q \in 0 .. Len(t), f \in 0 .. Len(t), u \in Inserts :
          /\ x.at = p /\ x.cut = d /\ x.ins = s
          /\ y.at = q /\ y.cut = f /\ y.ins = u
    BY DEF Splices
  <2>2. PICK c1 : c1 = Change(x, x.at)
    OBVIOUS
  <2>3. PICK c2 : c2 = Change(y, y.at - x.cut + Len(x.ins))
    OBVIOUS
  <2>4. c1 = [old |-> p, oldEnd |-> p + d, new |-> p, newEnd |-> p + Len(s), ins |-> s]
    BY <2>1, <2>2 DEF Change
  <2>5. c2 = [old |-> q, oldEnd |-> q + f, new |-> q - d + Len(s),
              newEnd |-> q - d + Len(s) + Len(u), ins |-> u]
    BY <2>1, <2>3 DEF Change
  <2>6. cs = <<c1, c2>> /\ Len(cs) = 2 /\ cs[1] = c1 /\ cs[2] = c2 /\ 1 \in DOMAIN cs /\ 2 \in DOMAIN cs
    BY <2>0, <2>2, <2>3
  <2>7. q + f <= Len(t) /\ p + d < q
    <3>1. Effective(c2, t) /\ c1.oldEnd < c2.old
      BY <2>6 DEF ChangesOf
    <3>2. QED
      BY <2>4, <2>5, <3>1 DEF Effective
  <2>8. s \in Seq(Characters) /\ Len(s) \in Nat /\ u \in Seq(Characters) /\ Len(u) \in Nat
    BY ConstantsAre
  <2>9. PICK r : r = Replaced(t, c2)
    OBVIOUS
  <2>10. r \in Seq(Characters) /\ Len(r) = Len(t) - f + Len(u)
    <3>1. c2.old = q /\ c2.oldEnd = q + f /\ c2.ins = u
      BY <2>5
    <3>2. q + f \in q .. Len(t)
      BY <1>1, <2>7
    <3>3. r \in Seq(Characters) /\ Len(r) = Len(t) - (c2.oldEnd - c2.old) + Len(c2.ins)
      BY <1>1, <2>8, <2>9, <3>1, <3>2, ReplacedIs
    <3>4. QED
      BY <1>1, <2>8, <3>1, <3>3
  <2>11. Replaced(r, c1) \in Seq(Characters) /\ Len(Replaced(r, c1)) = Len(r) - d + Len(s)
    <3>1. c1.old = p /\ c1.oldEnd = p + d /\ c1.ins = s
      BY <2>4
    <3>2. p \in 0 .. Len(r) /\ p + d \in p .. Len(r)
      BY <1>1, <2>7, <2>8, <2>10
    <3>3. Replaced(r, c1) \in Seq(Characters)
          /\ Len(Replaced(r, c1)) = Len(r) - (c1.oldEnd - c1.old) + Len(c1.ins)
      BY <2>8, <2>10, <3>1, <3>2, ReplacedIs
    <3>4. QED
      BY <1>1, <2>8, <2>10, <3>1, <3>3
  <2>12. After(t, cs) = Replaced(r, c1)
    BY <2>6, <2>9 DEF After
  <2>13. c1 \in Changes /\ c2 \in Changes
    <3>1. Len(t) - f + Len(u) - d + Len(s) <= MaxText
      BY <2>10, <2>11, <2>12
    <3>2. c1 \in Changes
      BY <1>1, <2>4, <2>7, <2>8, <3>1 DEF Changes
    <3>3. c2 \in Changes
      BY <1>1, <2>5, <2>7, <2>8, <3>1 DEF Changes
    <3>4. QED
      BY <3>2, <3>3
  <2>14. QED
    BY <2>6, <2>11, <2>12, <2>13 DEF Texts
<1>4. QED
  BY <1>2, <1>3 DEF ChangesOf

(* A change in the coordinates of the tree.                                *)
LEMMA InputEditTyped ==
  ASSUME NEW c \in Changes
  PROVE  InputEdit(c) \in Edits
<1>1. c.old \in 0 .. Width - 1 /\ c.oldEnd \in 0 .. Width - 1 /\ c.new \in 0 .. Width - 1
      /\ c.newEnd \in 0 .. Width - 1
  BY ConstantsAre, WidthIsPositive DEF Changes
<1>2. RowsIn(text, 0, c.old) \in Nat /\ RowsIn(text, 0, c.new) \in Nat
  BY <1>1, WidthIsPositive, RowsAreNat
<1>3. QED
  BY <1>1, <1>2 DEF InputEdit, Edits, Lengths

(* The tree there is before one is made.                                   *)
LEMMA NoTreeIsTree == IsTree(NoTree.root)
<1>1. PICK n : n = Token("end", <<>>, 0, 0, 0, 1)
  OBVIOUS
<1>2. n \in TreeNode /\ n.node_count = 1
  BY <1>1, TokenIs, WidthIsPositive DEF Symbols
<1>3. NoTree.root = <<n>>
  BY <1>1 DEF NoTree
<1>4. QED
  BY <1>2, <1>3, LeafIsTree DEF Leaf

(* The initial state is type correct.                                      *)
LEMMA TypeIsInitial == Init => TypeOK
<1> SUFFICES ASSUME Init
             PROVE  TypeOK
  OBVIOUS
<1>1. text \in Texts
  BY ConstantsAre DEF Init, Texts
<1>2. tree.state = "none" /\ tree.root = NoTree.root /\ tree.start = 0
  BY DEF Init, NotCreated
<1>3. IsTree(tree.root) /\ tree.start \in 0 .. Width - 1
  BY <1>2, NoTreeIsTree, WidthIsPositive
<1>4. events = <<>> /\ update = <<>> /\ report = <<>>
  BY DEF Init
<1>5. QED
  BY <1>1, <1>2, <1>3, <1>4, ConstantsAre DEF TypeOK

(* Every step keeps the state type correct.                                *)
LEMMA TypeIsKept == TypeOK /\ [Next]_vars => TypeOK'
<1> SUFFICES ASSUME TypeOK, [Next]_vars
             PROVE  TypeOK'
  OBVIOUS
<1>1. /\ text \in Texts
      /\ events \in Seq(Events) /\ Len(events) <= MaxEvents
      /\ update \in Seq(Events) /\ Len(update) <= 1
      /\ tree.state \in {"none", "known", "unknown"}
      /\ IsTree(tree.root) /\ tree.start \in 0 .. Width - 1
      /\ tree.state = "known" => tree.root[1].sym = "program"
      /\ update # <<>> => tree.state # "none"
      /\ report # <<>> => tree.state = "known" /\ update = <<>>
  BY DEF TypeOK
<1>2. MaxText \in Nat /\ MaxEvents \in Nat \ {0}
  BY ConstantsAre
<1>3. Unknown.state = "unknown" /\ IsTree(Unknown.root) /\ Unknown.start \in 0 .. Width - 1
  BY NoTreeIsTree, WidthIsPositive DEF Unknown, NotCreated
<1>4. ASSUME NEW t, IsSyntaxTree(t.root), t.start \in 0 .. Width - 1
      PROVE  /\ Known(t).state = "known" /\ IsTree(Known(t).root) /\ Known(t).root[1].sym = "program"
             /\ Known(t).start \in 0 .. Width - 1
  BY <1>4 DEF Known, IsSyntaxTree
<1>5. CASE Edit
  <2>1. PICK cs \in ChangesOf(text) :
          /\ Len(After(text, cs)) <= MaxText
          /\ text' = After(text, cs)
          /\ events' = Append(events, [changes |-> cs, after |-> text'])
    BY <1>5 DEF Edit
  <2>2. cs \in Seq(Changes) /\ text' \in Texts
    BY <1>1, <2>1, ChangesTyped
  <2>3. PICK ev : ev = [changes |-> cs, after |-> text']
    OBVIOUS
  <2>4. ev \in Events
    BY <2>2, <2>3 DEF Events
  <2>5. events' \in Seq(Events) /\ Len(events') = Len(events) + 1
    BY <1>1, <2>1, <2>3, <2>4, AppendProperties
  <2>6. Len(events') <= MaxEvents
    BY <1>1, <1>2, <1>5, <2>5 DEF Edit
  <2>7. report' = <<>> /\ tree' = tree /\ update' = update
    BY <1>5 DEF Edit
  <2>8. QED
    BY <1>1, <2>2, <2>5, <2>6, <2>7 DEF TypeOK
<1>6. CASE Read
  <2>1. IsSyntaxTree(Fresh(text).root) /\ Fresh(text).start \in 0 .. Width - 1
    <3>1. IsText(text)
      BY <1>1, TextsAre
    <3>2. IsSyntaxTree(Fresh(text).root) /\ Fresh(text).start = 0
      BY <3>1, NoTreeIsTree, ParsedIsTree DEF Fresh
    <3>3. QED
      BY <3>2, WidthIsPositive
  <2>2. tree' \in {Known(Fresh(text)), Unknown}
    BY <1>6 DEF Read
  <2>3. tree'.state \in {"known", "unknown"} /\ IsTree(tree'.root) /\ tree'.start \in 0 .. Width - 1
        /\ (tree'.state = "known" => tree'.root[1].sym = "program")
    BY <1>3, <1>4, <2>1, <2>2
  <2>4. report' = <<>> /\ text' = text /\ events' = events /\ update' = update
    BY <1>6 DEF Read
  <2>5. QED
    BY <1>1, <2>3, <2>4 DEF TypeOK
<1>7. CASE ContentTypeChanged
  <2>1. tree' = Unknown /\ report' = <<>> /\ text' = text /\ events' = events /\ update' = update
    BY <1>7 DEF ContentTypeChanged
  <2>2. QED
    BY <1>1, <1>3, <2>1 DEF TypeOK
<1>8. CASE BeginUpdate
  <2>1. events # <<>> /\ events' = Tail(events) /\ report' = <<>> /\ text' = text /\ tree' = tree
        /\ update' = IF tree.state = "none" THEN <<>> ELSE <<Head(events)>>
    BY <1>8 DEF BeginUpdate
  <2>2. events' \in Seq(Events) /\ Len(events') = Len(events) - 1 /\ Len(events) \in Nat
    BY <1>1, <2>1, HeadTailProperties
  <2>3. Head(events) \in Events
    BY <1>1, <2>1, HeadTailProperties
  <2>4. CASE tree.state = "none"
    BY <1>1, <1>2, <2>1, <2>2, <2>4 DEF TypeOK
  <2>5. CASE tree.state # "none"
    <3>1. update' = <<Head(events)>>
      BY <2>1, <2>5
    <3>2. update' \in Seq(Events) /\ Len(update') = 1
      BY <2>3, <3>1
    <3>3. QED
      BY <1>1, <1>2, <2>1, <2>2, <2>5, <3>2 DEF TypeOK
  <2>6. QED
    BY <2>4, <2>5
<1>9. CASE EditTree
  <2>1. PICK u : u = update[1]
    OBVIOUS
  <2>2. update # <<>> /\ u.changes # <<>> /\ report' = <<>> /\ text' = text /\ events' = events
    BY <1>9, <2>1 DEF EditTree
  <2>3. u \in Events
    BY <1>1, <2>1, <2>2
  <2>4. PICK c \in Changes : c = Head(u.changes)
    <3>1. u.changes \in Seq(Changes)
      BY <2>3 DEF Events
    <3>2. QED
      BY <2>2, <3>1, HeadTailProperties
  <2>5. CASE Throws(c)
    <3>1. update' = <<>> /\ tree' = Unknown
      BY <1>9, <2>1, <2>4, <2>5 DEF EditTree
    <3>2. QED
      BY <1>1, <1>3, <2>2, <3>1 DEF TypeOK
  <2>6. CASE ~Throws(c)
    <3>1. /\ update' = <<[u EXCEPT !.changes = Tail(@)]>>
          /\ tree' = IF tree.state = "known" THEN Known(ts_tree_edit(tree, InputEdit(c))) ELSE tree
      BY <1>9, <2>1, <2>4, <2>6 DEF EditTree
    <3>2. PICK v : v = [u EXCEPT !.changes = Tail(@)]
      OBVIOUS
    <3>3. v \in Events
      <4>1. u.changes \in Seq(Changes)
        BY <2>3 DEF Events
      <4>2. Tail(u.changes) \in Seq(Changes)
        BY <2>2, <4>1, HeadTailProperties
      <4>3. QED
        BY <2>3, <3>2, <4>2 DEF Events
    <3>4. update' \in Seq(Events) /\ Len(update') = 1
      BY <3>1, <3>2, <3>3
    <3>5. CASE tree.state = "known"
      <4>1. PICK e \in Edits : e = InputEdit(c)
        BY <2>4, InputEditTyped
      <4>2. PICK w : w = ts_tree_edit(tree, e)
        OBVIOUS
      <4>3. IsSyntaxTree(w.root)
        <5>1. IsSyntaxTree(tree.root)
          BY <1>1, <3>5 DEF IsSyntaxTree
        <5>2. IsSyntaxTree(ts_subtree_edit(tree.root, e))
          BY <5>1, EditedIsTree
        <5>3. QED
          BY <4>2, <5>2 DEF ts_tree_edit
      <4>4. w.start \in 0 .. Width - 1
        <5>1. e.new.b \in Int /\ e.old.b \in Int /\ tree.start \in Int
          BY <1>1, WidthIsPositive DEF Edits, Lengths
        <5>2. PICK z \in Int : z = e.new.b + tree.start - e.old.b
          BY <5>1
        <5>3. z % Width \in 0 .. Width - 1
          BY WidthIsPositive
        <5>4. w.start \in {z % Width, tree.start}
          BY <4>2, <5>2 DEF ts_tree_edit
        <5>5. QED
          BY <1>1, <5>3, <5>4
      <4>5. tree' = Known(w)
        BY <3>1, <3>5, <4>1, <4>2
      <4>6. QED
        BY <1>1, <1>4, <2>2, <3>4, <4>3, <4>4, <4>5 DEF TypeOK
    <3>6. CASE tree.state # "known"
      <4>1. tree' = tree
        BY <3>1, <3>6
      <4>2. QED
        BY <1>1, <2>2, <3>4, <4>1 DEF TypeOK
    <3>7. QED
      BY <3>5, <3>6
  <2>7. QED
    BY <2>5, <2>6
<1>10. CASE Reparse
  <2>1. update # <<>> /\ update' = <<>> /\ text' = text /\ events' = events
    BY <1>10 DEF Reparse
  <2>2. PICK after : after = update[1].after
    OBVIOUS
  <2>3. IsText(after)
    <3>1. update[1] \in Events
      BY <1>1, <2>1
    <3>2. QED
      BY <2>2, <3>1, TextsAre DEF Events
  <2>4. PICK parsed : parsed = ts_parser_parse(after, tree)
    OBVIOUS
  <2>5. IsSyntaxTree(parsed.root) /\ parsed.start \in 0 .. Width - 1
    BY <1>1, <2>3, <2>4, WidthIsPositive, ParsedIsTree
  <2>6. CASE tree.state = "known"
    <3>1. tree' = Known(parsed)
      BY <1>10, <2>2, <2>4, <2>6 DEF Reparse
    <3>2. QED
      BY <1>1, <1>4, <2>1, <2>5, <3>1 DEF TypeOK
  <2>7. CASE tree.state # "known"
    <3>1. tree' = tree /\ report' = <<>>
      BY <1>10, <2>7 DEF Reparse
    <3>2. QED
      BY <1>1, <2>1, <3>1 DEF TypeOK
  <2>8. QED
    BY <2>6, <2>7
<1>11. CASE UNCHANGED vars
  BY <1>1, <1>11 DEF vars, TypeOK
<1>12. QED
  BY <1>5, <1>6, <1>7, <1>8, <1>9, <1>10, <1>11 DEF Next

(* Type correctness: whatever the editor and the background thread do, the *)
(* nodes SquirrelTextBufferInfo keeps are those of one tree.               *)
THEOREM TypeCorrect == Spec => []TypeOK
<1>1. QED
  BY TypeIsInitial, TypeIsKept, PTL DEF Spec

(* A tree of a type-correct state is traversed.                            *)
LEMMA TreesAreTraversed == TypeOK => TraverseVisitsAll
<1> SUFFICES ASSUME TypeOK, tree.state = "known", NEW walk, walk = Traverse(tree.root)
             PROVE  /\ walk.over
                    /\ \A k \in 1 .. Len(walk.seen) - 1 : walk.seen[k] < walk.seen[k + 1]
                    /\ {walk.seen[k] : k \in DOMAIN walk.seen}
                         = {j \in DOMAIN tree.root : Visible(tree.root[j])}
  BY DEF TraverseVisitsAll
<1>1. PICK t : t = tree.root /\ IsVisibleTree(t)
  BY DEF TypeOK, IsVisibleTree, Visible
<1>2. walk.over /\ Walking(t, walk)
  BY <1>1, TraverseIs
<1>3. DOMAIN t = 1 .. Len(t)
  BY <1>1, VisibleTreeFacts
<1>4. PICK seen \in Seq(1 .. Len(t)) : seen = walk.seen
  BY <1>2 DEF Walking
<1>5. /\ \A k \in 1 .. Len(seen) - 1 : seen[k] < seen[k + 1]
      /\ \A k \in 1 .. Len(seen) : Visible(t[seen[k]])
      /\ \A j \in 1 .. Len(t) : Visible(t[j]) => \E i \in 1 .. Len(seen) : seen[i] = j
  BY <1>2, <1>4 DEF Walking
<1>6. {seen[k] : k \in DOMAIN seen} = {j \in DOMAIN t : Visible(t[j])}
  <2>1. \A k \in DOMAIN seen : seen[k] \in DOMAIN t
    BY <1>3, <1>4
  <2>2. DOMAIN seen = 1 .. Len(seen)
    BY <1>4
  <2>3. {seen[k] : k \in DOMAIN seen} \subseteq {j \in DOMAIN t : Visible(t[j])}
    BY <1>5, <2>1, <2>2
  <2>4. ASSUME NEW j \in DOMAIN t, Visible(t[j])
        PROVE  j \in {seen[k] : k \in DOMAIN seen}
    <3>1. PICK i \in 1 .. Len(seen) : seen[i] = j
      BY <1>3, <1>5, <2>4
    <3>2. QED
      BY <2>2, <3>1
  <2>5. QED
    BY <2>3, <2>4
<1>7. {walk.seen[k] : k \in DOMAIN walk.seen} = {j \in DOMAIN tree.root : Visible(tree.root[j])}
  BY <1>1, <1>4, <1>6
<1>8. QED
  BY <1>2, <1>4, <1>5, <1>7

(* SyntaxTreeWalker.Traverse visits every visible node of the tree, edited *)
(* or parsed, once and in order, and comes to an end.                      *)
THEOREM EveryNodeIsVisited == Spec => []TraverseVisitsAll
<1>1. QED
  BY TypeCorrect, TreesAreTraversed, PTL

(* The text after a change, character by character.                        *)
LEMMA ReplacedIsChanged ==
  ASSUME NEW t \in Seq(Characters), NEW c, c.old \in 0 .. Len(t), c.oldEnd \in c.old .. Len(t),
         c.ins \in Seq(Characters), Len(Replaced(t, c)) < Width
  PROVE  IsChanged(t, Replaced(t, c), c.old, c.oldEnd, c.old + Len(c.ins))
<1>1. PICK l \in Nat : l = Len(t)
  OBVIOUS
<1>2. PICK s \in 0 .. l : s = c.old
  BY <1>1
<1>3. PICK o \in s .. l : o = c.oldEnd
  BY <1>1, <1>2
<1>4. PICK w \in Seq(Characters) : w = c.ins
  OBVIOUS
<1>5. PICK n \in Nat : n = s + Len(w)
  BY <1>2, <1>4
<1>6. PICK after : after = Replaced(t, c)
  OBVIOUS
<1>7. after \in Seq(Characters) /\ Len(after) = l + n - o /\ Len(after) \in Nat
  <2>1. Replaced(t, c) \in Seq(Characters)
        /\ Len(Replaced(t, c)) = Len(t) - (c.oldEnd - c.old) + Len(c.ins)
    BY ReplacedIs
  <2>2. Len(w) \in Nat
    BY <1>4
  <2>3. Len(after) = l - (o - s) + Len(w)
    BY <1>1, <1>2, <1>3, <1>4, <1>6, <2>1
  <2>4. QED
    BY <1>1, <1>2, <1>3, <1>5, <1>6, <2>1, <2>2, <2>3
<1>8. PICK x : x = SubSeq(t, 1, s)
  OBVIOUS
<1>9. PICK y : y = SubSeq(t, o + 1, l)
  OBVIOUS
<1>10. \A i \in 1 .. l : t[i] \in Characters
  BY <1>1
<1>11. x \in Seq(Characters) /\ Len(x) = s /\ \A i \in 1 .. s : x[i] = t[i]
  <2>1. \A i \in 1 .. s : t[i] \in Characters
    BY <1>2, <1>10
  <2>2. s \in Int /\ 1 \in Int
    BY <1>2
  <2>3. /\ x \in Seq(Characters) /\ Len(x) = IF 1 <= s THEN s - 1 + 1 ELSE 0
        /\ \A i \in 1 .. s - 1 + 1 : x[i] = t[1 + i - 1]
    BY <1>8, <2>1, <2>2, SubSeqProperties
  <2>4. Len(x) = s
    BY <1>2, <2>3
  <2>5. \A i \in 1 .. s : x[i] = t[i]
    <3>1. TAKE i \in 1 .. s
    <3>2. i \in 1 .. s - 1 + 1 /\ 1 + i - 1 = i
      BY <1>2
    <3>3. QED
      BY <2>3, <3>2
  <2>6. QED
    BY <2>3, <2>4, <2>5
<1>12. y \in Seq(Characters) /\ Len(y) = l - o /\ \A i \in 1 .. l - o : y[i] = t[o + i]
  <2>1. \A i \in o + 1 .. l : t[i] \in Characters
    BY <1>2, <1>3, <1>10
  <2>2. o + 1 \in Int /\ l \in Int
    BY <1>1, <1>2, <1>3
  <2>3. /\ y \in Seq(Characters) /\ Len(y) = IF o + 1 <= l THEN l - (o + 1) + 1 ELSE 0
        /\ \A i \in 1 .. l - (o + 1) + 1 : y[i] = t[(o + 1) + i - 1]
    BY <1>9, <2>1, <2>2, SubSeqProperties
  <2>4. Len(y) = l - o
    BY <1>1, <1>2, <1>3, <2>3
  <2>5. \A i \in 1 .. l - o : y[i] = t[o + i]
    <3>1. TAKE i \in 1 .. l - o
    <3>2. i \in 1 .. l - (o + 1) + 1 /\ (o + 1) + i - 1 = o + i
      BY <1>1, <1>2, <1>3
    <3>3. QED
      BY <2>3, <3>2
  <2>6. QED
    BY <2>3, <2>4, <2>5
<1>13. PICK z : z = x \o w
  OBVIOUS
<1>14. z \in Seq(Characters) /\ Len(z) = n /\ \A i \in 1 .. s : z[i] = t[i]
  <2>1. /\ x \o w \in Seq(Characters) /\ Len(x \o w) = Len(x) + Len(w)
        /\ \A i \in 1 .. Len(x) + Len(w) : (x \o w)[i] = IF i <= Len(x) THEN x[i] ELSE w[i - Len(x)]
    BY <1>4, <1>11, ConcatProperties
  <2>2. Len(z) = n
    BY <1>5, <1>11, <1>13, <2>1
  <2>3. \A i \in 1 .. s : z[i] = t[i]
    <3>1. TAKE i \in 1 .. s
    <3>2. i \in 1 .. Len(x) + Len(w) /\ i <= Len(x)
      BY <1>2, <1>4, <1>11
    <3>3. QED
      BY <1>11, <1>13, <2>1, <3>2
  <2>4. QED
    BY <1>13, <2>1, <2>2, <2>3
<1>15. after = z \o y
  BY <1>1, <1>2, <1>3, <1>4, <1>6, <1>8, <1>9, <1>13 DEF Replaced
<1>16. \A i \in 1 .. n + (l - o) : after[i] = IF i <= n THEN z[i] ELSE y[i - n]
  <2>1. \A i \in 1 .. Len(z) + Len(y) : (z \o y)[i] = IF i <= Len(z) THEN z[i] ELSE y[i - Len(z)]
    BY <1>12, <1>14, ConcatProperties
  <2>2. QED
    BY <1>12, <1>14, <1>15, <2>1
<1>17. s <= n /\ s \in Nat /\ o \in Nat /\ s <= o /\ o <= l
  BY <1>2, <1>3, <1>4, <1>5
<1>18. ASSUME NEW i \in Nat, i < s
       PROVE  Character(after, i) = Character(t, i)
  <2>1. i + 1 \in 1 .. s /\ i + 1 \in 1 .. n + (l - o) /\ i + 1 <= n
    BY <1>1, <1>17, <1>18
  <2>2. after[i + 1] = t[i + 1]
    BY <1>14, <1>16, <2>1
  <2>3. i < l /\ i < Len(after)
    BY <1>1, <1>7, <1>17, <1>18
  <2>4. QED
    BY <1>1, <2>2, <2>3 DEF Character
<1>19. ASSUME NEW i \in Nat, i >= o
       PROVE  Character(after, i + n - o) = Character(t, i)
  <2>1. PICK j \in Nat : j = i + n - o /\ j >= n
    BY <1>17, <1>19
  <2>2. CASE i < l
    <3>1. j + 1 \in 1 .. n + (l - o) /\ ~(j + 1 <= n) /\ (j + 1) - n \in 1 .. l - o
          /\ o + ((j + 1) - n) = i + 1
      BY <1>1, <1>17, <1>19, <2>1, <2>2
    <3>2. after[j + 1] = y[(j + 1) - n]
      BY <1>16, <3>1
    <3>3. PICK k \in 1 .. l - o : k = (j + 1) - n
      BY <3>1
    <3>4. y[k] = t[o + k] /\ o + k = i + 1
      BY <1>12, <3>1, <3>3
    <3>5. j < Len(after)
      BY <1>1, <1>7, <1>17, <2>1, <2>2
    <3>6. QED
      BY <1>1, <2>1, <2>2, <3>2, <3>3, <3>4, <3>5 DEF Character
  <2>3. CASE ~(i < l)
    <3>1. ~(j < Len(after))
      BY <1>1, <1>7, <1>17, <2>1, <2>3
    <3>2. QED
      BY <1>1, <2>1, <2>3, <3>1 DEF Character
  <2>4. QED
    BY <2>2, <2>3
<1>20. IsText(after)
  BY <1>6, <1>7 DEF IsText
<1>21. IsChanged(t, after, s, o, n)
  BY <1>1, <1>7, <1>18, <1>19, <1>20 DEF IsChanged
<1>22. QED
  BY <1>2, <1>3, <1>4, <1>5, <1>6, <1>21

(***************************************************************************)
(* The text the tree is of, and the changes that lead from it to the text. *)
(***************************************************************************)
IsEvent(before, event) == event.changes \in ChangesOf(before) /\ event.after = After(before, event.changes)

Leads(before, queue, last) ==
  /\ \A k \in DOMAIN queue : IsEvent(IF k = 1 THEN before ELSE queue[k - 1].after, queue[k])
  /\ last = IF queue = <<>> THEN before ELSE queue[Len(queue)].after

Follows ==
  tree.state = "known" =>
    \/ /\ update = <<>>
       /\ \E before \in Texts : SoundTree(before, tree.root) /\ Leads(before, events, text)
    \/ /\ update # <<>>
       /\ Leads(update[1].after, events, text)
       /\ \/ \E before \in Texts : SoundTree(before, tree.root) /\ IsEvent(before, update[1])
          \/ update[1].changes = <<>> /\ Fits(update[1].after, tree.root)

(* One more change leads on.                                               *)
LEMMA LeadsOn ==
  ASSUME NEW before, NEW queue \in Seq(Events), NEW last, Leads(before, queue, last),
         NEW event \in Events, IsEvent(last, event)
  PROVE  Leads(before, Append(queue, event), event.after)
<1>1. PICK N \in Nat : N = Len(queue)
  OBVIOUS
<1>2. PICK q : q = Append(queue, event)
  OBVIOUS
<1>3. /\ q \in Seq(Events) /\ Len(q) = N + 1 /\ q[N + 1] = event
      /\ \A k \in 1 .. N : q[k] = queue[k]
  BY <1>1, <1>2, AppendProperties
<1>4. DOMAIN q = 1 .. N + 1 /\ DOMAIN queue = 1 .. N /\ q # <<>>
  BY <1>1, <1>3
<1>5. /\ \A k \in 1 .. N : IsEvent(IF k = 1 THEN before ELSE queue[k - 1].after, queue[k])
      /\ last = IF N = 0 THEN before ELSE queue[N].after
  <2>1. queue = <<>> <=> N = 0
    BY <1>1
  <2>2. QED
    BY <1>1, <1>4, <2>1 DEF Leads
<1>6. ASSUME NEW k \in DOMAIN q
      PROVE  IsEvent(IF k = 1 THEN before ELSE q[k - 1].after, q[k])
  <2>1. CASE k = N + 1
    <3>1. last = IF k = 1 THEN before ELSE q[k - 1].after
      <4>1. CASE N = 0
        BY <1>5, <2>1, <4>1
      <4>2. CASE N # 0
        <5>1. N \in 1 .. N /\ k - 1 = N /\ k # 1
          BY <2>1, <4>2
        <5>2. q[k - 1] = queue[N]
          BY <1>3, <5>1
        <5>3. QED
          BY <1>5, <4>2, <5>1, <5>2
      <4>3. QED
        BY <4>1, <4>2
    <3>2. QED
      BY <1>3, <2>1, <3>1
  <2>2. CASE k # N + 1
    <3>1. k \in 1 .. N /\ (k # 1 => k - 1 \in 1 .. N)
      BY <1>4, <2>2
    <3>2. q[k] = queue[k] /\ (k # 1 => q[k - 1] = queue[k - 1])
      BY <1>3, <3>1
    <3>3. QED
      BY <1>5, <3>1, <3>2
  <2>3. QED
    BY <2>1, <2>2
<1>7. QED
  BY <1>2, <1>3, <1>4, <1>6 DEF Leads

(* The first change leads to a text, the others on from there.             *)
LEMMA LeadsFrom ==
  ASSUME NEW before, NEW queue \in Seq(Events), queue # <<>>, NEW last, Leads(before, queue, last)
  PROVE  IsEvent(before, Head(queue)) /\ Leads(Head(queue).after, Tail(queue), last)
<1>1. PICK N \in Nat : N = Len(queue) /\ N >= 1
  OBVIOUS
<1>2. PICK h : h = Head(queue)
  OBVIOUS
<1>3. PICK q : q = Tail(queue)
  OBVIOUS
<1>4. h = queue[1] /\ q \in Seq(Events) /\ Len(q) = N - 1 /\ \A k \in 1 .. N - 1 : q[k] = queue[k + 1]
  BY <1>1, <1>2, <1>3, HeadTailProperties
<1>5. DOMAIN queue = 1 .. N /\ DOMAIN q = 1 .. N - 1 /\ (q = <<>> <=> N = 1)
  BY <1>1, <1>4
<1>6. /\ \A k \in 1 .. N : IsEvent(IF k = 1 THEN before ELSE queue[k - 1].after, queue[k])
      /\ last = queue[N].after
  BY <1>1, <1>5 DEF Leads
<1>7. IsEvent(before, h)
  <2>1. 1 \in 1 .. N
    BY <1>1
  <2>2. QED
    BY <1>4, <1>6, <2>1
<1>8. ASSUME NEW k \in DOMAIN q
      PROVE  IsEvent(IF k = 1 THEN h.after ELSE q[k - 1].after, q[k])
  <2>1. k + 1 \in 1 .. N /\ k + 1 # 1 /\ (k + 1) - 1 = k /\ k \in 1 .. N - 1
    BY <1>5
  <2>2. IsEvent(queue[(k + 1) - 1].after, queue[k + 1])
    BY <1>6, <2>1
  <2>3. IsEvent(queue[k].after, q[k])
    BY <1>4, <2>1, <2>2
  <2>4. queue[k] = IF k = 1 THEN h ELSE q[k - 1]
    <3>1. CASE k = 1
      BY <1>4, <3>1
    <3>2. CASE k # 1
      <4>1. k - 1 \in 1 .. N - 1 /\ (k - 1) + 1 = k
        BY <2>1, <3>2
      <4>2. q[k - 1] = queue[(k - 1) + 1]
        BY <1>4, <4>1
      <4>3. QED
        BY <3>2, <4>1, <4>2
    <3>3. QED
      BY <3>1, <3>2
  <2>5. QED
    BY <2>3, <2>4
<1>9. last = IF q = <<>> THEN h.after ELSE q[Len(q)].after
  <2>1. CASE N = 1
    BY <1>4, <1>5, <1>6, <2>1
  <2>2. CASE N # 1
    <3>1. N - 1 \in 1 .. N - 1 /\ (N - 1) + 1 = N
      BY <1>1, <2>2
    <3>2. q[N - 1] = queue[(N - 1) + 1]
      BY <1>4, <3>1
    <3>3. QED
      BY <1>4, <1>5, <1>6, <2>2, <3>1, <3>2
  <2>3. QED
    BY <2>1, <2>2
<1>10. QED
  BY <1>2, <1>3, <1>7, <1>8, <1>9 DEF Leads

(* With one change at a time, the edit of the tree of the text before the  *)
(* change fits the text after it.                                          *)
LEMMA ChangeFits ==
  ASSUME MaxChanges = 1, NEW before \in Texts, NEW t, SoundTree(before, t),
         NEW event \in Events, IsEvent(before, event),
         NEW e \in Edits, e.start.b = Head(event.changes).old,
         e.old.b = Head(event.changes).oldEnd, e.new.b = Head(event.changes).newEnd
  PROVE  Tail(event.changes) = <<>> /\ Fits(event.after, ts_subtree_edit(t, e))
<1>1. PICK cs : cs = event.changes
  OBVIOUS
<1>2. cs \in ChangesOf(before) /\ event.after = After(before, cs)
  BY <1>1 DEF IsEvent
<1>3. before \in Seq(Characters) /\ Len(before) \in Nat /\ IsText(before)
  BY TextsAre
<1>4. PICK x \in Splices(before) : cs = <<Change(x, x.at)>>
  BY <1>2 DEF ChangesOf, Single
<1>5. PICK p \in 0 .. Len(before), d \in 0 .. Len(before), w \in Inserts :
        x.at = p /\ x.cut = d /\ x.ins = w
  BY DEF Splices
<1>6. PICK c : c = Change(x, x.at)
  OBVIOUS
<1>7. c = [old |-> p, oldEnd |-> p + d, new |-> p, newEnd |-> p + Len(w), ins |-> w]
  BY <1>5, <1>6 DEF Change
<1>8. cs = <<c>> /\ Len(cs) = 1 /\ cs[1] = c /\ 1 \in DOMAIN cs /\ Head(cs) = c /\ Tail(cs) = <<>>
  BY <1>4, <1>6
<1>9. p + d <= Len(before)
  BY <1>2, <1>7, <1>8 DEF ChangesOf, Effective
<1>10. w \in Seq(Characters) /\ Len(w) \in Nat
  BY ConstantsAre
<1>11. PICK after \in Texts : after = event.after
  BY DEF Events
<1>12. after = Replaced(before, c)
  BY <1>2, <1>8, <1>11 DEF After
<1>13. IsText(after) /\ Len(after) < Width /\ Len(after) \in Nat
  BY <1>11, TextsAre DEF IsText
<1>14. PICK s \in Nat : s = p
  BY <1>3
<1>15. PICK o \in Nat : o = p + d /\ s <= o /\ o <= Len(before)
  BY <1>3, <1>9, <1>14
<1>16. PICK n \in Nat : n = p + Len(w) /\ s <= n
  BY <1>3, <1>10, <1>14
<1>17. IsChanged(before, after, s, o, n)
  <2>1. c.old = s /\ c.oldEnd = o /\ c.ins = w
    BY <1>7, <1>14, <1>15
  <2>2. c.old \in 0 .. Len(before) /\ c.oldEnd \in c.old .. Len(before)
    BY <1>3, <1>14, <1>15, <2>1
  <2>3. IsChanged(before, Replaced(before, c), c.old, c.oldEnd, c.old + Len(c.ins))
    BY <1>3, <1>10, <1>12, <1>13, <2>1, <2>2, ReplacedIsChanged
  <2>4. QED
    BY <1>12, <1>14, <1>16, <2>1, <2>3
<1>18. e.start.b = s /\ e.old.b = o /\ e.new.b = n
  BY <1>1, <1>7, <1>8, <1>14, <1>15, <1>16
<1>19. Len(before) + n - o < Width
  BY <1>13, <1>17 DEF IsChanged
<1>20. IsEditing(before, t, Pos(t), e, s, o, n, EditChildren(t, e))
  BY <1>3, <1>15, <1>16, <1>18, <1>19 DEF IsEditing
<1>21. IsPlaced(before, t, Pos(t), e, s, o, n, EditChildren(t, e), ts_subtree_edit(t, e),
                NewPlaces(t, Pos(t), s, o, n, Len(before)))
  BY <1>20 DEF IsPlaced
<1>22. Fits(after, ts_subtree_edit(t, e))
  BY <1>17, <1>21, EditFits
<1>23. QED
  BY <1>1, <1>8, <1>11, <1>22

(* No tree is there in the initial state.                                  *)
LEMMA FollowsInitially == Init => Follows
  BY DEF Init, NotCreated, Follows

(* An edited tree that is about to be parsed again.                        *)
LEMMA EditedIs ==
  ASSUME TypeOK, Follows, tree.state = "known", update # <<>>, update[1].changes = <<>>,
         NEW after, after = update[1].after
  PROVE  /\ after \in Texts /\ Leads(after, events, text)
         /\ Fits(after, tree.root) /\ Usable(after, tree.root)
<1>1. after \in Texts
  <2>1. update \in Seq(Events)
    BY DEF TypeOK
  <2>2. update[1] \in Events
    BY <2>1
  <2>3. QED
    BY <2>2 DEF Events
<1>2. /\ Leads(after, events, text)
      /\ \/ \E before \in Texts : IsEvent(before, update[1])
         \/ Fits(after, tree.root)
  BY DEF Follows
<1>3. ASSUME NEW before \in Texts, IsEvent(before, update[1])
      PROVE  FALSE
  <2>1. <<>> \in ChangesOf(before)
    BY <1>3 DEF IsEvent
  <2>2. QED
    BY <2>1 DEF ChangesOf, Single, Double
<1>4. Fits(after, tree.root)
  BY <1>2, <1>3
<1>5. IsTree(tree.root)
  BY DEF TypeOK
<1>6. QED
  BY <1>1, <1>2, <1>4, <1>5, TextsAre DEF Usable

(* Every step keeps the tree behind the changes that are not applied yet.  *)
LEMMA FollowsIsKept ==
  ASSUME MaxChanges = 1, TypeOK, Follows, [Next]_vars
  PROVE  Follows'
<1>1. /\ text \in Texts
      /\ events \in Seq(Events) /\ update \in Seq(Events)
      /\ update # <<>> => tree.state # "none"
      /\ IsTree(tree.root)
      /\ tree.state = "known" => tree.root[1].sym = "program"
  BY DEF TypeOK
<1>2. ASSUME tree'.state # "known"
      PROVE  Follows'
  BY <1>2 DEF Follows
<1>3. Unknown.state = "unknown"
  BY DEF Unknown, NotCreated
<1>4. \A t : Known(t).state = "known" /\ Known(t).root = t.root
  BY DEF Known
<1>5. CASE Edit
  <2> SUFFICES ASSUME tree.state = "known"
               PROVE  Follows'
    BY <1>2, <1>5 DEF Edit
  <2>1. PICK cs \in ChangesOf(text) :
          /\ Len(After(text, cs)) <= MaxText
          /\ text' = After(text, cs)
          /\ events' = Append(events, [changes |-> cs, after |-> text'])
    BY <1>5 DEF Edit
  <2>2. PICK event : event = [changes |-> cs, after |-> text']
    OBVIOUS
  <2>3. cs \in Seq(Changes) /\ text' \in Texts
    BY <1>1, <2>1, ChangesTyped
  <2>4. event \in Events /\ IsEvent(text, event) /\ event.after = text'
    BY <2>1, <2>2, <2>3 DEF Events, IsEvent
  <2>5. \A before : Leads(before, events, text) => Leads(before, events', text')
    <3>1. TAKE before
    <3>2. HAVE Leads(before, events, text)
    <3>3. Leads(before, Append(events, event), event.after)
      BY <1>1, <2>4, <3>2, LeadsOn
    <3>4. QED
      BY <2>1, <2>2, <2>4, <3>3
  <2>6. tree' = tree /\ update' = update
    BY <1>5 DEF Edit
  <2>7. CASE update = <<>>
    <3>1. PICK before \in Texts : SoundTree(before, tree.root) /\ Leads(before, events, text)
      BY <2>7 DEF Follows
    <3>2. Leads(before, events', text')
      BY <2>5, <3>1
    <3>3. QED
      BY <2>6, <2>7, <3>1, <3>2 DEF Follows
  <2>8. CASE update # <<>>
    <3>1. /\ Leads(update[1].after, events, text)
          /\ \/ \E before \in Texts : SoundTree(before, tree.root) /\ IsEvent(before, update[1])
             \/ update[1].changes = <<>> /\ Fits(update[1].after, tree.root)
      BY <2>8 DEF Follows
    <3>2. Leads(update[1].after, events', text')
      BY <2>5, <3>1
    <3>3. QED
      BY <2>6, <2>8, <3>1, <3>2 DEF Follows
  <2>9. QED
    BY <2>7, <2>8
<1>6. CASE Read
  <2>1. tree.state = "none" /\ update = <<>> /\ update' = update /\ text' = text /\ events' = events
        /\ tree' = IF events = <<>> THEN Known(Fresh(text)) ELSE Unknown
    BY <1>1, <1>6 DEF Read
  <2>2. CASE events # <<>>
    BY <1>2, <1>3, <2>1, <2>2
  <2>3. CASE events = <<>>
    <3>1. tree'.root = Fresh(text).root
      BY <1>4, <2>1, <2>3
    <3>2. SoundTree(text, Fresh(text).root)
      <4>1. Len(NoTree.root) = 1
        BY DEF NoTree
      <4>2. Usable(text, NoTree.root)
        BY <1>1, <4>1, TextsAre, NoTreeIsTree DEF Usable
      <4>3. QED
        BY <4>2, ParsedIsSound DEF Fresh
    <3>3. Leads(text, <<>>, text)
      BY DEF Leads
    <3>4. update' = <<>> /\ events' = <<>> /\ text' = text
      BY <2>1, <2>3
    <3>5. QED
      BY <1>1, <3>1, <3>2, <3>3, <3>4 DEF Follows
  <2>4. QED
    BY <2>2, <2>3
<1>7. CASE ContentTypeChanged
  BY <1>2, <1>3, <1>7 DEF ContentTypeChanged
<1>8. CASE BeginUpdate
  <2>1. /\ update = <<>> /\ events # <<>> /\ events' = Tail(events) /\ text' = text /\ tree' = tree
        /\ update' = IF tree.state = "none" THEN <<>> ELSE <<Head(events)>>
    BY <1>8 DEF BeginUpdate
  <2> SUFFICES ASSUME tree.state = "known"
               PROVE  Follows'
    BY <1>2, <2>1
  <2>2. PICK before \in Texts : SoundTree(before, tree.root) /\ Leads(before, events, text)
    BY <2>1 DEF Follows
  <2>3. IsEvent(before, Head(events)) /\ Leads(Head(events).after, Tail(events), text)
    BY <1>1, <2>1, <2>2, LeadsFrom
  <2>4. update' # <<>> /\ update'[1] = Head(events)
    BY <2>1
  <2>5. Leads(update'[1].after, events', text') /\ IsEvent(before, update'[1])
    BY <2>1, <2>3, <2>4
  <2>6. SoundTree(before, tree'.root)
    BY <2>1, <2>2
  <2>7. QED
    BY <2>4, <2>5, <2>6 DEF Follows
<1>9. CASE EditTree
  <2>1. PICK event \in Events : event = update[1]
    <3>1. update # <<>>
      BY <1>9 DEF EditTree
    <3>2. QED
      BY <1>1, <3>1
  <2>2. update # <<>> /\ event.changes # <<>> /\ text' = text /\ events' = events
    BY <1>9, <2>1 DEF EditTree
  <2>3. PICK c \in Changes : c = Head(event.changes)
    <3>1. event.changes \in Seq(Changes)
      BY DEF Events
    <3>2. QED
      BY <2>2, <3>1, HeadTailProperties
  <2>4. CASE Throws(c)
    BY <1>2, <1>3, <1>9, <2>1, <2>3, <2>4 DEF EditTree
  <2>5. CASE ~Throws(c)
    <3>1. /\ update' = <<[event EXCEPT !.changes = Tail(@)]>>
          /\ tree' = IF tree.state = "known" THEN Known(ts_tree_edit(tree, InputEdit(c))) ELSE tree
      BY <1>9, <2>1, <2>3, <2>5 DEF EditTree
    <3>2. CASE tree.state # "known"
      BY <1>2, <3>1, <3>2
    <3>3. CASE tree.state = "known"
      <4>1. /\ Leads(event.after, events, text)
            /\ \E before \in Texts : SoundTree(before, tree.root) /\ IsEvent(before, event)
        BY <2>1, <2>2, <3>3 DEF Follows
      <4>2. PICK before \in Texts : SoundTree(before, tree.root) /\ IsEvent(before, event)
        BY <4>1
      <4>3. PICK e \in Edits : e = InputEdit(c)
        BY InputEditTyped
      <4>4. e.start.b = c.old /\ e.old.b = c.oldEnd /\ e.new.b = c.newEnd
        BY <4>3 DEF InputEdit
      <4>5. Tail(event.changes) = <<>> /\ Fits(event.after, ts_subtree_edit(tree.root, e))
        BY <2>3, <4>2, <4>4, ChangeFits
      <4>6. tree'.root = ts_subtree_edit(tree.root, e)
        BY <1>4, <3>1, <3>3, <4>3 DEF ts_tree_edit
      <4>7. PICK v : v = [event EXCEPT !.changes = Tail(@)]
        OBVIOUS
      <4>8. v.changes = <<>> /\ v.after = event.after
        BY <4>5, <4>7 DEF Events
      <4>9. update' # <<>> /\ update'[1] = v
        BY <3>1, <4>7
      <4>10. /\ Leads(update'[1].after, events', text')
             /\ update'[1].changes = <<>> /\ Fits(update'[1].after, tree'.root)
        BY <2>2, <4>1, <4>5, <4>6, <4>8, <4>9
      <4>11. QED
        BY <4>9, <4>10 DEF Follows
    <3>4. QED
      BY <3>2, <3>3
  <2>6. QED
    BY <2>4, <2>5
<1>10. CASE Reparse
  <2>1. /\ update # <<>> /\ update[1].changes = <<>>
        /\ update' = <<>> /\ text' = text /\ events' = events
        /\ tree' = IF tree.state = "known" THEN Known(ts_parser_parse(update[1].after, tree)) ELSE tree
    BY <1>10 DEF Reparse
  <2>2. CASE tree.state # "known"
    BY <1>2, <2>1, <2>2
  <2>3. CASE tree.state = "known"
    <3>1. PICK after : after = update[1].after
      OBVIOUS
    <3>2. after \in Texts /\ Leads(after, events, text) /\ Usable(after, tree.root)
      BY <2>1, <2>3, <3>1, EditedIs
    <3>6. SoundTree(after, ts_parser_parse(after, tree).root)
      BY <3>2, ParsedIsSound
    <3>7. tree'.root = ts_parser_parse(after, tree).root
      BY <1>4, <2>1, <2>3, <3>1
    <3>8. SoundTree(after, tree'.root) /\ Leads(after, events', text')
      BY <2>1, <3>2, <3>6, <3>7
    <3>9. QED
      BY <2>1, <3>2, <3>8 DEF Follows
  <2>4. QED
    BY <2>2, <2>3
<1>11. CASE UNCHANGED vars
  BY <1>11 DEF vars, Follows
<1>12. QED
  BY <1>5, <1>6, <1>7, <1>8, <1>9, <1>10, <1>11 DEF Next

(* A tree that fits a text is as long as it and has the text's tokens.     *)
LEMMA FittingTreeFits == TypeOK /\ Follows => EditedTreeFits
<1> SUFFICES ASSUME TypeOK, Follows, tree.state = "known", update # <<>>, update[1].changes = <<>>
             PROVE  /\ Total(tree.root[1]).b = Len(update[1].after)
                    /\ \A j \in DOMAIN tree.root : Leaf(tree.root[j]) =>
                          \/ tree.root[j].changed
                          \/ tree.root[j] = Lex(update[1].after, Starts(tree.root)[j].b)
  BY DEF EditedTreeFits
<1>1. PICK after : after = update[1].after
  OBVIOUS
<1>2. PICK t : t = tree.root
  OBVIOUS
<1>3. after \in Texts /\ Fits(after, t)
  BY <1>1, <1>2, EditedIs
<1>4. IsText(after)
  BY <1>3, TextsAre
<1>5. PICK P : P = Pos(t)
  OBVIOUS
<1>6. /\ IsForest(t) /\ Len(t) \in Nat /\ DOMAIN t = 1 .. Len(t) /\ Measured(t, P) /\ Len(t) >= 2
      /\ P[Len(t) + 1] = Len(after)
  BY <1>3, <1>4, <1>5, FitsIs
<1>7. Total(t[1]).b = Len(after)
  <2>1. Beyond(t, 1) = Len(t) + 1 /\ 1 \in DOMAIN t
    BY <1>3, <1>6 DEF Fits, IsSyntaxTree, IsTree
  <2>2. P[Len(t) + 1] = P[1] + Total(t[1]).b /\ P[1] = 0
    BY <1>6, <2>1 DEF Measured
  <2>3. Total(t[1]) \in Lengths
    BY <1>6, <2>1, NodeFacts
  <2>4. Total(t[1]).b \in Int
    BY <2>3 DEF Lengths
  <2>5. QED
    BY <1>6, <2>2, <2>4
<1>8. ASSUME NEW j \in DOMAIN t, Leaf(t[j]), ~t[j].changed
      PROVE  t[j] = Lex(after, Starts(t)[j].b)
  <2>1. Whole(after, 0, t, P, j)
    BY <1>3, <1>5, <1>8 DEF Fits, Intact
  <2>2. t[j] = Lex(after, 0 + P[j])
    BY <1>8, <2>1 DEF Whole
  <2>3. P[j] = Starts(t)[j].b /\ P[j] \in Nat
    <3>1. j \in 1 .. Len(t) + 1
      BY <1>6
    <3>2. QED
      BY <1>5, <1>6, <3>1 DEF Pos, Measured
  <2>4. QED
    BY <2>2, <2>3
<1>9. QED
  BY <1>1, <1>2, <1>7, <1>8

(* When the parser is called, the edited tree is as long as the new text   *)
(* and every leaf ts_tree_edit has not marked is the token a lexer would   *)
(* read there, provided a change of the buffer changes one place.          *)
THEOREM EditedTreeIsOfTheNewText ==
  ASSUME MaxChanges = 1
  PROVE  Spec => []EditedTreeFits
<1>1. TypeOK /\ Follows /\ [Next]_vars => Follows'
  BY FollowsIsKept
<1>2. Spec => []Follows
  BY <1>1, FollowsInitially, TypeCorrect, PTL DEF Spec
<1>3. QED
  BY <1>2, TypeCorrect, FittingTreeFits, PTL

(* What is left of a span when its blanks are cut off.                     *)
LEMMA TrimmedIs ==
  ASSUME NEW string \in Texts, NEW start \in Nat, NEW end \in Nat, start <= end, end <= Len(string)
  PROVE  Trimmed(string, start, end).start \in Nat /\ Trimmed(string, start, end).end \in Nat
<1>1. IsText(string)
  BY TextsAre
<1>2. PICK p \in Nat : p = Past(string, start, "n")
  <2>1. "n" \in Characters
    BY DEF Characters
  <2>2. QED
    BY <1>1, <2>1, PastIs
<1>3. PICK s \in 0 .. end : s = Smaller(Past(string, start, "n"), end)
  BY <1>2 DEF Smaller
<1>4. PICK stops : stops = {e \in s .. end : e = s \/ e = Len(string) \/ Character(string, e) # "n"}
  OBVIOUS
<1>5. stops \in SUBSET (0 .. end) /\ stops # {}
  <2>1. s \in stops
    BY <1>3, <1>4
  <2>2. QED
    BY <1>4, <2>1
<1>6. Max(stops) \in Nat
  <2>1. Max(stops) \in stops
    BY <1>5, end \in Nat, MaxIs
  <2>2. PICK m \in 0 .. end : m = Max(stops)
    BY <1>5, <2>1
  <2>3. QED
    BY <2>2
<1>7. Trimmed(string, start, end) = [start |-> s, end |-> Max(stops)]
  BY <1>3, <1>4, Zenon DEF Trimmed
<1>8. QED
  BY <1>3, <1>6, <1>7

(* GetNodeAt in a tree of the text.                                        *)
LEMMA NodeOfTextIsInnermost ==
  ASSUME NEW string \in Texts, NEW t, SoundTree(string, t), IsVisibleTree(t),
         NEW start \in 0 .. Len(string), NEW end \in start .. Len(string), NEW around,
         around = Around(t, Trimmed(string, start, end)), NEW found \in GetNodeAt(t, string, start, end)
  PROVE  IF around = {} THEN found = 1
         ELSE found \in around /\ \A j \in around : j = found \/ found \in Below(t, j)
<1>1. Len(string) \in Nat /\ IsText(string)
  BY TextsAre
<1>2. PICK span : span = Trimmed(string, start, end)
  OBVIOUS
<1>3. PICK from \in Nat : from = span.start
  BY <1>1, <1>2, TrimmedIs
<1>4. PICK to \in Nat : to = span.end
  BY <1>1, <1>2, TrimmedIs
<1>5. found = ts_node_descendant_for_byte_range(t, from, to)
  BY <1>2, <1>3, <1>4 DEF GetNodeAt
<1>6. PICK P : P = Pos(t)
  OBVIOUS
<1>7. PICK C : C = [j \in 1 .. Len(t) |-> P[j] + t[j].pad.b]
  OBVIOUS
<1>8. IsRead(string, t, P, C)
  BY <1>1, <1>6, <1>7 DEF IsRead
<1>9. IsSearch(string, t, P, C, from, to)
  BY <1>8 DEF IsSearch
<1>10. \A j : j \in around <=> j \in DOMAIN t /\ Visible(t[j]) /\ Holds(t, P, C, from, to, j)
  <2>1. ASSUME NEW j \in DOMAIN t
        PROVE  Holds(t, P, C, from, to, j)
                 <=> /\ Begins(t)[j] <= from /\ from < Begins(t)[j] + t[j].size.b
                     /\ to <= Begins(t)[j] + t[j].size.b
    BY <1>8, AroundIs
  <2>2. around = {j \in DOMAIN t : /\ Visible(t[j])
                                   /\ Begins(t)[j] <= from /\ from < Begins(t)[j] + t[j].size.b
                                   /\ to <= Begins(t)[j] + t[j].size.b}
    BY <1>2, <1>3, <1>4 DEF Around
  <2>3. QED
    BY <2>1, <2>2
<1>11. /\ (\A j \in DOMAIN t : ~(Visible(t[j]) /\ Holds(t, P, C, from, to, j))) => found = 1
       /\ \A i \in DOMAIN t : Visible(t[i]) /\ Holds(t, P, C, from, to, i) =>
            /\ found \in DOMAIN t /\ Visible(t[found]) /\ Holds(t, P, C, from, to, found)
            /\ i = found \/ found \in Below(t, i)
  BY <1>5, <1>9, NodeFound
<1>12. CASE around = {}
  BY <1>10, <1>11, <1>12
<1>13. CASE around # {}
  <2>1. found \in around
    BY <1>10, <1>11, <1>13
  <2>2. \A j \in around : j = found \/ found \in Below(t, j)
    BY <1>10, <1>11
  <2>3. QED
    BY <1>13, <2>1, <2>2
<1>14. QED
  BY <1>12, <1>13

(* The tree is of the text when no change waits, so the node that is found *)
(* is the innermost one.                                                   *)
LEMMA NodesAreInnermost == TypeOK /\ Follows => NodeAtIsInnermost
<1> SUFFICES ASSUME TypeOK, Follows, tree.state = "known", update = <<>>, events = <<>>,
                    NEW start \in 0 .. Len(text), NEW end \in start .. Len(text),
                    NEW found \in GetNodeAt(tree.root, text, start, end)
             PROVE  IF Around(tree.root, Trimmed(text, start, end)) = {} THEN found = 1
                    ELSE /\ found \in Around(tree.root, Trimmed(text, start, end))
                         /\ \A j \in Around(tree.root, Trimmed(text, start, end)) :
                               j = found \/ found \in Below(tree.root, j)
  BY DEF NodeAtIsInnermost
<1>1. PICK before \in Texts : SoundTree(before, tree.root) /\ Leads(before, events, text)
  BY DEF Follows
<1>2. before = text
  BY <1>1 DEF Leads
<1>3. IsVisibleTree(tree.root) /\ text \in Texts
  BY DEF TypeOK, IsVisibleTree, Visible
<1>4. QED
  BY <1>1, <1>2, <1>3, NodeOfTextIsInnermost

(* GetNodeAt finds the innermost visible node around what is left of the   *)
(* span it is asked for, the root if there is none, whatever edits the     *)
(* tree was put together by, provided a change of the buffer changes one   *)
(* place.                                                                  *)
THEOREM NodeFoundIsInnermost ==
  ASSUME MaxChanges = 1
  PROVE  Spec => []NodeAtIsInnermost
<1>1. TypeOK /\ Follows /\ [Next]_vars => Follows'
  BY FollowsIsKept
<1>2. Spec => []Follows
  BY <1>1, FollowsInitially, TypeCorrect, PTL DEF Spec
<1>3. QED
  BY <1>2, TypeCorrect, NodesAreInnermost, PTL

(***************************************************************************)
(* The shape of the trees the parser makes.                                *)
(***************************************************************************)
(* The parent of a node below another one.                                 *)
LEMMA ParentIs ==
  ASSUME NEW t, IsForest(t), NEW j \in DOMAIN t, NEW k \in Below(t, j)
  PROVE  \E p \in DOMAIN t : /\ p < k /\ k \in Below(t, p) /\ (p = j \/ p \in Below(t, j))
                             /\ \A q \in p + 1 .. k - 1 : k \notin Below(t, q)
<1>1. PICK N \in Nat : N = Len(t) /\ DOMAIN t = 1 .. N
  BY DEF IsForest
<1>2. \A i \in 1 .. N : Beyond(t, i) \in i + 1 .. N + 1
  <2> TAKE i \in 1 .. N
  <2>1. Beyond(t, i) \in i + 1 .. Len(t) + 1
    BY <1>1, NodeFacts
  <2>2. QED
    BY <1>1, <2>1
<1>3. \A i \in 1 .. N : \A m : m \in Below(t, i) <=> m \in 1 .. N /\ i < m /\ m < Beyond(t, i)
  <2> TAKE i \in 1 .. N
  <2>1. \A m : m \in Below(t, i) <=> m \in 1 .. Len(t) /\ i < m /\ m < Beyond(t, i)
    BY <1>1, BelowIs
  <2>2. QED
    BY <1>1, <2>1
<1>4. j \in 1 .. N /\ k \in 1 .. N /\ j < k /\ k < Beyond(t, j)
  BY <1>1, <1>3
<1> DEFINE T == {q \in 1 .. k - 1 : k < Beyond(t, q)}
<1>5. T \in SUBSET (0 .. N) /\ j \in T
  BY <1>4
<1>6. PICK p \in T : \A q \in T : q <= p
  BY <1>1, <1>5, GreatestElement
<1>7. p \in 1 .. N /\ p < k /\ k < Beyond(t, p) /\ j <= p
  BY <1>4, <1>5, <1>6
<1>8. k \in Below(t, p)
  BY <1>3, <1>4, <1>7
<1>9. p = j \/ p \in Below(t, j)
  <2>1. CASE p # j
    <3>1. PICK b \in 1 .. N + 1 : b = Beyond(t, j)
      BY <1>2, <1>4
    <3>2. j < p /\ p < b
      BY <1>1, <1>4, <1>7, <2>1, <3>1
    <3>3. QED
      BY <1>3, <1>4, <1>7, <3>1, <3>2
  <2>2. QED
    BY <2>1
<1>10. ASSUME NEW q \in p + 1 .. k - 1, k \in Below(t, q)
       PROVE  FALSE
  <2>1. q \in 1 .. N /\ q \in 1 .. k - 1 /\ p < q
    BY <1>4, <1>7, <1>10
  <2>2. k < Beyond(t, q)
    BY <1>3, <1>10, <2>1
  <2>3. q <= p
    BY <1>6, <2>1, <2>2
  <2>4. QED
    BY <1>7, <2>1, <2>3
<1>11. QED
  BY <1>1, <1>7, <1>8, <1>9, <1>10

(* Below a node other than the program are letters and dots.               *)
LEMMA BelowStatements ==
  ASSUME NEW t, IsForest(t), \A i \in DOMAIN t : Formed(t, i),
         NEW j \in DOMAIN t, t[j].sym # "program", NEW k \in Below(t, j)
  PROVE  t[k].sym \in {"id", "list", "dot", "dots"}
<1>1. PICK N \in Nat : N = Len(t) /\ DOMAIN t = 1 .. N
  BY DEF IsForest
<1> DEFINE Plain(m) == t[m].sym \in {"id", "list", "dot", "dots"}
           S == {n \in Nat : \A m \in 1 .. n : m \in Below(t, j) => Plain(m)}
<1>2. 0 \in S
  OBVIOUS
<1>3. \A n \in Nat : n \in S => n + 1 \in S
  <2> SUFFICES ASSUME NEW n \in Nat, n \in S
               PROVE  n + 1 \in S
    OBVIOUS
  <2>1. ASSUME n + 1 \in Below(t, j)
        PROVE  Plain(n + 1)
    <3>1. PICK m \in Nat : m = n + 1 /\ m \in Below(t, j)
      BY <2>1
    <3>2. PICK p \in DOMAIN t : /\ p < m /\ m \in Below(t, p) /\ (p = j \/ p \in Below(t, j))
                                /\ \A q \in p + 1 .. m - 1 : m \notin Below(t, q)
      BY <3>1, ParentIs
    <3>3. p \in 1 .. n
      BY <1>1, <3>1, <3>2
    <3>4. t[p].sym # "program"
      BY <3>2, <3>3
    <3>5. PICK b \in 1 .. N + 1 : b = Beyond(t, p)
      BY <1>1, NodeFacts
    <3>6. p < m /\ m < b /\ m \in 1 .. N
      <4>1. m \in 1 .. Len(t) /\ p < m /\ m < Beyond(t, p)
        BY <3>2, BelowIs
      <4>2. QED
        BY <1>1, <3>5, <4>1
    <3>7. ~Leaf(t[p])
      BY <1>1, <3>3, <3>5, <3>6 DEF Beyond, Leaf
    <3>8. CASE m = p + 1
      <4>1. t[p + 1].sym \in {"id", "list", "dot", "dots"}
        BY <3>4, <3>7 DEF Formed, Letters
      <4>2. QED
        BY <3>1, <3>8, <4>1
    <3>9. CASE m # p + 1
      <4>1. PICK q \in 1 .. N : q = p + 1 /\ q < m
        BY <1>1, <3>3, <3>6, <3>9
      <4>2. PICK a \in 1 .. N + 1 : a = Beyond(t, q)
        BY <1>1, NodeFacts
      <4>3. ~(m < a)
        <5>1. q \in p + 1 .. m - 1
          BY <3>3, <3>6, <4>1
        <5>2. m \notin Below(t, q)
          BY <3>2, <5>1
        <5>3. m \in Below(t, q) <=> m \in 1 .. Len(t) /\ q < m /\ m < Beyond(t, q)
          BY <1>1, BelowIs
        <5>4. QED
          BY <1>1, <3>6, <4>1, <4>2, <5>2, <5>3
      <4>4. a = b - 1 /\ t[b - 1].sym \in {"id", "dot", "dots"}
        <5>1. a # b
          BY <3>6, <4>3
        <5>2. Formed(t, p)
          OBVIOUS
        <5>3. QED
          BY <3>4, <3>5, <3>7, <4>1, <4>2, <5>1, <5>2 DEF Formed
      <4>5. m = b - 1
        BY <3>6, <4>2, <4>3, <4>4
      <4>6. QED
        BY <3>1, <4>4, <4>5
    <3>10. QED
      BY <3>8, <3>9
  <2>2. \A m \in 1 .. n + 1 : m \in 1 .. n \/ m = n + 1
    OBVIOUS
  <2> HIDE DEF Plain
  <2>3. QED
    BY <2>1, <2>2
<1>4. Nat \subseteq S
  <2> HIDE DEF S
  <2> QED BY <1>2, <1>3, Inductive
<1>5. k \in Nat /\ k \in 1 .. k
  BY <1>1, BelowIs
<1>6. k \in S
  BY <1>4, <1>5
<1>7. QED
  BY <1>5, <1>6

\* The nodes before the a-th one are statements that a dot or three dots close.
Closes(t, j) == t[j].sym = "statement" /\ t[Beyond(t, j) - 1].sym \in {"dot", "dots"}

Settled(t, a) ==
  /\ IsCut(t, a)
  /\ \A i \in 1 .. a - 1 : \E j \in 1 .. i : Closes(t, j) /\ i < Beyond(t, j)

\* What may follow them on the stack.
Between(t, a) == Settled(t, a) /\ a = Len(t) + 1

Lettered(t, a) == Settled(t, a) /\ a <= Len(t) /\ Letters(t[a]) /\ Beyond(t, a) = Len(t) + 1

Dotted(t, a) == Settled(t, a) /\ a = Len(t) /\ t[a].sym \in {"dot", "dots"}

Followed(t, a) ==
  /\ Settled(t, a) /\ a < Len(t) /\ Letters(t[a]) /\ Beyond(t, a) = Len(t)
  /\ t[Len(t)].sym \in {"id", "dot", "dots"}

\* A statement closed by the end of the text, or one that was taken for it.
Hangs(t, a) ==
  Settled(t, a) /\ a <= Len(t) /\ t[a].sym = "statement" /\ Beyond(t, a) = Len(t) + 1

Ready(t, a) == Between(t, a) \/ Lettered(t, a)

Shape(t, a) == Ready(t, a) \/ Dotted(t, a) \/ Followed(t, a)

Finished(t, a) == Between(t, a) \/ Hangs(t, a)

(* What is settled in a stack of trees.                                    *)
LEMMA SettledIs ==
  ASSUME NEW t, IsForest(t), NEW a, Settled(t, a)
  PROVE  /\ Len(t) \in Nat /\ DOMAIN t = 1 .. Len(t) /\ a \in 1 .. Len(t) + 1 /\ a \in Nat
         /\ \A i \in 1 .. Len(t) : Beyond(t, i) \in i + 1 .. Len(t) + 1
         /\ \A i \in 1 .. a - 1 : Beyond(t, i) <= a
<1>1. Len(t) \in Nat /\ DOMAIN t = 1 .. Len(t)
  BY DEF IsForest
<1>2. \A i \in 1 .. Len(t) : Beyond(t, i) \in i + 1 .. Len(t) + 1
  BY <1>1, NodeFacts
<1>3. a \in 1 .. Len(t) + 1 /\ \A i \in 1 .. a - 1 : Beyond(t, i) <= a
  BY DEF Settled, IsCut
<1>4. QED
  BY <1>1, <1>2, <1>3

(* The last tree of a stack.                                               *)
LEMMA TopAt ==
  ASSUME NEW t, IsForest(t), NEW a \in 1 .. Len(t), IsCut(t, a), Beyond(t, a) = Len(t) + 1
  PROVE  t # <<>> /\ Top(t) = a
<1>1. PICK N \in Nat : N = Len(t)
  BY DEF IsForest
<1>2. t # <<>>
  BY <1>1, EmptySeq
<1>3. PICK x : x = Top(t)
  OBVIOUS
<1>4. x \in 1 .. N /\ Beyond(t, x) = N + 1 /\ \A i \in 1 .. x - 1 : Beyond(t, i) <= x
  BY <1>1, <1>2, <1>3, TopIs
<1>5. \A i \in 1 .. a - 1 : Beyond(t, i) <= a
  BY DEF IsCut
<1>6. ~(a < x)
  BY <1>1, <1>4
<1>7. ~(x < a)
  BY <1>1, <1>4, <1>5
<1>8. QED
  BY <1>1, <1>2, <1>3, <1>4, <1>6, <1>7

(* What is settled depends on the nodes it is about.                       *)
LEMMA SettledKept ==
  ASSUME NEW t, IsForest(t), NEW u, IsForest(u), NEW a, Settled(t, a), a <= Len(u) + 1,
         \A k \in 1 .. a - 1 : u[k] = t[k]
  PROVE  Settled(u, a)
<1>1. PICK N \in Nat : N = Len(t) /\ a \in 1 .. N + 1
  BY SettledIs
<1>2. Len(u) \in Nat
  BY DEF IsForest
<1>3. \A k \in 1 .. a - 1 : Beyond(u, k) = Beyond(t, k)
  BY DEF Beyond
<1>4. \A k \in 1 .. a - 1 : Beyond(t, k) \in k + 1 .. a
  <2> TAKE k \in 1 .. a - 1
  <2>1. k \in 1 .. N
    BY <1>1
  <2>2. Beyond(t, k) \in k + 1 .. N + 1 /\ Beyond(t, k) <= a
    BY <1>1, <2>1, SettledIs
  <2>3. QED
    BY <1>1, <2>1, <2>2
<1>5. IsCut(u, a)
  BY <1>1, <1>2, <1>3, <1>4 DEF IsCut
<1>6. ASSUME NEW j \in 1 .. a - 1, Closes(t, j)
      PROVE  Closes(u, j)
  <2>1. Beyond(t, j) - 1 \in 1 .. a - 1
    BY <1>1, <1>4
  <2>2. u[Beyond(t, j) - 1] = t[Beyond(t, j) - 1] /\ u[j] = t[j] /\ Beyond(u, j) = Beyond(t, j)
    BY <1>3, <2>1
  <2>3. QED
    BY <1>6, <2>2 DEF Closes
<1>7. ASSUME NEW i \in 1 .. a - 1
      PROVE  \E j \in 1 .. i : Closes(u, j) /\ i < Beyond(u, j)
  <2>1. PICK j \in 1 .. i : Closes(t, j) /\ i < Beyond(t, j)
    BY DEF Settled
  <2>2. j \in 1 .. a - 1
    BY <1>1
  <2>3. QED
    BY <1>3, <1>6, <2>1, <2>2
<1>8. QED
  BY <1>5, <1>7 DEF Settled

(* A closed statement more.                                                *)
LEMMA SettledGrows ==
  ASSUME NEW t, IsForest(t), NEW a, Settled(t, a), a <= Len(t), Closes(t, a),
         Beyond(t, a) = Len(t) + 1
  PROVE  Between(t, Len(t) + 1)
<1>1. PICK N \in Nat : N = Len(t) /\ a \in 1 .. N
  <2>1. Len(t) \in Nat /\ a \in 1 .. Len(t) + 1
    BY SettledIs
  <2>2. QED
    BY <2>1
<1>2. \A i \in 1 .. N : Beyond(t, i) \in i + 1 .. N + 1
  BY <1>1, SettledIs
<1>3. IsCut(t, N + 1)
  <2>1. N + 1 \in 1 .. Len(t) + 1 /\ \A i \in 1 .. N + 1 - 1 : i \in 1 .. N
    BY <1>1
  <2>2. \A i \in 1 .. N : Beyond(t, i) <= N + 1
    BY <1>1, <1>2
  <2>3. QED
    BY <2>1, <2>2 DEF IsCut
<1>4. ASSUME NEW i \in 1 .. N + 1 - 1
      PROVE  \E j \in 1 .. i : Closes(t, j) /\ i < Beyond(t, j)
  <2>1. CASE i < a
    <3>1. i \in 1 .. a - 1
      BY <1>1, <2>1
    <3>2. QED
      BY <3>1 DEF Settled
  <2>2. CASE ~(i < a)
    <3>1. a \in 1 .. i /\ i < Beyond(t, a)
      BY <1>1, <2>2
    <3>2. QED
      BY <3>1
  <2>3. QED
    BY <2>1, <2>2
<1>5. QED
  BY <1>1, <1>3, <1>4 DEF Settled, Between

(* The last of the settled trees is a statement.                           *)
LEMMA SettledTop ==
  ASSUME NEW t, IsForest(t), Firm(t), NEW a, Settled(t, a), a > 1, NEW u, u = SubSeq(t, 1, a - 1)
  PROVE  /\ u # <<>> /\ Top(u) \in 1 .. a - 1 /\ u[Top(u)] = t[Top(u)]
         /\ Closes(t, Top(u)) /\ Beyond(t, Top(u)) = a
<1>0. PICK N \in Nat : N = Len(t) /\ DOMAIN t = 1 .. N
  BY DEF IsForest
<1>1. N = Len(t) /\ a \in 2 .. N + 1 /\ DOMAIN t = 1 .. N
  <2>1. a \in 1 .. Len(t) + 1
    BY SettledIs
  <2>2. a \in 1 .. N + 1
    BY <1>0, <2>1
  <2>3. a \in 2 .. N + 1
    BY <2>2
  <2>4. QED
    BY <1>0, <2>3
<1>2. IsCut(t, a)
  BY DEF Settled
<1>3. IsForest(u) /\ Len(u) = a - 1 /\ \A k \in 1 .. a - 1 : u[k] = t[k] /\ Beyond(u, k) = Beyond(t, k)
  <2>1. IsForest(SubSeq(t, 1, a - 1)) /\ Len(SubSeq(t, 1, a - 1)) = a - 1
    BY <1>2, CutsInTwo
  <2>2. \A k \in 1 .. a - 1 : /\ SubSeq(t, 1, a - 1)[k] = t[k]
                              /\ Beyond(SubSeq(t, 1, a - 1), k) = Beyond(t, k)
    BY <1>2, CutsInTwo
  <2>3. QED
    BY <2>1, <2>2
<1>4. u # <<>>
  BY <1>1, <1>3, EmptySeq
<1>5. PICK x : x = Top(u)
  OBVIOUS
<1>6. x \in 1 .. a - 1 /\ Beyond(t, x) = a /\ u[x] = t[x] /\ \A i \in 1 .. x - 1 : Beyond(t, i) <= x
  <2>1. x \in 1 .. a - 1 /\ Beyond(u, x) = (a - 1) + 1 /\ \A i \in 1 .. x - 1 : Beyond(u, i) <= x
    BY <1>3, <1>4, <1>5, TopIs
  <2>2. \A i \in 1 .. x - 1 : i \in 1 .. a - 1
    BY <1>1, <2>1
  <2>3. QED
    BY <1>1, <1>3, <2>1, <2>2
<1>7. PICK j \in 1 .. a - 1 : Closes(t, j) /\ a - 1 < Beyond(t, j)
  <2>1. a - 1 \in 1 .. a - 1
    BY <1>1
  <2>2. QED
    BY <2>1 DEF Settled
<1>8. Beyond(t, j) \in Nat
  <2>1. j \in 1 .. Len(t)
    BY <1>1
  <2>2. Beyond(t, j) \in j + 1 .. Len(t) + 1
    BY <2>1, SettledIs
  <2>3. QED
    BY <1>1, <2>2
<1>9. ~(j < x)
  BY <1>1, <1>6, <1>7, <1>8
<1>10. ~(x < j)
  <2>1. ASSUME x < j
        PROVE  FALSE
    <3>1. x \in DOMAIN t /\ j \in 1 .. Len(t) /\ j < Beyond(t, x)
      BY <1>1, <1>6
    <3>2. j \in Below(t, x)
      BY <2>1, <3>1, BelowIs
    <3>3. \A i \in DOMAIN t : Formed(t, i) /\ t[i].sym # "program"
      BY DEF Firm
    <3>4. t[j].sym \in {"id", "list", "dot", "dots"}
      BY <3>1, <3>2, <3>3, BelowStatements
    <3>5. QED
      BY <1>7, <3>4 DEF Closes
  <2>2. QED
    BY <2>1
<1>11. j = x
  BY <1>1, <1>6, <1>9, <1>10
<1>12. QED
  BY <1>4, <1>5, <1>6, <1>7, <1>11

(* Between statements.                                                     *)
LEMMA NotInStatement ==
  ASSUME NEW t, IsForest(t), Firm(t), NEW a, Settled(t, a)
  PROVE  ~InStatement(SubSeq(t, 1, a - 1))
<1>1. PICK u : u = SubSeq(t, 1, a - 1)
  OBVIOUS
<1>2. CASE a > 1
  <2>1. Closes(t, Top(u)) /\ u[Top(u)] = t[Top(u)]
    BY <1>1, <1>2, SettledTop
  <2>2. QED
    BY <1>1, <2>1 DEF Closes, InStatement
<1>3. CASE ~(a > 1)
  <2>1. a = 1
    <3>1. Len(t) \in Nat /\ a \in 1 .. Len(t) + 1
      BY SettledIs
    <3>2. QED
      BY <1>3, <3>1
  <2>2. IsForest(u) /\ Len(u) = a - 1
    BY <1>1, CutsInTwo DEF Settled
  <2>3. u = <<>>
    BY <2>1, <2>2, EmptySeq DEF IsForest
  <2>4. QED
    BY <1>1, <2>3 DEF InStatement
<1>4. QED
  BY <1>2, <1>3

(* A reduction leaves what lies before it and ends with what it ended with. *)
IsReduction(t, i, sym, v) ==
  /\ IsForest(t) /\ i \in 1 .. Len(t) /\ IsCut(t, i) /\ sym \in Symbols
  /\ v = SubSeq(t, 1, i - 1) \o Node(sym, SubSeq(t, i, Len(t)))

(* A reduction puts one node in the place of the trees from one on.        *)
LEMMA ReducedAt ==
  ASSUME NEW t, NEW i, NEW sym, NEW v, IsReduction(t, i, sym, v)
  PROVE  /\ IsForest(v) /\ Len(v) \in Nat /\ i <= Len(v)
         /\ \A k \in 1 .. i - 1 : v[k] = t[k]
         /\ v[i].sym = sym /\ Beyond(v, i) = Len(v) + 1 /\ v[Len(v)] = t[Len(t)]
<1>0. /\ IsForest(t) /\ i \in 1 .. Len(t) /\ IsCut(t, i) /\ sym \in Symbols
      /\ v = SubSeq(t, 1, i - 1) \o Node(sym, SubSeq(t, i, Len(t)))
  BY DEF IsReduction
<1>1. PICK N \in Nat : N = Len(t) /\ i \in 1 .. N
  BY <1>0 DEF IsForest
<1>2. PICK u : u = SubSeq(t, 1, i - 1)
  OBVIOUS
<1>3. PICK w : w = SubSeq(t, i, Len(t))
  OBVIOUS
<1>4. IsForest(u) /\ Len(u) = i - 1
  BY <1>0, <1>2, CutsInTwo
<1>5. \A k \in 1 .. i - 1 : u[k] = t[k]
  BY <1>0, <1>2, CutsInTwo
<1>6. IsForest(w) /\ Len(w) = N - i + 1
  BY <1>0, <1>1, <1>3, CutsInTwo
<1>7. \A k \in 1 .. N - i + 1 : w[k] = t[i + k - 1]
  <2>1. \A k \in 1 .. Len(t) - i + 1 : /\ SubSeq(t, i, Len(t))[k] = t[i + k - 1]
                                       /\ Beyond(SubSeq(t, i, Len(t)), k) = Beyond(t, i + k - 1) - (i - 1)
    BY <1>0, CutsInTwo, ZenonT(60)
  <2>2. QED
    BY <1>1, <1>3, <2>1
<1>8. PICK m \in Nat \ {0} : m = N - i + 1
  BY <1>1
<1>9. w # <<>>
  BY <1>6, <1>8, EmptySeq
<1>10. PICK n : n = Node(sym, w)
  OBVIOUS
<1>11. IsAbove(n, sym, w)
  BY <1>0, <1>6, <1>9, <1>10, NodeIsAbove
<1>12. /\ IsForest(n) /\ Len(n) = m + 1 /\ n[1].sym = sym /\ Beyond(n, 1) = m + 2
       /\ n[m + 1] = w[m]
  <2>1. Len(w) = m /\ m \in 1 .. m
    BY <1>6, <1>8
  <2>2. IsTree(n) /\ Len(n) = m + 1 /\ n[1].sym = sym /\ \A k \in 1 .. m : n[k + 1] = w[k]
    BY <1>11, <2>1 DEF IsAbove
  <2>3. Beyond(n, 1) = m + 2 /\ IsForest(n)
    BY <1>8, <2>2 DEF IsTree
  <2>4. QED
    BY <2>1, <2>2, <2>3
<1>13. v = u \o n
  BY <1>0, <1>2, <1>3, <1>10
<1>14. IsForest(v) /\ Len(v) = Len(u) + Len(n)
  <2>1. IsForest(n)
    BY <1>12
  <2>2. IsForest(u \o n) /\ Len(u \o n) = Len(u) + Len(n)
    BY <1>4, <2>1, ConcatIsForest
  <2>3. QED
    BY <1>13, <2>2
<1>15. \A k \in 1 .. Len(u) : v[k] = u[k] /\ Beyond(v, k) = Beyond(u, k)
  <2>1. IsForest(n)
    BY <1>12
  <2>2. \A k \in 1 .. Len(u) : (u \o n)[k] = u[k] /\ Beyond(u \o n, k) = Beyond(u, k)
    BY <1>4, <2>1, ConcatIsForest
  <2>3. QED
    BY <1>13, <2>2
<1>16. \A k \in 1 .. Len(n) : v[Len(u) + k] = n[k] /\ Beyond(v, Len(u) + k) = Len(u) + Beyond(n, k)
  <2>1. IsForest(u) /\ IsForest(n)
    BY <1>4, <1>12
  <2>2. \A k \in 1 .. Len(n) : /\ (u \o n)[Len(u) + k] = n[k]
                               /\ Beyond(u \o n, Len(u) + k) = Len(u) + Beyond(n, k)
    BY <2>1, ConcatIsForest
  <2>3. QED
    BY <1>13, <2>2
<1>17. Len(v) = N + 1
  <2>1. Len(n) = m + 1
    BY <1>12
  <2>2. (i - 1) + (m + 1) = N + 1
    BY <1>1, <1>8
  <2>3. QED
    BY <1>4, <1>14, <2>1, <2>2
<1>18. \A k \in 1 .. i - 1 : v[k] = t[k]
  BY <1>4, <1>5, <1>15
<1>19. v[i].sym = sym /\ Beyond(v, i) = Len(v) + 1
  <2>1. 1 \in 1 .. Len(n) /\ Len(u) + 1 = i
    BY <1>1, <1>4, <1>8, <1>12
  <2>2. v[Len(u) + 1] = n[1] /\ Beyond(v, Len(u) + 1) = Len(u) + Beyond(n, 1)
    BY <1>16, <2>1
  <2>3. v[i] = n[1] /\ Beyond(v, i) = Len(u) + Beyond(n, 1)
    BY <2>1, <2>2
  <2>4. Len(u) + (m + 2) = (N + 1) + 1
    BY <1>1, <1>4, <1>8
  <2>5. QED
    BY <1>12, <1>17, <2>3, <2>4
<1>20. v[Len(v)] = t[Len(t)]
  <2>1. m + 1 \in 1 .. Len(n) /\ Len(u) + (m + 1) = N + 1
    BY <1>1, <1>4, <1>8, <1>12
  <2>2. v[Len(u) + (m + 1)] = n[m + 1]
    BY <1>16, <2>1
  <2>3. m \in 1 .. N - i + 1 /\ i + m - 1 = N
    BY <1>1, <1>8
  <2>4. w[m] = t[i + m - 1]
    BY <1>7, <2>3
  <2>5. QED
    BY <1>1, <1>12, <1>17, <2>1, <2>2, <2>3, <2>4
<1>21. QED
  BY <1>1, <1>14, <1>17, <1>18, <1>19, <1>20

(* A reduction of all that is not settled.                                 *)
LEMMA ReduceSettles ==
  ASSUME NEW stack, NEW t, t = stack.nodes, IsForest(t), NEW a, Settled(t, a), a <= Len(t),
         NEW sym \in {"list", "statement"}, NEW v, v = Reduce(stack, sym, a).nodes
  PROVE  /\ sym = "list" => Lettered(v, a)
         /\ sym = "statement" => Hangs(v, a)
         /\ sym = "statement" /\ t[Len(t)].sym \in {"dot", "dots"} => Between(v, Len(v) + 1)
<1>1. a \in 1 .. Len(t) /\ IsCut(t, a)
  <2>1. Len(t) \in Nat /\ a \in 1 .. Len(t) + 1
    BY SettledIs
  <2>2. QED
    BY <2>1 DEF Settled
<1>2. sym \in Symbols
  BY DEF Symbols
<1>3. v = SubSeq(t, 1, a - 1) \o Node(sym, SubSeq(t, a, Len(t)))
  BY DEF Reduce
<1>4. /\ IsForest(v) /\ Len(v) \in Nat /\ a <= Len(v)
      /\ \A k \in 1 .. a - 1 : v[k] = t[k]
      /\ v[a].sym = sym /\ Beyond(v, a) = Len(v) + 1 /\ v[Len(v)] = t[Len(t)]
  <2>1. IsReduction(t, a, sym, v)
    BY <1>1, <1>2, <1>3 DEF IsReduction
  <2>2. QED
    BY <2>1, ReducedAt
<1>5. Settled(v, a)
  <2>1. a <= Len(v) + 1
    BY <1>1, <1>4
  <2>2. QED
    BY <1>4, <2>1, SettledKept
<1>6. sym = "list" => Lettered(v, a)
  BY <1>4, <1>5 DEF Lettered, Letters
<1>7. sym = "statement" => Hangs(v, a)
  BY <1>4, <1>5 DEF Hangs
<1>8. ASSUME sym = "statement", t[Len(t)].sym \in {"dot", "dots"}
      PROVE  Between(v, Len(v) + 1)
  <2>1. Beyond(v, a) - 1 = Len(v)
    BY <1>4
  <2>2. Closes(v, a)
    BY <1>4, <1>8, <2>1 DEF Closes
  <2>3. QED
    BY <1>4, <1>5, <2>2, SettledGrows
<1>9. QED
  BY <1>6, <1>7, <1>8

(* Letters with a token behind them.                                       *)
LEMMA FollowedTop ==
  ASSUME NEW t, IsForest(t), Firm(t), NEW a, Followed(t, a), NEW u, u = UnderTop(t)
  PROVE  /\ t # <<>> /\ Top(t) = Len(t) /\ InStatement(u) /\ Top(u) = a
         /\ u = SubSeq(t, 1, Len(t) - 1)
<1>1. /\ Settled(t, a) /\ a < Len(t) /\ Letters(t[a]) /\ Beyond(t, a) = Len(t)
      /\ t[Len(t)].sym \in {"id", "dot", "dots"}
  BY DEF Followed
<1>2. PICK N \in Nat : N = Len(t) /\ DOMAIN t = 1 .. N
  BY DEF IsForest
<1>3. a \in 1 .. N - 1
  <2>1. a \in 1 .. Len(t) + 1
    BY <1>1, SettledIs
  <2>2. QED
    BY <1>1, <1>2, <2>1
<1>4. \A i \in 1 .. N : Beyond(t, i) \in i + 1 .. N + 1
  BY <1>1, <1>2, SettledIs
<1>5. \A i \in 1 .. a - 1 : Beyond(t, i) <= a
  BY <1>1, SettledIs
<1>6. ASSUME NEW i \in 1 .. N - 1
      PROVE  Beyond(t, i) <= N
  <2>1. CASE i < a
    <3>1. Beyond(t, i) <= a
      BY <1>3, <1>5, <2>1
    <3>2. i \in 1 .. N
      BY <1>2
    <3>3. QED
      BY <1>2, <1>3, <1>4, <3>1, <3>2
  <2>2. CASE i = a
    BY <1>1, <1>2, <2>2
  <2>3. CASE a < i
    <3>1. a \in DOMAIN t /\ i \in DOMAIN t
      BY <1>2, <1>3
    <3>2. Beyond(t, a) <= i \/ Beyond(t, i) <= Beyond(t, a)
      BY <2>3, <3>1, Nested
    <3>3. QED
      BY <1>1, <1>2, <3>2
  <2>4. QED
    BY <1>3, <2>1, <2>2, <2>3
<1>7. IsCut(t, N)
  BY <1>2, <1>3, <1>6 DEF IsCut
<1>8. N \in 1 .. Len(t) /\ Beyond(t, N) = Len(t) + 1
  <2>1. N \in 1 .. N
    BY <1>3
  <2>2. Beyond(t, N) \in N + 1 .. N + 1
    BY <1>4, <2>1
  <2>3. QED
    BY <1>2, <2>1, <2>2
<1>9. t # <<>> /\ Top(t) = N
  BY <1>7, <1>8, TopAt
<1>10. u = SubSeq(t, 1, N - 1)
  BY <1>9 DEF UnderTop
<1>11. IsForest(u) /\ Len(u) = N - 1
  BY <1>7, <1>10, CutsInTwo
<1>12. \A k \in 1 .. N - 1 : u[k] = t[k] /\ Beyond(u, k) = Beyond(t, k)
  BY <1>7, <1>10, CutsInTwo
<1>13. Settled(u, a)
  <2>1. a <= Len(u) + 1 /\ \A k \in 1 .. a - 1 : k \in 1 .. N - 1
    BY <1>2, <1>3, <1>11
  <2>2. \A k \in 1 .. a - 1 : u[k] = t[k]
    BY <1>12, <2>1
  <2>3. QED
    BY <1>1, <1>11, <2>1, <2>2, SettledKept
<1>14. u # <<>> /\ Top(u) = a
  <2>1. a \in 1 .. Len(u) /\ Beyond(u, a) = Len(u) + 1
    BY <1>1, <1>2, <1>3, <1>11, <1>12
  <2>2. IsCut(u, a)
    BY <1>13 DEF Settled
  <2>3. QED
    BY <1>11, <2>1, <2>2, TopAt
<1>15. u[a].sym \in {"id", "list"}
  BY <1>1, <1>3, <1>12 DEF Letters
<1>16. QED
  BY <1>2, <1>9, <1>10, <1>14, <1>15 DEF InStatement

\* Letters with one more run of letters behind them.
Listable(t, a) == Followed(t, a) /\ t[Len(t)].sym = "id"

(* What is at the top of a stack of one of the shapes.                     *)
LEMMA BetweenTop ==
  ASSUME NEW t, IsForest(t), Firm(t), t # <<>>, NEW a, Between(t, a)
  PROVE  ~InStatement(t) /\ t[Top(t)].sym = "statement"
<1>1. PICK N \in Nat \ {0} : N = Len(t)
  <2>1. PICK n \in Nat : n = Len(t)
    BY DEF IsForest
  <2>2. n # 0
    BY <2>1, EmptySeq DEF IsForest
  <2>3. QED
    BY <2>1, <2>2
<1>2. Settled(t, a) /\ a = N + 1 /\ a > 1
  BY <1>1 DEF Between
<1>3. SubSeq(t, 1, a - 1) = t
  <2>1. t \in Seq(TreeNode) /\ a - 1 = Len(t)
    BY <1>1, <1>2 DEF IsForest
  <2>2. QED
    BY <2>1
<1>4. ~InStatement(t)
  BY <1>2, <1>3, NotInStatement
<1>5. Closes(t, Top(t))
  BY <1>2, <1>3, SettledTop
<1>6. QED
  BY <1>4, <1>5 DEF Closes

(* The last tree of such a stack is all that is not settled.               *)
LEMMA TopIsRest ==
  ASSUME NEW t, IsForest(t), Firm(t), NEW a, Lettered(t, a) \/ Dotted(t, a) \/ Hangs(t, a)
  PROVE  t # <<>> /\ Top(t) = a /\ ~InStatement(UnderTop(t)) /\ a \in 1 .. Len(t) /\ IsCut(t, a)
<1>1. Settled(t, a) /\ a <= Len(t)
  <2>1. Len(t) \in Nat
    BY DEF IsForest
  <2>2. QED
    BY <2>1 DEF Lettered, Dotted, Hangs
<1>2. a \in 1 .. Len(t) /\ IsCut(t, a)
  <2>1. Len(t) \in Nat /\ a \in 1 .. Len(t) + 1
    BY <1>1, SettledIs
  <2>2. QED
    BY <1>1, <2>1 DEF Settled
<1>3. Beyond(t, a) = Len(t) + 1
  <2>1. CASE Dotted(t, a)
    <3>1. Beyond(t, a) \in a + 1 .. Len(t) + 1 /\ a = Len(t)
      BY <1>1, <1>2, <2>1, SettledIs DEF Dotted
    <3>2. QED
      BY <1>2, <3>1
  <2>2. QED
    BY <2>1 DEF Lettered, Hangs
<1>4. t # <<>> /\ Top(t) = a
  BY <1>2, <1>3, TopAt
<1>5. ~InStatement(UnderTop(t))
  BY <1>1, <1>4, NotInStatement DEF UnderTop
<1>6. QED
  BY <1>2, <1>4, <1>5

(* Two runs of letters make a list.                                        *)
LEMMA ListedShape ==
  ASSUME NEW stack, NEW t, t = stack.nodes, IsForest(t), Firm(t), t # <<>>,
         NEW a, Shape(t, a) \/ Hangs(t, a)
  PROVE  \/ Listed(stack) = stack /\ ~Listable(t, a)
         \/ Lettered(Listed(stack).nodes, a)
<1>1. CASE Listable(t, a)
  <2>1. Followed(t, a) /\ t[Len(t)].sym = "id"
    BY <1>1 DEF Listable
  <2>2. Top(t) = Len(t) /\ InStatement(UnderTop(t)) /\ Top(UnderTop(t)) = a
    BY <2>1, FollowedTop
  <2>3. Listed(stack) = Reduce(stack, "list", a)
    BY <2>1, <2>2 DEF Listed
  <2>4. PICK y \in {"list", "statement"} : y = "list"
    OBVIOUS
  <2>5. PICK v : v = Reduce(stack, y, a).nodes
    OBVIOUS
  <2>6. Settled(t, a) /\ a <= Len(t)
    <3>1. Settled(t, a) /\ a < Len(t)
      BY <2>1 DEF Followed
    <3>2. Len(t) \in Nat /\ a \in Nat
      BY <3>1, SettledIs
    <3>3. QED
      BY <3>1, <3>2
  <2>7. Lettered(v, a)
    BY <2>4, <2>5, <2>6, ReduceSettles
  <2>8. QED
    BY <2>3, <2>4, <2>5, <2>7
<1>2. CASE ~Listable(t, a)
  <2>1. ~(t[Top(t)].sym = "id" /\ InStatement(UnderTop(t)))
    <3>1. CASE Between(t, a)
      BY <3>1, BetweenTop
    <3>2. CASE Lettered(t, a) \/ Dotted(t, a) \/ Hangs(t, a)
      BY <3>2, TopIsRest
    <3>3. CASE Followed(t, a)
      <4>1. Top(t) = Len(t)
        BY <3>3, FollowedTop
      <4>2. QED
        BY <1>2, <3>3, <4>1 DEF Listable
    <3>4. QED
      BY <3>1, <3>2, <3>3 DEF Shape, Ready
  <2>2. Listed(stack) = stack
    BY <2>1 DEF Listed
  <2>3. QED
    BY <1>2, <2>2
<1>3. QED
  BY <1>1, <1>2

(* Dots close a statement, and so does the end of the text.                *)
LEMMA ClosedShape ==
  ASSUME NEW stack, NEW t, t = stack.nodes, IsForest(t), Firm(t), t # <<>>,
         NEW a, Shape(t, a) \/ Hangs(t, a), ~Listable(t, a), NEW sym
  PROVE  /\ sym = "end" => \E b : Finished(Closed(stack, sym).nodes, b)
         /\ sym # "end" /\ Shape(t, a) => \E b : Ready(Closed(stack, sym).nodes, b)
<1>1. PICK y \in {"list", "statement"} : y = "statement"
  OBVIOUS
<1>2. PICK v : v = Reduce(stack, y, a).nodes
  OBVIOUS
<1>3. CASE Between(t, a)
  <2>1. t[Top(t)].sym = "statement"
    BY <1>3, BetweenTop
  <2>2. Closed(stack, sym) = stack
    BY <2>1 DEF Closed
  <2>3. QED
    BY <1>3, <2>2 DEF Finished, Ready
<1>4. CASE Hangs(t, a)
  <2>1. Top(t) = a
    BY <1>4, TopIsRest
  <2>2. Closed(stack, sym) = stack
    BY <1>4, <2>1 DEF Closed, Hangs
  <2>3. ~Shape(t, a)
    <3>1. Len(t) \in Nat /\ a <= Len(t) /\ t[a].sym = "statement" /\ Settled(t, a)
      BY <1>4 DEF Hangs, IsForest
    <3>2. a \in Nat
      BY <3>1, SettledIs
    <3>3. ~(a = Len(t) + 1)
      BY <3>1, <3>2
    <3>4. QED
      BY <3>1, <3>3 DEF Shape, Ready, Between, Lettered, Dotted, Followed, Letters
  <2>4. QED
    BY <1>4, <2>2, <2>3 DEF Finished
<1>5. CASE Dotted(t, a)
  <2>1. Top(t) = a /\ ~InStatement(UnderTop(t))
    BY <1>5, TopIsRest
  <2>2. Settled(t, a) /\ a = Len(t) /\ t[a].sym \in {"dot", "dots"} /\ Len(t) \in Nat
    BY <1>5 DEF Dotted, IsForest
  <2>3. Closed(stack, sym) = Reduce(stack, "statement", a)
    BY <2>1, <2>2 DEF Closed
  <2>4. a <= Len(t) /\ t[Len(t)].sym \in {"dot", "dots"}
    BY <2>2
  <2>5. Between(v, Len(v) + 1)
    BY <1>1, <1>2, <2>2, <2>4, ReduceSettles
  <2>6. QED
    BY <1>1, <1>2, <2>3, <2>5 DEF Finished, Ready
<1>6. CASE Lettered(t, a)
  <2>1. Top(t) = a /\ ~InStatement(UnderTop(t))
    BY <1>6, TopIsRest
  <2>2. Settled(t, a) /\ a <= Len(t) /\ t[a].sym \in {"id", "list"}
    BY <1>6 DEF Lettered, Letters
  <2>3. CASE sym = "end"
    <3>1. Closed(stack, sym) = Reduce(stack, "statement", a)
      <4>1. ~(t[a].sym \in {"dot", "dots"})
        BY <2>2
      <4>2. QED
        BY <2>1, <2>2, <2>3, <4>1 DEF Closed
    <3>2. Hangs(v, a)
      BY <1>1, <1>2, <2>2, ReduceSettles
    <3>3. QED
      BY <1>1, <1>2, <2>3, <3>1, <3>2 DEF Finished
  <2>4. CASE sym # "end"
    <3>1. Closed(stack, sym) = stack
      <4>1. ~(t[a].sym \in {"dot", "dots"})
        BY <2>2
      <4>2. QED
        BY <2>1, <2>2, <2>4, <4>1 DEF Closed
    <3>2. QED
      BY <1>6, <2>4, <3>1 DEF Ready
  <2>5. QED
    BY <2>3, <2>4
<1>7. CASE Followed(t, a)
  <2>1. Top(t) = Len(t) /\ InStatement(UnderTop(t)) /\ Top(UnderTop(t)) = a
    BY <1>7, FollowedTop
  <2>2. Settled(t, a) /\ a < Len(t) /\ t[Len(t)].sym \in {"dot", "dots"}
    BY <1>7 DEF Followed, Listable
  <2>3. Closed(stack, sym) = Reduce(stack, "statement", a)
    BY <2>1, <2>2 DEF Closed
  <2>4. a <= Len(t)
    <3>1. Len(t) \in Nat /\ a \in Nat
      BY <2>2, SettledIs
    <3>2. QED
      BY <2>2, <3>1
  <2>5. Between(v, Len(v) + 1)
    BY <1>1, <1>2, <2>2, <2>4, ReduceSettles
  <2>6. QED
    BY <1>1, <1>2, <2>3, <2>5 DEF Finished, Ready
<1>8. QED
  BY <1>3, <1>4, <1>5, <1>6, <1>7 DEF Shape, Ready

(* The reductions due before a token leave statements, and letters at most; *)
(* before the end, statements.                                             *)
LEMMA ReducedShape ==
  ASSUME NEW string, IsText(string), NEW stack, NEW t, t = stack.nodes, NEW e, MadeTo(string, t, e),
         NEW a, Shape(t, a) \/ Hangs(t, a), NEW sym
  PROVE  /\ sym = "end" => \E b : Finished(Reduced(stack, sym).nodes, b)
         /\ sym # "end" /\ Shape(t, a) => \E b : Ready(Reduced(stack, sym).nodes, b)
<1>1. IsForest(t) /\ Firm(t)
  BY MadeIs
<1>2. CASE t = <<>>
  <2>1. Reduced(stack, sym) = stack
    BY <1>2 DEF Reduced
  <2>2. Len(t) = 0
    BY <1>2
  <2>3. Between(t, a)
    <3>1. CASE Shape(t, a)
      <4>1. CASE Followed(t, a)
        <5>1. Settled(t, a) /\ a < Len(t)
          BY <4>1 DEF Followed
        <5>2. a \in Nat
          BY <1>1, <5>1, SettledIs
        <5>3. QED
          BY <2>2, <5>1, <5>2
      <4>2. CASE Lettered(t, a) \/ Dotted(t, a)
        BY <1>1, <1>2, <4>2, TopIsRest
      <4>3. QED
        BY <3>1, <4>1, <4>2 DEF Shape, Ready
    <3>2. CASE Hangs(t, a)
      BY <1>1, <1>2, <3>2, TopIsRest
    <3>3. QED
      BY <3>1, <3>2
  <2>4. QED
    BY <2>1, <2>3 DEF Finished, Ready
<1>3. CASE t # <<>>
  <2>1. PICK s : s = Listed(stack)
    OBVIOUS
  <2>2. PICK u : u = s.nodes
    OBVIOUS
  <2>3. IsForest(u) /\ Firm(u) /\ u # <<>>
    <3>1. MadeTo(string, u, e) /\ u # <<>>
      BY <1>3, <2>1, <2>2, ListedMade
    <3>2. QED
      BY <3>1, MadeIs
  <2>4. \/ Listed(stack) = stack /\ ~Listable(t, a)
        \/ Lettered(Listed(stack).nodes, a)
    BY <1>1, <1>3, ListedShape
  <2>5. /\ Shape(u, a) \/ Hangs(u, a)
        /\ ~Listable(u, a)
        /\ Shape(t, a) => Shape(u, a)
    <3>1. CASE Listed(stack) = stack /\ ~Listable(t, a)
      BY <2>1, <2>2, <3>1
    <3>2. CASE Lettered(Listed(stack).nodes, a)
      <4>1. Lettered(u, a)
        BY <2>1, <2>2, <3>2
      <4>2. ~Followed(u, a)
        <5>1. Beyond(u, a) = Len(u) + 1 /\ Len(u) \in Nat
          BY <2>3, <4>1 DEF Lettered, IsForest
        <5>2. QED
          BY <5>1 DEF Followed
      <4>3. QED
        BY <4>1, <4>2 DEF Shape, Ready, Listable
    <3>3. QED
      BY <2>4, <3>1, <3>2
  <2>6. /\ sym = "end" => \E b : Finished(Closed(s, sym).nodes, b)
        /\ sym # "end" /\ Shape(u, a) => \E b : Ready(Closed(s, sym).nodes, b)
    BY <2>2, <2>3, <2>5, ClosedShape
  <2>7. Reduced(stack, sym) = Closed(s, sym)
    BY <1>3, <2>1 DEF Reduced
  <2>8. QED
    BY <2>5, <2>6, <2>7
<1>4. QED
  BY <1>2, <1>3

(* Between statements, nothing but statements is on the stack.             *)
LEMMA ReadyBetween ==
  ASSUME NEW t, IsForest(t), Firm(t), NEW a, Ready(t, a), ~InStatement(t)
  PROVE  Between(t, a)
<1>1. ASSUME Lettered(t, a)
      PROVE  FALSE
  <2>1. t # <<>> /\ Top(t) = a
    BY <1>1, TopIsRest
  <2>2. t[a].sym \in {"id", "list"}
    BY <1>1 DEF Lettered, Letters
  <2>3. QED
    BY <2>1, <2>2 DEF InStatement
<1>2. QED
  BY <1>1 DEF Ready

(* What is shifted follows the statements, or one token the letters.       *)
IsShift(t, a, u, v) ==
  /\ IsForest(t) /\ Firm(t) /\ Ready(t, a)
  /\ IsTree(u) /\ Firm(u) /\ (Leaf(u[1]) \/ ~InStatement(t))
  /\ v = t \o u

(* What is pushed upon a stack of the parser gives it a shape of the       *)
(* parser again, or is a statement that only the end of the old text       *)
(* closed.                                                                 *)
LEMMA PushShape ==
  ASSUME NEW t, NEW a, NEW u, NEW v, IsShift(t, a, u, v)
  PROVE  \/ \E b : Shape(v, b)
         \/ u[1].sym = "statement" /\ ~Closes(u, 1) /\ Hangs(v, Len(t) + 1)
<1>0. /\ IsForest(t) /\ Firm(t) /\ Ready(t, a) /\ IsForest(u)
      /\ IsTree(u) /\ Firm(u) /\ (Leaf(u[1]) \/ ~InStatement(t))
      /\ v = t \o u
  BY DEF IsShift, IsTree
<1>1. PICK n \in Nat : n = Len(t)
  BY <1>0 DEF IsForest
<1>2. PICK m \in Nat \ {0} : m = Len(u) /\ 1 \in DOMAIN u
  BY <1>0, EndOfTree
<1>3. IsForest(v) /\ Len(v) = n + m
  BY <1>0, <1>1, <1>2, ConcatIsForest
<1>4. \A k \in 1 .. n : v[k] = t[k] /\ Beyond(v, k) = Beyond(t, k)
  BY <1>0, <1>1, ConcatIsForest
<1>5. \A k \in 1 .. m : v[n + k] = u[k] /\ Beyond(v, n + k) = n + Beyond(u, k)
  <2>1. \A k \in 1 .. Len(u) : /\ (t \o u)[Len(t) + k] = u[k]
                               /\ Beyond(t \o u, Len(t) + k) = Len(t) + Beyond(u, k)
    BY <1>0, ConcatIsForest
  <2>2. QED
    BY <1>0, <1>1, <1>2, <2>1
<1>6. v[n + 1] = u[1] /\ Beyond(v, n + 1) = n + m + 1 /\ v[n + m] = u[m]
  <2>1. 1 \in 1 .. m /\ m \in 1 .. m
    BY <1>2
  <2>2. Beyond(u, 1) = m + 1
    BY <1>0, <1>2 DEF IsTree
  <2>3. Beyond(v, n + 1) = n + (m + 1)
    BY <1>5, <2>1, <2>2
  <2>4. QED
    BY <1>1, <1>2, <1>5, <2>1, <2>3
<1>7. Settled(t, a) /\ a \in 1 .. n + 1
  <2>1. Settled(t, a)
    BY <1>0 DEF Ready, Between, Lettered
  <2>2. QED
    BY <1>0, <1>1, <2>1, SettledIs
<1>8. Settled(v, a)
  <2>1. a <= Len(v) + 1 /\ \A k \in 1 .. a - 1 : k \in 1 .. n
    BY <1>1, <1>2, <1>3, <1>7
  <2>2. \A k \in 1 .. a - 1 : v[k] = t[k]
    BY <1>4, <2>1
  <2>3. QED
    BY <1>0, <1>3, <1>7, <2>1, <2>2, SettledKept
<1>9. u[1].sym \notin {"end", "program"} /\ Formed(u, 1)
  BY <1>0, <1>2 DEF Firm
<1>10. CASE Between(t, a)
  <2>1. a = n + 1
    BY <1>1, <1>10 DEF Between
  <2>2. v[a] = u[1] /\ Beyond(v, a) = Len(v) + 1 /\ a <= Len(v)
    BY <1>1, <1>2, <1>3, <1>6, <2>1
  <2>3. CASE u[1].sym \in {"id", "list"}
    <3>1. Lettered(v, a)
      BY <1>8, <2>2, <2>3 DEF Lettered, Letters
    <3>2. QED
      BY <3>1 DEF Shape, Ready
  <2>4. CASE u[1].sym \in {"dot", "dots"}
    <3>1. Leaf(u[1])
      BY <1>9, <2>4 DEF Formed
    <3>2. m = 1
      BY <1>0, <1>2, <3>1 DEF IsTree, Leaf, Beyond
    <3>3. a = Len(v)
      BY <1>1, <1>3, <2>1, <3>2
    <3>4. Dotted(v, a)
      BY <1>8, <2>2, <2>4, <3>3 DEF Dotted
    <3>5. QED
      BY <3>4 DEF Shape
  <2>5. CASE u[1].sym = "statement"
    <3>1. Hangs(v, a)
      BY <1>8, <2>2, <2>5 DEF Hangs
    <3>2. CASE Closes(u, 1)
      <4>1. u[m].sym \in {"dot", "dots"}
        <5>1. Beyond(u, 1) - 1 = m
          BY <1>0, <1>2 DEF IsTree
        <5>2. QED
          BY <3>2, <5>1 DEF Closes
      <4>2. Beyond(v, a) - 1 = n + m
        BY <1>1, <1>2, <1>3, <2>2
      <4>3. Closes(v, a)
        BY <1>6, <2>2, <2>5, <4>1, <4>2 DEF Closes
      <4>4. Between(v, Len(v) + 1)
        BY <1>3, <1>8, <2>2, <4>3, SettledGrows
      <4>5. QED
        BY <4>4 DEF Shape, Ready
    <3>3. QED
      BY <1>1, <2>1, <2>5, <3>1, <3>2
  <2>6. u[1].sym \in {"id", "list", "dot", "dots", "statement"}
    BY <1>9 DEF Formed
  <2>7. QED
    BY <2>3, <2>4, <2>5, <2>6
<1>11. CASE Lettered(t, a)
  <2>1. a \in 1 .. n /\ Letters(t[a]) /\ Beyond(t, a) = n + 1
    <3>1. a <= n /\ Letters(t[a]) /\ Beyond(t, a) = n + 1
      BY <1>1, <1>11 DEF Lettered
    <3>2. QED
      BY <1>7, <3>1
  <2>2. t # <<>> /\ Top(t) = a
    BY <1>0, <1>11, TopIsRest
  <2>3. InStatement(t)
    BY <2>1, <2>2 DEF InStatement, Letters
  <2>4. Leaf(u[1])
    BY <1>0, <2>3
  <2>5. m = 1
    BY <1>0, <1>2, <2>4 DEF IsTree, Leaf, Beyond
  <2>6. u[1].sym \in {"id", "dot", "dots"}
    BY <1>9, <2>4 DEF Formed
  <2>7. /\ a < Len(v) /\ Letters(v[a]) /\ Beyond(v, a) = Len(v)
        /\ v[Len(v)].sym \in {"id", "dot", "dots"}
    <3>1. Len(v) = n + 1
      BY <1>3, <2>5
    <3>2. v[a] = t[a] /\ Beyond(v, a) = Beyond(t, a)
      BY <1>4, <2>1
    <3>3. a < Len(v) /\ Letters(v[a]) /\ Beyond(v, a) = Len(v)
      BY <2>1, <3>1, <3>2
    <3>4. v[Len(v)] = u[1]
      BY <1>6, <3>1
    <3>5. QED
      BY <2>6, <3>3, <3>4
  <2>8. Followed(v, a)
    BY <1>8, <2>7 DEF Followed
  <2>9. QED
    BY <2>8 DEF Shape
<1>12. QED
  BY <1>0, <1>10, <1>11 DEF Ready

(* The last tree of a stack without its root.                              *)
IsOpened(t, b, v) ==
  /\ IsForest(t) /\ b \in 1 .. Len(t) /\ IsCut(t, b) /\ Beyond(t, b) = Len(t) + 1
  /\ v = SubSeq(t, 1, b - 1) \o SubSeq(t, b + 1, Len(t))

(* A stack whose last tree is opened: the node is gone, its children stay. *)
LEMMA OpenedIs ==
  ASSUME NEW t, NEW b, NEW v, IsOpened(t, b, v)
  PROVE  /\ IsForest(v) /\ Len(t) \in Nat /\ Len(v) = Len(t) - 1
         /\ \A k \in 1 .. b - 1 : v[k] = t[k]
         /\ \A k \in b .. Len(t) - 1 : v[k] = t[k + 1] /\ Beyond(v, k) = Beyond(t, k + 1) - 1
<1>0. /\ IsForest(t) /\ b \in 1 .. Len(t) /\ IsCut(t, b) /\ Beyond(t, b) = Len(t) + 1
      /\ v = SubSeq(t, 1, b - 1) \o SubSeq(t, b + 1, Len(t))
  BY DEF IsOpened
<1>1. PICK N \in Nat : N = Len(t) /\ b \in 1 .. N /\ DOMAIN t = 1 .. N
  BY <1>0 DEF IsForest
<1>2. PICK u : u = SubSeq(t, 1, b - 1)
  OBVIOUS
<1>3. IsForest(u) /\ Len(u) = b - 1
  BY <1>0, <1>2, CutsInTwo
<1>4. \A k \in 1 .. b - 1 : u[k] = t[k]
  BY <1>0, <1>2, CutsInTwo
<1>5. PICK w : w = SubSeq(t, b + 1, Len(t))
  OBVIOUS
<1>6. w = Inner(t, b)
  <2>1. Beyond(t, b) - 1 = Len(t)
    BY <1>0, <1>1
  <2>2. QED
    BY <1>5, <2>1 DEF Inner
<1>7. IsForest(w) /\ Len(w) = N - b
  <2>1. IsForest(Inner(t, b)) /\ Len(Inner(t, b)) = Beyond(t, b) - 1 - b
    BY <1>0, <1>1, InnerIs
  <2>2. Beyond(t, b) - 1 - b = N - b
    BY <1>0, <1>1
  <2>3. QED
    BY <1>6, <2>1, <2>2
<1>8. \A k \in 1 .. N - b : w[k] = t[b + k] /\ Beyond(w, k) = Beyond(t, b + k) - b
  <2>1. \A k \in 1 .. Beyond(t, b) - 1 - b : /\ Inner(t, b)[k] = t[b + k]
                                             /\ Beyond(Inner(t, b), k) = Beyond(t, b + k) - b
    BY <1>0, <1>1, InnerIs
  <2>2. Beyond(t, b) - 1 - b = N - b
    BY <1>0, <1>1
  <2>3. QED
    BY <1>6, <2>1, <2>2
<1>9. IsForest(u) /\ IsForest(w) /\ v = u \o w
  BY <1>0, <1>2, <1>3, <1>5, <1>7
<1>10. IsForest(v) /\ Len(v) = N - 1
  <2>1. IsForest(u \o w) /\ Len(u \o w) = Len(u) + Len(w)
    BY <1>9, ConcatIsForest
  <2>2. (b - 1) + (N - b) = N - 1
    BY <1>1
  <2>3. QED
    BY <1>3, <1>7, <1>9, <2>1, <2>2
<1>11. \A k \in 1 .. b - 1 : v[k] = t[k]
  <2>1. \A k \in 1 .. Len(u) : (u \o w)[k] = u[k]
    BY <1>9, ConcatIsForest
  <2>2. QED
    BY <1>3, <1>4, <1>9, <2>1
<1>12. ASSUME NEW k \in b .. N - 1
       PROVE  v[k] = t[k + 1] /\ Beyond(v, k) = Beyond(t, k + 1) - 1
  <2>1. PICK c \in 1 .. N - b : c = k - (b - 1)
    BY <1>1
  <2>2. c \in 1 .. Len(w) /\ Len(u) + c = k /\ b + c = k + 1
    BY <1>1, <1>3, <1>7, <2>1
  <2>3. \A i \in 1 .. Len(w) : /\ (u \o w)[Len(u) + i] = w[i]
                               /\ Beyond(u \o w, Len(u) + i) = Len(u) + Beyond(w, i)
    BY <1>9, ConcatIsForest
  <2>4. v[k] = w[c] /\ Beyond(v, k) = (b - 1) + Beyond(w, c)
    BY <1>3, <1>9, <2>2, <2>3
  <2>5. w[c] = t[k + 1] /\ Beyond(w, c) = Beyond(t, k + 1) - b
    BY <1>8, <2>1, <2>2
  <2>6. Beyond(t, k + 1) \in Nat
    <3>1. k + 1 \in DOMAIN t
      BY <1>1
    <3>2. Beyond(t, k + 1) \in k + 1 + 1 .. Len(t) + 1
      BY <1>0, <3>1, NodeFacts
    <3>3. QED
      BY <1>1, <3>2
  <2>7. QED
    BY <1>1, <2>4, <2>5, <2>6
<1>13. QED
  BY <1>1, <1>10, <1>11, <1>12

(* The last tree of settled ones gives way to its children.                *)
LEMMA OpenedShape ==
  ASSUME NEW t, NEW b, NEW v, IsOpened(t, b, v), Firm(t), Settled(t, b)
  PROVE  \E c : Shape(v, c)
<1>0. IsForest(t) /\ b \in 1 .. Len(t) /\ Beyond(t, b) = Len(t) + 1
  BY DEF IsOpened
<1>1. PICK N \in Nat : N = Len(t) /\ b \in 1 .. N /\ DOMAIN t = 1 .. N /\ Beyond(t, b) = N + 1
  BY <1>0 DEF IsForest
<1>2. IsForest(v) /\ Len(v) = N - 1 /\ \A k \in 1 .. b - 1 : v[k] = t[k]
  BY <1>1, OpenedIs
<1>3. \A k \in b .. N - 1 : v[k] = t[k + 1] /\ Beyond(v, k) = Beyond(t, k + 1) - 1
  BY <1>1, OpenedIs
<1>4. Settled(v, b)
  <2>1. b <= Len(v) + 1
    BY <1>1, <1>2
  <2>2. QED
    BY <1>0, <1>2, <2>1, SettledKept
<1>5. \A k \in 1 .. N : Beyond(t, k) \in k + 1 .. N + 1
  BY <1>0, <1>1, SettledIs
<1>6. CASE Leaf(t[b])
  <2>1. b = N
    BY <1>1, <1>6 DEF Beyond, Leaf
  <2>2. b = Len(v) + 1
    BY <1>1, <1>2, <2>1
  <2>3. Shape(v, b)
    BY <1>4, <2>2 DEF Shape, Ready, Between
  <2>4. QED
    BY <2>3
<1>7. CASE ~Leaf(t[b])
  <2>1. Formed(t, b) /\ t[b].sym # "program"
    BY <1>1 DEF Firm
  <2>2. b < N
    <3>1. t[b].node_count \in Nat \ {0}
      BY <1>0, <1>1, NodeFacts
    <3>2. QED
      BY <1>1, <1>7, <3>1 DEF Beyond, Leaf
  <2>3. v[b] = t[b + 1] /\ Beyond(v, b) = Beyond(t, b + 1) - 1
    BY <1>1, <1>3, <2>2
  <2>4. v[N - 1] = t[N]
    <3>1. N - 1 \in b .. N - 1 /\ (N - 1) + 1 = N
      BY <1>1, <2>2
    <3>2. QED
      BY <1>3, <3>1
  <2>5. PICK B \in Nat : B = Beyond(t, b + 1) /\ b + 1 < B /\ B <= N + 1
    <3>1. b + 1 \in 1 .. N
      BY <1>1, <2>2
    <3>2. Beyond(t, b + 1) \in (b + 1) + 1 .. N + 1
      BY <1>5, <3>1
    <3>3. QED
      BY <1>1, <3>2
  <2>6. CASE Letters(t[b + 1]) /\ B = N /\ t[N].sym \in {"id", "dot", "dots"}
    <3>1. b < N - 1 /\ B - 1 = N - 1
      BY <1>1, <2>5, <2>6
    <3>2. /\ b < Len(v) /\ Letters(v[b]) /\ Beyond(v, b) = Len(v)
          /\ v[Len(v)].sym \in {"id", "dot", "dots"}
      BY <1>2, <2>3, <2>4, <2>5, <2>6, <3>1
    <3>3. Followed(v, b)
      BY <1>4, <3>2 DEF Followed
    <3>4. QED
      BY <3>3 DEF Shape
  <2>7. CASE B = N + 1 /\ t[b + 1].sym \in {"id", "list"}
    <3>1. b <= Len(v) /\ Beyond(v, b) = Len(v) + 1
      BY <1>1, <1>2, <2>2, <2>3, <2>5, <2>7
    <3>2. Letters(v[b])
      BY <2>3, <2>7 DEF Letters
    <3>3. Lettered(v, b)
      BY <1>4, <3>1, <3>2 DEF Lettered
    <3>4. QED
      BY <3>3 DEF Shape, Ready
  <2>8. CASE B = N + 1 /\ t[b + 1].sym \in {"dot", "dots"}
    <3>1. b + 1 \in DOMAIN t
      BY <1>1, <2>2
    <3>2. Formed(t, b + 1)
      BY <3>1 DEF Firm
    <3>3. Leaf(t[b + 1])
      BY <2>8, <3>2 DEF Formed
    <3>4. b = Len(v)
      <4>1. Beyond(t, b + 1) = b + 1 + 1
        BY <3>3 DEF Beyond, Leaf
      <4>2. b + 1 + 1 = N + 1
        BY <2>5, <2>8, <4>1
      <4>3. QED
        BY <1>1, <1>2, <4>2
    <3>5. v[b].sym \in {"dot", "dots"}
      BY <2>3, <2>8
    <3>6. Dotted(v, b)
      BY <1>4, <3>4, <3>5 DEF Dotted
    <3>7. QED
      BY <3>6 DEF Shape
  <2>9. QED
    <3>1. Beyond(t, b) = N + 1 /\ N + 1 - 1 = N
      BY <1>1
    <3>2. \/ Letters(t[b + 1]) /\ B = N /\ t[N].sym \in {"id", "dot", "dots"}
          \/ B = N + 1 /\ t[b + 1].sym \in {"id", "list", "dot", "dots"}
      <4>1. \/ Letters(t[b + 1]) /\ Beyond(t, b + 1) = N + 1 - 1 /\ t[N + 1 - 1].sym = "id"
            \/ Beyond(t, b + 1) = N + 1 /\ t[b + 1].sym \in {"id", "list", "dot", "dots"}
            \/ Letters(t[b + 1]) /\ Beyond(t, b + 1) = N + 1 - 1 /\ t[N + 1 - 1].sym \in {"dot", "dots"}
        BY <1>7, <2>1, <3>1 DEF Formed
      <4>2. QED
        BY <2>5, <3>1, <4>1
    <3>3. QED
      BY <2>6, <2>7, <2>8, <3>2
<1>8. QED
  BY <1>6, <1>7

(* A pending top broken down leaves statements and what follows them.      *)
LEMMA BreakDownShape ==
  ASSUME NEW stack, NEW t, t = stack.nodes, IsForest(t), Firm(t), NEW a,
         Shape(t, a) \/ (Hangs(t, a) /\ a \in stack.pending)
  PROVE  \E c : Shape(BreakDown(stack).nodes, c)
<1>1. CASE BreakDown(stack) = stack
  <2>1. CASE Shape(t, a)
    BY <1>1, <2>1
  <2>2. CASE Hangs(t, a) /\ a \in stack.pending
    <3>1. t # <<>> /\ Top(t) = a
      BY <2>2, TopIsRest
    <3>2. BreakDown(stack).nodes = SubSeq(t, 1, a - 1) \o SubSeq(t, a + 1, Len(t))
      BY <2>2, <3>1 DEF BreakDown
    <3>3. PICK v : v = BreakDown(stack).nodes
      OBVIOUS
    <3>4. a \in 1 .. Len(t) /\ Settled(t, a) /\ IsCut(t, a) /\ Beyond(t, a) = Len(t) + 1
      <4>1. Settled(t, a) /\ a <= Len(t) /\ Beyond(t, a) = Len(t) + 1
        BY <2>2 DEF Hangs
      <4>2. Len(t) \in Nat /\ a \in 1 .. Len(t) + 1
        BY <4>1, SettledIs
      <4>3. QED
        BY <4>1, <4>2 DEF Settled
    <3>5. IsOpened(t, a, v)
      BY <3>2, <3>3, <3>4 DEF IsOpened
    <3>6. QED
      BY <3>3, <3>4, <3>5, OpenedShape
  <2>3. QED
    BY <2>1, <2>2
<1>2. CASE BreakDown(stack) # stack
  <2>1. PICK b : b = Top(t)
    OBVIOUS
  <2>2. t # <<>> /\ BreakDown(stack).nodes = SubSeq(t, 1, b - 1) \o SubSeq(t, b + 1, Len(t))
    BY <1>2, <2>1 DEF BreakDown
  <2>3. PICK v : v = BreakDown(stack).nodes
    OBVIOUS
  <2>4. b \in 1 .. Len(t) /\ IsCut(t, b) /\ Beyond(t, b) = Len(t) + 1
    BY <2>1, <2>2, TopIs, TopIsCut
  <2>5. IsOpened(t, b, v)
    BY <2>2, <2>3, <2>4 DEF IsOpened
  <2>6. PICK N \in Nat : N = Len(t) /\ DOMAIN t = 1 .. N /\ b \in 1 .. N
    BY <2>4 DEF IsForest
  <2>7. CASE Followed(t, a)
    <3>1. /\ Settled(t, a) /\ a < N /\ Letters(t[a]) /\ Beyond(t, a) = N
          /\ t[N].sym \in {"id", "dot", "dots"}
      BY <2>6, <2>7 DEF Followed
    <3>2. b = N
      BY <2>1, <2>6, <2>7, FollowedTop
    <3>3. a \in 1 .. N - 1
      <4>1. a \in 1 .. Len(t) + 1
        BY <3>1, SettledIs
      <4>2. QED
        BY <2>6, <3>1, <4>1
    <3>4. IsForest(v) /\ Len(v) = N - 1 /\ \A k \in 1 .. b - 1 : v[k] = t[k]
      BY <2>5, <2>6, OpenedIs
    <3>5. v[a] = t[a] /\ Beyond(v, a) = Beyond(t, a)
      BY <3>2, <3>3, <3>4 DEF Beyond
    <3>6. Settled(v, a)
      <4>1. a <= Len(v) + 1 /\ \A k \in 1 .. a - 1 : k \in 1 .. b - 1
        BY <2>6, <3>2, <3>3, <3>4
      <4>2. \A k \in 1 .. a - 1 : v[k] = t[k]
        BY <3>4, <4>1
      <4>3. QED
        BY <3>1, <3>4, <4>1, <4>2, SettledKept
    <3>7. a <= Len(v) /\ Letters(v[a]) /\ Beyond(v, a) = Len(v) + 1
      BY <2>6, <3>1, <3>3, <3>4, <3>5
    <3>8. Lettered(v, a)
      BY <3>6, <3>7 DEF Lettered
    <3>9. Shape(v, a)
      BY <3>8 DEF Shape, Ready
    <3>10. QED
      BY <2>3, <3>9
  <2>8. CASE Lettered(t, a) \/ Dotted(t, a) \/ Hangs(t, a)
    <3>1. b = a /\ Settled(t, a)
      BY <2>1, <2>8, TopIsRest DEF Lettered, Dotted, Hangs
    <3>2. \E c : Shape(v, c)
      BY <2>5, <3>1, OpenedShape
    <3>3. QED
      BY <2>3, <3>2
  <2>9. CASE Between(t, a)
    <3>1. Settled(t, a) /\ a = N + 1
      BY <2>6, <2>9 DEF Between
    <3>2. \A i \in 1 .. b - 1 : i \in 1 .. a - 1
      BY <2>6, <3>1
    <3>3. \A i \in 1 .. b - 1 : \E j \in 1 .. i : Closes(t, j) /\ i < Beyond(t, j)
      BY <3>1, <3>2 DEF Settled
    <3>4. Settled(t, b)
      BY <2>4, <3>3 DEF Settled
    <3>5. \E c : Shape(v, c)
      BY <2>5, <3>4, OpenedShape
    <3>6. QED
      BY <2>3, <3>5
  <2>10. QED
    BY <2>7, <2>8, <2>9 DEF Shape, Ready
<1>3. QED
  BY <1>1, <1>2

(* All of them broken down.                                                *)
LEMMA BrokenShape ==
  ASSUME NEW string, IsText(string), NEW stack \in Stacks, NEW e, MadeTo(string, stack.nodes, e), NEW a,
         Shape(stack.nodes, a) \/ (Hangs(stack.nodes, a) /\ a \in stack.pending)
  PROVE  \E c : Shape(ts_parser__breakdown_top_of_stack(stack).nodes, c)
<1>1. PICK n \in Nat : n = Len(stack.nodes)
  BY ForestsAre DEF Stacks, IsForest
<1> DEFINE M == {s \in Stacks : (\E f : MadeTo(string, s.nodes, f)) /\ \E c : Shape(s.nodes, c)}
           A == [k \in 0 .. n |-> IF k = 0 THEN {stack} ELSE M]
<1>2. stack \in A[0]
  OBVIOUS
<1>3. \A x \in M : BreakDown(x) \in M
  <2> TAKE x \in M
  <2>1. PICK f : MadeTo(string, x.nodes, f)
    OBVIOUS
  <2>2. PICK c : Shape(x.nodes, c)
    OBVIOUS
  <2>3. IsForest(x.nodes) /\ Firm(x.nodes)
    BY <2>1, MadeIs
  <2>4. \E d : Shape(BreakDown(x).nodes, d)
    BY <2>2, <2>3, BreakDownShape
  <2>5. \E g : MadeTo(string, BreakDown(x).nodes, g)
    BY <2>1, BreakDownMade
  <2>6. BreakDown(x) \in Stacks
    BY BreakDownIsStack
  <2>7. QED
    BY <2>4, <2>5, <2>6
<1>4. BreakDown(stack) \in M
  <2>1. IsForest(stack.nodes) /\ Firm(stack.nodes)
    BY MadeIs
  <2>2. \E d : Shape(BreakDown(stack).nodes, d)
    BY <2>1, BreakDownShape
  <2>3. \E g : MadeTo(string, BreakDown(stack).nodes, g)
    BY BreakDownMade
  <2>4. BreakDown(stack) \in Stacks
    BY BreakDownIsStack
  <2>5. QED
    BY <2>2, <2>3, <2>4
<1>5. \A k \in 1 .. n : \A x \in A[k - 1] : BreakDown(x) \in A[k]
  <2> HIDE DEF M
  <2> TAKE k \in 1 .. n
  <2>1. A[k] = M
    BY <1>1
  <2>2. CASE k = 1
    <3>1. A[k - 1] = {stack}
      BY <1>1, <2>2
    <3>2. QED
      BY <1>4, <2>1, <3>1
  <2>3. CASE k # 1
    <3>1. A[k - 1] = M
      BY <1>1, <2>3
    <3>2. QED
      BY <1>3, <2>1, <3>1
  <2>4. QED
    BY <2>2, <2>3
<1>6. PICK loop : /\ \A k \in 0 .. n : loop[k] \in A[k]
                  /\ ts_parser__breakdown_top_of_stack(stack) = loop[n]
  <2> HIDE DEF A
  <2>1. QED
    BY <1>1, <1>2, <1>5, BreakDownTurns
<1>7. loop[n] \in A[n]
  <2>1. n \in 0 .. n
    BY <1>1
  <2> HIDE DEF A
  <2> QED BY <1>6, <2>1
<1>8. CASE n = 0
  <2>1. A[n] = {stack}
    BY <1>8
  <2>2. loop[n] = stack
    BY <1>7, <2>1
  <2>3. stack.nodes = <<>>
    BY <1>1, <1>8, EmptySeq, MadeIs DEF IsForest
  <2>4. ~Hangs(stack.nodes, a)
    <3>1. IsForest(stack.nodes) /\ Firm(stack.nodes)
      BY MadeIs
    <3>2. QED
      BY <2>3, <3>1, TopIsRest
  <2>5. QED
    BY <1>6, <2>2, <2>4
<1>9. CASE n # 0
  <2>1. loop[n] \in M
    <3>1. n \in 0 .. n
      BY <1>1
    <3> HIDE DEF M
    <3>2. A[n] = M
      BY <1>9, <3>1
    <3>3. QED
      BY <1>7, <3>2
  <2>2. \E c : Shape(loop[n].nodes, c)
    BY <2>1
  <2>3. QED
    BY <1>6, <2>2
<1>10. QED
  BY <1>8, <1>9

(***************************************************************************)
(* A whole tree: the children of the root are statements that dots close,  *)
(* the last one perhaps closed by the end of the text, and the end.        *)
(***************************************************************************)
Canonical(t) ==
  \A i \in 2 .. Len(t) - 1 : \E j \in 2 .. i :
     i < Beyond(t, j) /\ (Closes(t, j) \/ (t[j].sym = "statement" /\ Beyond(t, j) = Len(t)))

(* The root over a stack and the end of the text.                          *)
IsRoot(t, n, w) ==
  /\ IsForest(t) /\ n \in TreeNode /\ Leaf(n)
  /\ w = Node("program", t \o <<n>>)

(* The nodes of the stack follow the root.                                 *)
LEMMA RootIs ==
  ASSUME NEW t, NEW n, NEW w, IsRoot(t, n, w)
  PROVE  /\ Len(t) \in Nat /\ Len(w) = Len(t) + 2
         /\ \A k \in 1 .. Len(t) : w[k + 1] = t[k] /\ Beyond(w, k + 1) = Beyond(t, k) + 1
<1>0. IsForest(t) /\ n \in TreeNode /\ Leaf(n) /\ w = Node("program", t \o <<n>>)
  BY DEF IsRoot
<1>1. PICK u : u = <<n>>
  OBVIOUS
<1>2. IsForest(u) /\ Len(u) = 1
  BY <1>0, <1>1, LeafIsTree
<1>3. PICK v : v = t \o u
  OBVIOUS
<1>4. PICK N \in Nat : N = Len(t)
  BY <1>0 DEF IsForest
<1>5. IsForest(v) /\ Len(v) = N + 1
  <2>1. IsForest(t \o u) /\ Len(t \o u) = Len(t) + Len(u)
    BY <1>0, <1>2, ConcatIsForest
  <2>2. QED
    BY <1>2, <1>3, <1>4, <2>1
<1>6. \A k \in 1 .. N : v[k] = t[k] /\ Beyond(v, k) = Beyond(t, k)
  BY <1>0, <1>2, <1>3, <1>4, ConcatIsForest
<1>7. v # <<>>
  BY <1>4, <1>5, EmptySeq
<1>8. PICK sym \in Symbols : sym = "program"
  BY DEF Symbols
<1>9. w = Node(sym, v)
  BY <1>0, <1>1, <1>3, <1>8
<1>10. IsAbove(w, sym, v)
  BY <1>5, <1>7, <1>9, NodeIsAbove
<1>11. Len(w) = N + 2
  <2>1. Len(w) = Len(v) + 1
    BY <1>10 DEF IsAbove
  <2>2. QED
    BY <1>4, <1>5, <2>1
<1>12. \A k \in 1 .. N : w[k + 1] = v[k] /\ Beyond(w, k + 1) = Beyond(v, k) + 1
  <2>1. \A k \in 1 .. Len(v) : w[k + 1] = v[k] /\ Beyond(w, k + 1) = Beyond(v, k) + 1
    BY <1>10 DEF IsAbove
  <2>2. \A k \in 1 .. N : k \in 1 .. Len(v)
    BY <1>4, <1>5
  <2>3. QED
    BY <2>1, <2>2
<1>13. QED
  BY <1>4, <1>6, <1>11, <1>12

(* The tree that is accepted.                                              *)
LEMMA AcceptCanonical ==
  ASSUME NEW t, NEW n, NEW w, IsRoot(t, n, w), NEW b, Finished(t, b)
  PROVE  Canonical(w)
<1>0. IsForest(t)
  BY DEF IsRoot
<1>1. PICK N \in Nat : N = Len(t) /\ Len(w) = N + 2
  BY RootIs
<1>2. \A k \in 1 .. N : w[k + 1] = t[k] /\ Beyond(w, k + 1) = Beyond(t, k) + 1
  BY <1>1, RootIs
<1>3. Settled(t, b) /\ (b = N + 1 \/ Hangs(t, b))
  BY <1>1 DEF Finished, Between, Hangs
<1>4. b \in 1 .. N + 1 /\ \A k \in 1 .. N : Beyond(t, k) \in k + 1 .. N + 1
  BY <1>0, <1>1, <1>3, SettledIs
<1>5. ASSUME NEW k \in 1 .. N
      PROVE  \E j \in 1 .. k : k < Beyond(t, j)
                 /\ (Closes(t, j) \/ (t[j].sym = "statement" /\ Beyond(t, j) = N + 1))
  <2>1. CASE k \in 1 .. b - 1
    BY <1>3, <2>1 DEF Settled
  <2>2. CASE k \notin 1 .. b - 1
    <3>1. Hangs(t, b) /\ b \in 1 .. k
      BY <1>1, <1>3, <1>4, <2>2
    <3>2. t[b].sym = "statement" /\ Beyond(t, b) = N + 1 /\ k < Beyond(t, b)
      BY <1>1, <3>1 DEF Hangs
    <3>3. QED
      BY <3>1, <3>2
  <2>3. QED
    BY <2>1, <2>2
<1>6. ASSUME NEW j \in 1 .. N, Closes(t, j)
      PROVE  Closes(w, j + 1)
  <2>1. PICK e \in 1 .. N : e = Beyond(t, j) - 1
    <3>1. Beyond(t, j) \in j + 1 .. N + 1
      BY <1>4
    <3>2. QED
      BY <1>1, <3>1
  <2>2. Beyond(t, j) = e + 1
    <3>1. Beyond(t, j) \in j + 1 .. N + 1
      BY <1>4
    <3>2. QED
      BY <2>1, <3>1
  <2>3. Beyond(w, j + 1) - 1 = e + 1
    <3>1. Beyond(w, j + 1) = (e + 1) + 1
      BY <1>2, <2>2
    <3>2. QED
      BY <2>1, <3>1
  <2>4. w[e + 1] = t[e] /\ w[j + 1] = t[j]
    BY <1>2
  <2>5. QED
    BY <1>6, <2>1, <2>3, <2>4 DEF Closes
<1>7. ASSUME NEW i \in 2 .. N + 1
      PROVE  \E j \in 2 .. i : i < Beyond(w, j)
               /\ (Closes(w, j) \/ (w[j].sym = "statement" /\ Beyond(w, j) = N + 2))
  <2>1. PICK k \in 1 .. N : k = i - 1
    OBVIOUS
  <2>2. PICK j \in 1 .. k : k < Beyond(t, j)
                 /\ (Closes(t, j) \/ (t[j].sym = "statement" /\ Beyond(t, j) = N + 1))
    BY <1>5
  <2>3. j \in 1 .. N /\ j + 1 \in 2 .. i
    BY <2>1
  <2>4. Beyond(t, j) \in j + 1 .. N + 1
    BY <1>4, <2>3
  <2>5. w[j + 1] = t[j] /\ Beyond(w, j + 1) = Beyond(t, j) + 1
    BY <1>2, <2>3
  <2>6. i < Beyond(w, j + 1)
    BY <2>1, <2>2, <2>4, <2>5
  <2>7. Closes(w, j + 1) \/ (w[j + 1].sym = "statement" /\ Beyond(w, j + 1) = N + 2)
    BY <1>6, <2>2, <2>3, <2>5
  <2>8. QED
    BY <2>3, <2>6, <2>7
<1>8. Len(w) - 1 = N + 1
  BY <1>1
<1>9. QED
  BY <1>1, <1>7, <1>8 DEF Canonical

(* A statement of such a tree dots close, or it is the last one.           *)
LEMMA StatementCloses ==
  ASSUME NEW t, IsForest(t), Ends(t), Canonical(t), NEW b \in 2 .. Len(t) - 1, t[b].sym = "statement"
  PROVE  Closes(t, b) \/ Beyond(t, b) = Len(t)
<1>1. PICK N \in Nat : N = Len(t) /\ DOMAIN t = 1 .. N /\ b \in 2 .. N - 1
  BY DEF IsForest
<1>2. PICK j \in 2 .. b : b < Beyond(t, j)
             /\ (Closes(t, j) \/ (t[j].sym = "statement" /\ Beyond(t, j) = Len(t)))
  BY DEF Canonical
<1>3. ASSUME j < b
      PROVE  FALSE
  <2>1. j \in DOMAIN t /\ b \in 1 .. Len(t)
    BY <1>1
  <2>2. b \in Below(t, j)
    BY <1>2, <1>3, <2>1, BelowIs
  <2>3. t[j].sym # "program"
    BY <1>2 DEF Closes
  <2>4. \A i \in DOMAIN t : Formed(t, i)
    BY DEF Ends
  <2>5. t[b].sym \in {"id", "list", "dot", "dots"}
    BY <2>1, <2>2, <2>3, <2>4, BelowStatements
  <2>6. QED
    BY <2>5
<1>4. j = b
  BY <1>1, <1>3
<1>5. QED
  BY <1>2, <1>4

(***************************************************************************)
(* The stack while a text is parsed.                                       *)
(***************************************************************************)
\* A statement that the end of the old text closed is taken over before that end comes.
Hanging(old, p) ==
  \E a : /\ Hangs(p.stack.nodes, a) /\ a \in p.stack.pending
         /\ p.reusable.i = Len(old) /\ Len(old) > 1
         /\ p.reusable.at = EndOf(p.stack.nodes)

Shaped(p) == \E a : Shape(p.stack.nodes, a)

Shaping(string, old) ==
  {p \in Parsing(string, old) :
     /\ p.root = <<>> => Shaped(p) \/ Hanging(old, p)
     /\ p.root # <<>> => Canonical(p.root)}

(* What ShiftToken does to a shaped stack.                                 *)
LEMMA ShiftTokenShape ==
  ASSUME NEW string, IsText(string), NEW p, NEW n \in Nat, p \in Parsers(n), p.root = <<>>,
         NEW e, MadeTo(string, p.stack.nodes, e), Shaped(p), NEW q, q = ShiftToken(p, Lex(string, e))
  PROVE  /\ q.root = <<>> => Shaped(q)
         /\ q.root # <<>> => Canonical(q.root)
<1>1. PICK token : token = Lex(string, e)
  OBVIOUS
<1>2. PICK ready : ready = Reduced(p.stack, token.sym)
  OBVIOUS
<1>3. MadeTo(string, ready.nodes, e)
  BY <1>2, ReducedMade
<1>4. p = [reusable |-> p.reusable, stack |-> p.stack, root |-> p.root]
  BY DEF Parsers
<1>5. e \in Nat /\ e <= Len(string) /\ e < Width
  <2>1. e \in Nat /\ e <= Len(string)
    BY <1>3, MadeIs
  <2>2. Len(string) \in Nat /\ Len(string) < Width /\ Width \in Nat
    BY CharacterIs, WidthIsPositive DEF IsText
  <2>3. QED
    BY <2>1, <2>2
<1>6. token \in TreeNode /\ Leaf(token) /\ token.sym \in {"id", "dot", "dots", "end"}
  BY <1>1, <1>5, LexMeasures
<1>7. PICK t : t = p.stack.nodes
  OBVIOUS
<1>8. PICK a : Shape(t, a)
  BY <1>7 DEF Shaped
<1>9. PICK sym : sym = token.sym
  OBVIOUS
<1>10. /\ sym = "end" => \E b : Finished(Reduced(p.stack, sym).nodes, b)
       /\ sym # "end" /\ Shape(t, a) => \E b : Ready(Reduced(p.stack, sym).nodes, b)
  <2>1. MadeTo(string, t, e)
    BY <1>7
  <2>2. QED
    BY <1>7, <1>8, <2>1, ReducedShape
<1>11. IsForest(ready.nodes) /\ Firm(ready.nodes)
  BY <1>3, MadeIs
<1>12. CASE token.sym = "end"
  <2>1. q = [p EXCEPT !.root = Accept(ready, <<token>>)]
    BY <1>1, <1>2, <1>12 DEF ShiftToken
  <2>2. q.root = Node("program", ready.nodes \o <<token>>)
    BY <1>4, <2>1 DEF Accept
  <2>3. PICK b : Finished(ready.nodes, b)
    BY <1>2, <1>9, <1>10, <1>12
  <2>4. IsRoot(ready.nodes, token, q.root)
    BY <1>6, <1>11, <2>2 DEF IsRoot
  <2>5. Canonical(q.root)
    BY <2>3, <2>4, AcceptCanonical
  <2>6. Len(q.root) \in Nat \ {0}
    <3>1. Len(ready.nodes) \in Nat /\ Len(q.root) = Len(ready.nodes) + 2
      BY <2>4, RootIs
    <3>2. QED
      BY <3>1
  <2>7. q.root # <<>>
    BY <2>6
  <2>8. QED
    BY <2>5, <2>7
<1>13. CASE token.sym # "end"
  <2>1. q = [p EXCEPT !.stack = ts_stack_push(ready, <<token>>, FALSE)]
    BY <1>1, <1>2, <1>13 DEF ShiftToken
  <2>2. q.stack = ts_stack_push(ready, <<token>>, FALSE) /\ q.root = p.root
    BY <1>4, <2>1
  <2>3. PICK u : u = <<token>>
    OBVIOUS
  <2>4. PICK v : v = q.stack.nodes
    OBVIOUS
  <2>5. v = ready.nodes \o u
    BY <2>2, <2>3, <2>4 DEF ts_stack_push
  <2>6. PICK b : Ready(ready.nodes, b)
    BY <1>2, <1>8, <1>9, <1>10, <1>13
  <2>7. IsTree(u) /\ u[1] = token
    BY <1>6, <2>3, LeafIsTree
  <2>8. Firm(u)
    <3>1. PICK R : R = Single1(token)
      OBVIOUS
    <3>2. IsToken(string, e, token, u, R)
      BY <1>1, <1>5, <2>3, <3>1 DEF IsToken
    <3>3. QED
      BY <1>13, <3>2, TokenSound
  <2>9. IsShift(ready.nodes, b, u, v)
    BY <1>6, <1>11, <2>5, <2>6, <2>7, <2>8 DEF IsShift
  <2>10. \/ \E c : Shape(v, c)
         \/ u[1].sym = "statement" /\ ~Closes(u, 1) /\ Hangs(v, Len(ready.nodes) + 1)
    BY <2>9, PushShape
  <2>11. \E c : Shape(v, c)
    BY <1>6, <2>7, <2>10
  <2>12. QED
    BY <2>2, <2>4, <2>11 DEF Shaped
<1>14. QED
  BY <1>12, <1>13

(* A statement of the old tree that is taken over is one the end closes    *)
(* only when that end is what comes next.                                  *)
IsTaken(string, old, e, t, b, w, u, v) ==
  /\ IsText(string) /\ IsTree(old) /\ Fits(string, old) /\ Canonical(old)
  /\ b \in 2 .. Len(old) - 1
  /\ MadeTo(string, t, e) /\ u = Subtree(old, b) /\ v = t \o u
  /\ u[1].sym = "statement" /\ ~Closes(u, 1)
  /\ w = reusable_node_advance(old, [i |-> b, at |-> e])

(* A statement that no dot closes is taken only where the old text and its *)
(* own tree end.                                                           *)
LEMMA TakenHangs ==
  ASSUME NEW string, NEW old, NEW e, NEW t, NEW b, NEW w, NEW u, NEW v,
         IsTaken(string, old, e, t, b, w, u, v)
  PROVE  w.i = Len(old) /\ w.at = EndOf(v) /\ ~Leaf(u[1])
<1>0. /\ IsText(string) /\ IsTree(old) /\ Fits(string, old) /\ Canonical(old)
      /\ b \in 2 .. Len(old) - 1
      /\ MadeTo(string, t, e) /\ u = Subtree(old, b) /\ v = t \o u
      /\ u[1].sym = "statement" /\ ~Closes(u, 1)
      /\ w = reusable_node_advance(old, [i |-> b, at |-> e])
  BY DEF IsTaken
<1>1. IsForest(old) /\ Ends(old)
  BY <1>0 DEF IsTree, Fits
<1>2. PICK N \in Nat : N = Len(old) /\ DOMAIN old = 1 .. N /\ b \in 2 .. N - 1
  BY <1>0, <1>1 DEF IsForest
<1>3. b \in DOMAIN old
  BY <1>2
<1>4. PICK m \in Nat \ {0} : m = old[b].node_count
  BY <1>1, <1>3, NodeFacts
<1>5. IsTree(u) /\ IsForest(u) /\ Len(u) = m /\ u[1] = old[b]
  BY <1>0, <1>1, <1>3, <1>4, SubtreeIsTree
<1>6. u[m] = old[b + m - 1]
  <2>1. \A k \in 1 .. old[b].node_count : Subtree(old, b)[k] = old[b + k - 1]
    BY <1>1, <1>3, SubtreeIsTree
  <2>2. m \in 1 .. old[b].node_count
    BY <1>4
  <2>3. Subtree(old, b)[m] = old[b + m - 1]
    BY <2>1, <2>2
  <2>4. QED
    BY <1>0, <2>3
<1>7. Beyond(old, b) = b + m /\ Beyond(u, 1) = m + 1
  <2>1. Beyond(u, 1) = m + 1
    BY <1>5 DEF IsTree
  <2>2. QED
    BY <1>4, <2>1 DEF Beyond
<1>8. ~Closes(old, b)
  <2>1. Beyond(old, b) - 1 = b + m - 1 /\ Beyond(u, 1) - 1 = m
    BY <1>2, <1>4, <1>7
  <2>2. QED
    BY <1>0, <1>5, <1>6, <2>1 DEF Closes
<1>9. Beyond(old, b) = N
  <2>1. old[b].sym = "statement"
    BY <1>0, <1>5
  <2>2. QED
    BY <1>0, <1>1, <1>2, <1>8, <2>1, StatementCloses
<1>10. w.i = N /\ w.at = (e + Total(u[1]).b) % Width
  BY <1>0, <1>5, <1>9 DEF reusable_node_advance
<1>11. IsForest(t) /\ EndOf(t) = e /\ e \in Positions
  BY <1>0, MadeIs
<1>12. EndOf(u) = Total(u[1]).b /\ EndOf(u) \in Positions
  BY <1>5, EndOfTree, EndOfTyped
<1>13. EndOf(v) = Plus(e, Total(u[1]).b)
  BY <1>0, <1>5, <1>11, <1>12, EndOfConcat
<1>14. w.at = EndOf(v)
  <2>1. PICK x \in Positions : x = e
    BY <1>11
  <2>2. PICK y \in Positions : y = Total(u[1]).b
    BY <1>12
  <2>3. (x + y) % Width = Plus(x, y)
    BY PlusFacts
  <2>4. QED
    BY <1>10, <1>13, <2>1, <2>2, <2>3
<1>15. ~Leaf(u[1])
  <2>1. Formed(old, b)
    BY <1>1, <1>3 DEF Ends
  <2>2. QED
    BY <1>0, <1>5, <2>1 DEF Formed
<1>16. QED
  BY <1>2, <1>10, <1>14, <1>15

(* What ShiftReused does to a shaped stack.                                *)
LEMMA ShiftReusedShape ==
  ASSUME NEW string, IsText(string), NEW old, IsTree(old), Fits(string, old), Canonical(old),
         NEW p \in Parsers(Len(old)), p.root = <<>>, p.reusable.i <= Len(old),
         Placed(old, p.reusable), ~old[p.reusable.i].changed,
         MadeTo(string, p.stack.nodes, p.reusable.at), Shaped(p) \/ Hanging(old, p),
         NEW q, q = ShiftReused(p, old)
  PROVE  /\ q.root = <<>> => Shaped(q) \/ Hanging(old, q)
         /\ q.root # <<>> => Canonical(q.root)
<1>1. PICK N \in Nat : N = Len(old) /\ N >= 2 /\ DOMAIN old = 1 .. N
  BY FitsIs
<1>2. PICK P : P = Pos(old)
  OBVIOUS
<1>3. IsForest(old) /\ Measured(old, P)
  BY <1>2, FitsIs
<1>4. PICK w : w = p.reusable
  OBVIOUS
<1>5. PICK i \in 2 .. N : i = w.i
  <2>1. w.i \in 2 .. N + 1 /\ w.i <= N
    BY <1>1, <1>4 DEF Parsers, Walks
  <2>2. QED
    BY <1>1, <2>1
<1>6. PICK e : e = w.at /\ e = P[i]
  BY <1>2, <1>4, <1>5 DEF Placed
<1>7. p = [reusable |-> w, stack |-> p.stack, root |-> <<>>] /\ w = [i |-> w.i, at |-> w.at]
  BY <1>4 DEF Parsers, Walks
<1>8. i \in DOMAIN old /\ ~old[i].changed
  BY <1>1, <1>4, <1>5
<1>9. PICK l : l = FirstLeaf(old, i)
  OBVIOUS
<1>10. l \in DOMAIN old /\ Leaf(old[l]) /\ (l = i \/ l \in Below(old, i)) /\ P[l] = P[i]
  BY <1>3, <1>8, <1>9, FirstLeafBelow
<1>11. PICK ready : ready = Reduced(p.stack, old[l].sym)
  OBVIOUS
<1>12. MadeTo(string, ready.nodes, e)
  BY <1>4, <1>6, <1>11, ReducedMade
<1>13. PICK broken : broken = ts_parser__breakdown_lookahead(old, w, InStatement(ready.nodes))
  OBVIOUS
<1>14. PICK b : b = broken.i
  OBVIOUS
<1>15. broken = [i |-> b, at |-> e] /\ (b = i \/ b = l) /\ (InStatement(ready.nodes) => b = l)
  BY <1>5, <1>6, <1>7, <1>9, <1>13, <1>14 DEF ts_parser__breakdown_lookahead
<1>16. b \in 2 .. N /\ l \in 2 .. N /\ (i < N => l < N) /\ (i = N => l = N)
  <2>1. \A j \in Below(old, i) : j \in 1 .. N /\ i < j /\ j < Beyond(old, i)
    BY <1>1, <1>3, <1>8, BelowIs
  <2>2. Ends(old)
    BY DEF Fits
  <2>3. i < N => Beyond(old, i) <= N
    BY <1>1, <1>5, <2>2 DEF Ends
  <2>4. PICK B \in Nat : B = Beyond(old, i) /\ B <= N + 1
    <3>1. Beyond(old, i) \in i + 1 .. Len(old) + 1
      BY <1>3, <1>8, NodeFacts
    <3>2. QED
      BY <1>1, <1>5, <3>1
  <2>5. l = i \/ (l \in 1 .. N /\ i < l /\ l < B)
    BY <1>10, <2>1, <2>4
  <2>6. l \in 2 .. N /\ (i < N => l < N) /\ (i = N => l = N)
    BY <1>1, <1>5, <2>3, <2>4, <2>5
  <2>7. QED
    BY <1>5, <1>15, <2>6
<1>17. PICK u : u = Subtree(old, b)
  OBVIOUS
<1>18. b \in DOMAIN old
  BY <1>1, <1>16
<1>19. IsTree(u) /\ IsForest(u) /\ Len(u) = old[b].node_count /\ u[1] = old[b]
  BY <1>3, <1>17, <1>18, SubtreeIsTree
<1>20. q = IF u[1].sym = "end" THEN [p EXCEPT !.root = Accept(ready, u)]
           ELSE [p EXCEPT !.reusable = reusable_node_advance(old, broken),
                          !.stack = ts_stack_push(ready, u, ~Leaf(u[1]))]
  <2>1. old[FirstLeaf(old, p.reusable.i)].sym = old[l].sym
    BY <1>4, <1>5, <1>9
  <2>2. QED
    BY <1>4, <1>11, <1>13, <1>14, <1>17, <2>1 DEF ShiftReused
<1>21. /\ old[N].sym = "end" /\ Leaf(old[N]) /\ \A k \in DOMAIN old : Formed(old, k)
       /\ \A k \in 2 .. N - 1 : old[k].sym \notin {"end", "program"}
  BY <1>1 DEF Fits, Ends
<1>22. PICK t : t = p.stack.nodes
  OBVIOUS
<1>23. MadeTo(string, t, e) /\ EndOf(t) = e
  BY <1>4, <1>6, <1>22, MadeIs
<1>24. IsForest(ready.nodes) /\ Firm(ready.nodes)
  BY <1>12, MadeIs
<1>25. PICK sym : sym = old[l].sym
  OBVIOUS
<1>26. PICK a : Shape(t, a) \/ Hangs(t, a)
  BY <1>22 DEF Shaped, Hanging
<1>27. /\ sym = "end" => \E c : Finished(Reduced(p.stack, sym).nodes, c)
       /\ sym # "end" /\ Shape(t, a) => \E c : Ready(Reduced(p.stack, sym).nodes, c)
  BY <1>22, <1>23, <1>26, ReducedShape
<1>28. CASE b = N
  <2>1. l = N
    BY <1>1, <1>5, <1>15, <1>16, <1>28
  <2>2. u[1].sym = "end" /\ Leaf(u[1])
    BY <1>19, <1>21, <1>28
  <2>3. PICK c : Finished(ready.nodes, c)
    BY <1>11, <1>21, <1>25, <1>27, <2>1
  <2>4. Len(u) = 1 /\ u \in Seq(TreeNode)
    BY <1>19, <2>2 DEF Leaf, IsForest
  <2>5. u = <<u[1]>> /\ u[1] \in TreeNode
    <3>1. PICK x : x = u[1]
      OBVIOUS
    <3>2. u = <<x>>
      BY <2>4, <3>1
    <3>3. x \in TreeNode
      BY <1>3, <1>18, <1>19, <3>1, NodeFacts
    <3>4. QED
      BY <3>1, <3>2, <3>3
  <2>6. q.root = Node("program", ready.nodes \o <<u[1]>>)
    BY <1>7, <1>20, <2>2, <2>5 DEF Accept
  <2>7. IsRoot(ready.nodes, u[1], q.root)
    BY <1>24, <2>2, <2>5, <2>6 DEF IsRoot
  <2>8. Canonical(q.root)
    BY <2>3, <2>7, AcceptCanonical
  <2>9. Len(q.root) \in Nat \ {0}
    <3>1. Len(ready.nodes) \in Nat /\ Len(q.root) = Len(ready.nodes) + 2
      BY <2>7, RootIs
    <3>2. QED
      BY <3>1
  <2>10. q.root # <<>>
    BY <2>9
  <2>11. QED
    BY <2>8, <2>10
<1>29. CASE b # N
  <2>1. i < N /\ l < N /\ b \in 2 .. N - 1 /\ l \in 2 .. N - 1
    BY <1>1, <1>5, <1>15, <1>16, <1>29
  <2>2. u[1].sym # "end" /\ sym # "end"
    BY <1>19, <1>21, <1>25, <2>1
  <2>3. Shaped(p)
    <3>1. p.reusable.i # Len(old)
      BY <1>1, <1>4, <1>5, <2>1
    <3>2. QED
      BY <3>1 DEF Hanging
  <2>4. PICK d : Shape(t, d)
    BY <1>22, <2>3 DEF Shaped
  <2>5. PICK c : Ready(ready.nodes, c)
    <3>1. sym # "end" /\ Shape(t, d) => \E c : Ready(Reduced(p.stack, sym).nodes, c)
      BY <1>22, <1>23, <2>4, ReducedShape
    <3>2. QED
      BY <1>11, <1>25, <2>2, <2>4, <3>1
  <2>6. /\ q.stack = ts_stack_push(ready, u, ~Leaf(u[1]))
        /\ q.reusable = reusable_node_advance(old, broken) /\ q.root = <<>>
    BY <1>7, <1>20, <2>2
  <2>7. PICK v : v = ready.nodes \o u
    OBVIOUS
  <2>8. v = q.stack.nodes
    BY <2>6, <2>7 DEF ts_stack_push
  <2>9. Firm(u)
    <3>1. PICK R : R = Moved(P, b - 1, Len(u))
      OBVIOUS
    <3>2. ~old[b].changed
      <4>1. Intact(string, old, P, i)
        BY <1>2, <1>8 DEF Fits
      <4>2. QED
        BY <1>8, <1>10, <1>15, <4>1 DEF Intact
    <3>3. IsReuse(string, old, P, b, u, R)
      BY <1>1, <1>2, <1>17, <2>1, <3>1, <3>2 DEF IsReuse
    <3>4. QED
      BY <3>3, ReuseSound
  <2>10. Leaf(u[1]) \/ ~InStatement(ready.nodes)
    BY <1>10, <1>15, <1>19
  <2>11. IsShift(ready.nodes, c, u, v)
    BY <1>19, <1>24, <2>5, <2>7, <2>9, <2>10 DEF IsShift
  <2>12. \/ \E x : Shape(v, x)
         \/ u[1].sym = "statement" /\ ~Closes(u, 1) /\ Hangs(v, Len(ready.nodes) + 1)
    BY <2>11, PushShape
  <2>13. CASE \E x : Shape(v, x)
    BY <2>6, <2>8, <2>13 DEF Shaped
  <2>14. CASE u[1].sym = "statement" /\ ~Closes(u, 1) /\ Hangs(v, Len(ready.nodes) + 1)
    <3>1. IsTaken(string, old, e, ready.nodes, b, q.reusable, u, v)
      BY <1>1, <1>12, <1>15, <1>17, <2>1, <2>6, <2>7, <2>14 DEF IsTaken
    <3>2. q.reusable.i = Len(old) /\ q.reusable.at = EndOf(v) /\ ~Leaf(u[1])
      BY <3>1, TakenHangs
    <3>3. Len(ready.nodes) + 1 \in q.stack.pending
      BY <2>6, <3>2 DEF ts_stack_push
    <3>4. Len(old) > 1
      BY <1>1
    <3>5. Hanging(old, q)
      BY <2>8, <2>14, <3>2, <3>3, <3>4 DEF Hanging
    <3>6. QED
      BY <2>6, <3>5
  <2>15. QED
    BY <2>6, <2>12, <2>13, <2>14
<1>30. QED
  BY <1>28, <1>29

(* Every turn of the parser keeps the shape.                               *)
LEMMA ShapingKept ==
  ASSUME NEW string, NEW old, Usable(string, old), Len(old) > 1 => Canonical(old), NEW start,
         NEW p \in Shaping(string, old), NEW q, q = Advance(p, string, old, start)
  PROVE  q \in Shaping(string, old)
<1>1. IsText(string) /\ IsTree(old) /\ IsForest(old) /\ Len(old) \in Nat /\ Len(old) >= 1
  <2>1. IsText(string) /\ IsTree(old) /\ IsForest(old)
    BY DEF Usable, IsTree
  <2>2. QED
    BY <2>1, EndOfTree
<1>2. p \in Parsing(string, old)
  BY DEF Shaping
<1>3. q \in Parsing(string, old)
  BY <1>2, ParsingKept
<1>4. p \in Parsers(Len(old)) /\ (Len(old) > 1 => Placed(old, p.reusable))
  BY <1>2 DEF Parsing
<1>5. PICK e : MadeTo(string, p.stack.nodes, e)
  BY <1>2 DEF Parsing
<1>6. EndOf(p.stack.nodes) = e /\ e \in Nat
  BY <1>1, <1>5, MadeIs
<1>7. Turn(p, string, old, start, q)
  BY AdvanceCases
<1>8. p = [reusable |-> p.reusable, stack |-> p.stack, root |-> p.root] /\ p.stack \in Stacks
      /\ p.reusable \in Walks(Len(old))
  BY <1>4 DEF Parsers
<1>9. p.reusable.i \in 2 .. Len(old) + 1 /\ p.reusable.at \in Nat
  BY <1>8, WidthIsPositive DEF Walks, Positions
<1> DEFINE Goal == /\ q.root = <<>> => Shaped(q) \/ Hanging(old, q)
                   /\ q.root # <<>> => Canonical(q.root)
<1>10. CASE p.root # <<>>
  BY <1>7, <1>10 DEF Turn
<1>11. CASE p.root = <<>>
  <2>0. Shaped(p) \/ Hanging(old, p)
    BY <1>11 DEF Shaping
  <2>1. CASE /\ p.reusable.i > Len(old) \/ p.reusable.at > EndOf(p.stack.nodes)
             /\ q = ShiftToken(p, Lex(string, EndOf(p.stack.nodes)))
    <3>1. q = ShiftToken(p, Lex(string, e))
      BY <1>6, <2>1
    <3>2. Shaped(p)
      <4>1. ~Hanging(old, p)
        BY <1>1, <1>6, <2>1 DEF Hanging
      <4>2. QED
        BY <2>0, <4>1
    <3>3. /\ q.root = <<>> => Shaped(q)
          /\ q.root # <<>> => Canonical(q.root)
      BY <1>1, <1>4, <1>5, <1>11, <3>1, <3>2, ShiftTokenShape
    <3>4. QED
      BY <1>3, <3>3 DEF Shaping
  <2>2. CASE ~(p.reusable.i > Len(old)) /\ ~(p.reusable.at > EndOf(p.stack.nodes))
    <3>1. PICK i \in DOMAIN old : i = p.reusable.i /\ i >= 2 /\ i <= Len(old)
      BY <1>1, <1>9, <2>2 DEF IsForest
    <3>2. Len(old) > 1 /\ Fits(string, old) /\ Placed(old, p.reusable) /\ Canonical(old)
      BY <1>1, <1>4, <3>1 DEF Usable
    <3>3. Leaf(old[Len(old)])
      BY <3>2 DEF Fits, Ends
    <3>4. CASE /\ p.reusable.at < EndOf(p.stack.nodes)
               /\ q = [p EXCEPT !.reusable = reusable_node_advance(old, p.reusable)]
      <4>1. q.stack = p.stack /\ q.root = p.root
        BY <1>8, <3>4
      <4>2. ~Hanging(old, p)
        BY <1>6, <1>9, <3>4 DEF Hanging
      <4>3. Shaped(q)
        BY <2>0, <4>1, <4>2 DEF Shaped
      <4>4. QED
        BY <1>3, <1>11, <4>1, <4>3 DEF Shaping
    <3>5. CASE /\ ~(p.reusable.at < EndOf(p.stack.nodes))
               /\ CanReuse(old[p.reusable.i], p.reusable.at, start)
               /\ q = ShiftReused(p, old)
      <4>1. p.reusable.at = e
        BY <1>6, <1>9, <2>2, <3>5
      <4>2. ~old[p.reusable.i].changed
        BY <3>5 DEF CanReuse
      <4>3. p.reusable.i <= Len(old)
        BY <3>1
      <4>4. MadeTo(string, p.stack.nodes, p.reusable.at)
        BY <1>5, <4>1
      <4>5. Goal
        BY <1>1, <1>4, <1>11, <2>0, <3>2, <3>5, <4>2, <4>3, <4>4, ShiftReusedShape
      <4>6. QED
        BY <1>3, <4>5 DEF Shaping
    <3>6. CASE q = [[p EXCEPT !.reusable = reusable_node_advance(old, p.reusable)] EXCEPT
                      !.stack = ts_parser__breakdown_top_of_stack(@)]
      <4>1. q.stack = ts_parser__breakdown_top_of_stack(p.stack) /\ q.root = p.root
        BY <1>8, <3>6
      <4>2. PICK a : Shape(p.stack.nodes, a) \/ (Hangs(p.stack.nodes, a) /\ a \in p.stack.pending)
        BY <2>0 DEF Shaped, Hanging
      <4>3. \E c : Shape(ts_parser__breakdown_top_of_stack(p.stack).nodes, c)
        BY <1>1, <1>5, <1>8, <4>2, BrokenShape
      <4>4. Shaped(q)
        BY <4>1, <4>3 DEF Shaped
      <4>5. QED
        BY <1>3, <1>11, <4>1, <4>4 DEF Shaping
    <3>7. CASE ~Leaf(old[p.reusable.i]) /\ q = [p EXCEPT !.reusable = reusable_node_descend(p.reusable)]
      <4>1. q.stack = p.stack /\ q.root = p.root
        BY <1>8, <3>7
      <4>2. ~Hanging(old, p)
        BY <3>3, <3>7 DEF Hanging
      <4>3. Shaped(q)
        BY <2>0, <4>1, <4>2 DEF Shaped
      <4>4. QED
        BY <1>3, <1>11, <4>1, <4>3 DEF Shaping
    <3>8. QED
      BY <1>7, <1>11, <2>2, <3>4, <3>5, <3>6, <3>7 DEF Turn
  <2>3. QED
    BY <1>7, <1>11, <2>1, <2>2 DEF Turn
<1>12. QED
  BY <1>3, <1>10, <1>11

(* The parser makes a tree of statements that dots close, or the end.      *)
LEMMA ParsedIsCanonical ==
  ASSUME NEW string, NEW old, Usable(string, old.root), Len(old.root) > 1 => Canonical(old.root)
  PROVE  Canonical(ts_parser_parse(string, old).root)
<1>1. IsText(string) /\ IsTree(old.root)
  BY DEF Usable
<1>2. PICK I : I = Shaping(string, old.root)
  OBVIOUS
<1>3. I \in SUBSET Parsers(Len(old.root))
  BY <1>2 DEF Shaping, Parsing
<1>4. NewParser(old.root) \in I
  <2>1. PICK N \in Nat \ {0} : N = Len(old.root)
    BY <1>1, EndOfTree
  <2>2. PICK p : p = NewParser(old.root)
    OBVIOUS
  <2>3. p = [reusable |-> [i |-> 2, at |-> 0], stack |-> [nodes |-> <<>>, pending |-> {}], root |-> <<>>]
    BY <2>1, <2>2, NewParserIs
  <2>4. p.stack.nodes = <<>> /\ p.root = <<>>
    BY <2>3
  <2>5. Shape(p.stack.nodes, 1)
    <3>1. PICK t : t = p.stack.nodes
      OBVIOUS
    <3>2. Len(t) = 0
      BY <2>4, <3>1
    <3>3. IsCut(t, 1)
      BY <3>2 DEF IsCut
    <3>4. Settled(t, 1)
      BY <3>3 DEF Settled
    <3>5. 1 = Len(t) + 1
      BY <3>2
    <3>6. QED
      BY <3>1, <3>4, <3>5 DEF Shape, Ready, Between
  <2>6. Shaped(p)
    BY <2>5 DEF Shaped
  <2>7. p \in Parsing(string, old.root)
    BY <2>2, StartsParsing
  <2>8. QED
    BY <1>2, <2>2, <2>4, <2>6, <2>7 DEF Shaping
<1>5. \A p \in I : Advance(p, string, old.root, old.start) \in I
  BY <1>2, ShapingKept
<1>6. IsKept(I, string, old)
  BY <1>3, <1>4, <1>5 DEF IsKept
<1>7. PICK p \in I : p.root # <<>> /\ ts_parser_parse(string, old) = [root |-> p.root, start |-> 0]
  BY <1>1, <1>6, ParserEnds
<1>8. Canonical(p.root)
  BY <1>2, <1>7 DEF Shaping
<1>9. QED
  BY <1>7, <1>8

(***************************************************************************)
(* The tree of a text is the only one of its shape.                        *)
(***************************************************************************)
Plain(t) == \A i \in DOMAIN t : Formed(t, i) /\ t[i].sym # "program"

\* A stack of trees made of the text from p on.
At(string, p, t) == IsText(string) /\ p \in Nat /\ Sound(string, p, t, Pos(t)) /\ Plain(t)

IsSoundAt(string, p, t, R) == IsText(string) /\ p \in Nat /\ Sound(string, p, t, R)

(* Its places are those Starts gives it.                                   *)
LEMMA AtFrom ==
  ASSUME NEW string, NEW p, NEW t, NEW R, IsSoundAt(string, p, t, R)
  PROVE  Pos(t) = R /\ EndOf(t) = R[Len(t) + 1] /\ (Plain(t) => At(string, p, t))
<1>0. IsText(string) /\ p \in Nat /\ Sound(string, p, t, R)
  BY DEF IsSoundAt
<1>1. PICK W \in Nat : W = Width
  BY WidthIsPositive
<1>2. PICK l \in Nat : l = Len(string) /\ l < W
  BY <1>0, <1>1 DEF IsText
<1>3. Measured(t, R) /\ p + R[Len(t) + 1] <= l /\ R \in [1 .. Len(t) + 1 -> Nat] /\ Len(t) \in Nat
  BY <1>0, <1>2 DEF Sound, Measured, IsForest
<1>4. PICK r \in Nat : r = R[Len(t) + 1]
  <2>1. Len(t) + 1 \in 1 .. Len(t) + 1
    BY <1>3
  <2>2. QED
    BY <1>3, <2>1
<1>5. r < W
  BY <1>0, <1>1, <1>2, <1>3, <1>4
<1>6. Pos(t) = R /\ EndOf(t) = R[Len(t) + 1]
  BY <1>1, <1>3, <1>4, <1>5, MeasureIs
<1>7. QED
  BY <1>0, <1>6 DEF At

(* What such a stack is: each leaf is the token there, each other node the *)
(* one over its children.                                                  *)
LEMMA AtIs ==
  ASSUME NEW string, NEW p, NEW t, At(string, p, t)
  PROVE  /\ IsText(string) /\ p \in Nat /\ IsForest(t) /\ Len(t) \in Nat /\ DOMAIN t = 1 .. Len(t)
         /\ Measured(t, Pos(t)) /\ Pos(t) \in [1 .. Len(t) + 1 -> Nat] /\ Pos(t)[1] = 0
         /\ EndOf(t) = Pos(t)[Len(t) + 1] /\ EndOf(t) \in Nat /\ p + EndOf(t) <= Len(string)
         /\ \A i \in DOMAIN t : /\ Leaf(t[i]) => t[i] = Lex(string, p + Pos(t)[i])
                                /\ ~Leaf(t[i]) => t[i] = Node(t[i].sym, Inner(t, i))[1]
<1>1. IsText(string) /\ p \in Nat /\ Sound(string, p, t, Pos(t))
  BY DEF At
<1>2. /\ Measured(t, Pos(t)) /\ IsForest(t) /\ Len(t) \in Nat /\ DOMAIN t = 1 .. Len(t)
      /\ Pos(t) \in [1 .. Len(t) + 1 -> Nat] /\ Pos(t)[1] = 0
      /\ p + Pos(t)[Len(t) + 1] <= Len(string)
  BY <1>1 DEF Sound, Measured, IsForest
<1>3. IsSoundAt(string, p, t, Pos(t))
  BY <1>1 DEF IsSoundAt
<1>4. EndOf(t) = Pos(t)[Len(t) + 1]
  BY <1>3, AtFrom
<1>5. EndOf(t) \in Nat
  <2>1. Len(t) + 1 \in 1 .. Len(t) + 1
    BY <1>2
  <2>2. QED
    BY <1>2, <1>4, <2>1
<1>6. \A i \in DOMAIN t : Whole(string, p, t, Pos(t), i)
  BY <1>1 DEF Sound
<1>7. QED
  BY <1>1, <1>2, <1>4, <1>5, <1>6 DEF Whole

(* A part of it.                                                           *)
IsWithin(string, p, t, u, a) ==
  /\ IsText(string) /\ p \in Nat /\ Sound(string, p, t, Pos(t))
  /\ IsForest(u) /\ a \in Nat /\ a + Len(u) <= Len(t)
  /\ \A k \in 1 .. Len(u) : /\ u[k] = t[a + k]
                            /\ Formed(t, a + k) /\ t[a + k].sym # "program"

(* A part of it is made of the text from its own place on.                 *)
LEMMA AtPart ==
  ASSUME NEW string, NEW p, NEW t, NEW u, NEW a, IsWithin(string, p, t, u, a)
  PROVE  /\ At(string, p + Pos(t)[a + 1], u)
         /\ EndOf(u) = Pos(t)[a + Len(u) + 1] - Pos(t)[a + 1]
<1>0. /\ IsText(string) /\ p \in Nat /\ Sound(string, p, t, Pos(t))
      /\ IsForest(u) /\ a \in Nat /\ a + Len(u) <= Len(t)
      /\ \A k \in 1 .. Len(u) : u[k] = t[a + k]
      /\ \A k \in 1 .. Len(u) : Formed(t, a + k) /\ t[a + k].sym # "program"
  BY DEF IsWithin
<1>1. PICK P : P = Pos(t)
  OBVIOUS
<1>2. PICK R : R = Moved(P, a, Len(u))
  OBVIOUS
<1>3. IsPartOf(string, p, t, P, u, R, a)
  BY <1>0, <1>1, <1>2 DEF IsPartOf
<1>4. /\ P[a + 1] \in Nat /\ Sound(string, p + P[a + 1], u, R)
      /\ R[Len(u) + 1] = P[a + Len(u) + 1] - P[a + 1]
  BY <1>3, SoundPart
<1>5. Plain(u)
  <2>1. Measured(t, P)
    BY <1>0, <1>1 DEF Sound
  <2>2. IsPart(t, P, u, R, a)
    BY <1>0, <1>2, <2>1, PartMeasured
  <2>3. ASSUME NEW k \in DOMAIN u
        PROVE  Formed(u, k) /\ u[k].sym # "program"
    <3>1. k \in 1 .. Len(u)
      BY <1>0 DEF IsForest
    <3>2. Formed(u, k) <=> Formed(t, a + k)
      BY <2>2, <3>1, FormedOfPart
    <3>3. QED
      BY <1>0, <3>1, <3>2
  <2>4. QED
    BY <2>3 DEF Plain
<1>6. PICK q \in Nat : q = p + P[a + 1]
  BY <1>0, <1>4
<1>7. IsSoundAt(string, q, u, R)
  BY <1>0, <1>4, <1>6 DEF IsSoundAt
<1>8. EndOf(u) = R[Len(u) + 1] /\ At(string, q, u)
  BY <1>5, <1>7, AtFrom
<1>9. QED
  BY <1>1, <1>4, <1>6, <1>8

(* A node that has children is the one over them.                          *)
LEMMA TreeIsNode ==
  ASSUME NEW u, IsTree(u), ~Leaf(u[1]), u[1] = Node(u[1].sym, Inner(u, 1))[1]
  PROVE  /\ u = Node(u[1].sym, Inner(u, 1)) /\ IsForest(Inner(u, 1)) /\ Inner(u, 1) # <<>>
         /\ Len(u) \in Nat /\ Len(Inner(u, 1)) = Len(u) - 1
         /\ \A k \in 1 .. Len(u) - 1 : /\ Inner(u, 1)[k] = u[k + 1]
                                       /\ Beyond(Inner(u, 1), k) = Beyond(u, k + 1) - 1
<1>1. IsForest(u) /\ Beyond(u, 1) = Len(u) + 1 /\ 1 \in DOMAIN u
  BY EndOfTree DEF IsTree
<1>2. PICK N \in Nat : N = Len(u)
  BY <1>1 DEF IsForest
<1>3. N > 1
  <2>1. u[1].node_count \in Nat \ {0}
    BY <1>1, NodeFacts
  <2>2. QED
    BY <1>1, <1>2, <2>1 DEF Beyond, Leaf
<1>4. PICK kids : kids = Inner(u, 1)
  OBVIOUS
<1>5. PICK i \in DOMAIN u : i = 1
  BY <1>1
<1>6. /\ IsForest(Inner(u, i)) /\ Len(Inner(u, i)) = Beyond(u, i) - 1 - i
      /\ \A k \in 1 .. Beyond(u, i) - 1 - i : /\ Inner(u, i)[k] = u[i + k]
                                              /\ Beyond(Inner(u, i), k) = Beyond(u, i + k) - i
  BY <1>1, InnerIs
<1>7. Beyond(u, i) - 1 - i = N - 1
  BY <1>1, <1>2, <1>5
<1>8. /\ IsForest(kids) /\ Len(kids) = N - 1
      /\ \A k \in 1 .. N - 1 : kids[k] = u[k + 1] /\ Beyond(kids, k) = Beyond(u, k + 1) - 1
  <2>1. IsForest(kids) /\ Len(kids) = N - 1
    BY <1>4, <1>5, <1>6, <1>7
  <2>2. ASSUME NEW k \in 1 .. N - 1
        PROVE  kids[k] = u[k + 1] /\ Beyond(kids, k) = Beyond(u, k + 1) - 1
    <3>1. i + k = k + 1
      BY <1>5
    <3>2. QED
      BY <1>4, <1>5, <1>6, <1>7, <3>1
  <2>3. QED
    BY <2>1, <2>2
<1>9. kids # <<>>
  BY <1>3, <1>8, EmptySeq
<1>10. PICK sym \in Symbols : sym = u[1].sym
  <2>1. u[1] \in TreeNode
    BY <1>1, NodeFacts
  <2>2. u[1].sym \in Symbols
    BY <2>1 DEF TreeNode, Symbols
  <2>3. QED
    BY <2>2
<1>11. PICK v : v = Node(sym, kids)
  OBVIOUS
<1>12. IsAbove(v, sym, kids)
  BY <1>8, <1>9, <1>11, NodeIsAbove
<1>13. Len(v) = N /\ v \in Seq(TreeNode) /\ \A k \in 1 .. N - 1 : v[k + 1] = kids[k]
  <2>1. Len(v) = Len(kids) + 1 /\ IsTree(v) /\ \A k \in 1 .. Len(kids) : v[k + 1] = kids[k]
    BY <1>12 DEF IsAbove
  <2>2. QED
    BY <1>2, <1>8, <2>1 DEF IsTree, IsForest
<1>14. v[1] = u[1]
  BY <1>4, <1>10, <1>11
<1>15. \A k \in 1 .. N : v[k] = u[k]
  <2> TAKE k \in 1 .. N
  <2>1. CASE k = 1
    BY <1>14, <2>1
  <2>2. CASE k # 1
    <3>1. PICK j \in 1 .. N - 1 : k = j + 1
      BY <1>2, <2>2
    <3>2. QED
      BY <1>8, <1>13, <3>1
  <2>3. QED
    BY <2>1, <2>2
<1>16. v = u
  <2>1. u \in Seq(TreeNode) /\ Len(u) = N
    BY <1>1, <1>2 DEF IsForest
  <2>2. QED
    BY <1>2, <1>13, <1>15, <2>1, SeqEqual
<1>17. QED
  BY <1>2, <1>4, <1>8, <1>9, <1>10, <1>11, <1>16

(* The children of a node.                                                 *)
IsOver(string, p, u, kids) ==
  /\ IsText(string) /\ p \in Nat /\ Sound(string, p, u, Pos(u)) /\ IsTree(u) /\ ~Leaf(u[1])
  /\ kids = Inner(u, 1)
  /\ \A i \in 2 .. Len(u) : Formed(u, i) /\ u[i].sym # "program"

(* They are made of the text from where the node begins.                   *)
LEMMA AtInner ==
  ASSUME NEW string, NEW p, NEW u, NEW kids, IsOver(string, p, u, kids)
  PROVE  /\ At(string, p, kids) /\ EndOf(kids) = EndOf(u) /\ Len(u) \in Nat /\ Len(kids) = Len(u) - 1
         /\ u = Node(u[1].sym, kids) /\ kids # <<>>
         /\ \A k \in 1 .. Len(u) - 1 : kids[k] = u[k + 1] /\ Beyond(kids, k) = Beyond(u, k + 1) - 1
<1>0. /\ IsText(string) /\ p \in Nat /\ Sound(string, p, u, Pos(u)) /\ IsTree(u) /\ ~Leaf(u[1])
      /\ kids = Inner(u, 1)
      /\ \A i \in 2 .. Len(u) : Formed(u, i) /\ u[i].sym # "program"
  BY DEF IsOver
<1>1. 1 \in DOMAIN u
  BY <1>0, EndOfTree
<1>2. u[1] = Node(u[1].sym, Inner(u, 1))[1]
  BY <1>0, <1>1 DEF Sound, Whole
<1>3. /\ u = Node(u[1].sym, kids) /\ IsForest(kids) /\ kids # <<>>
      /\ Len(u) \in Nat /\ Len(kids) = Len(u) - 1
      /\ \A k \in 1 .. Len(u) - 1 : kids[k] = u[k + 1] /\ Beyond(kids, k) = Beyond(u, k + 1) - 1
  BY <1>0, <1>2, TreeIsNode
<1>4. PICK o \in Nat : o = 1
  OBVIOUS
<1>5. PICK P : P = Pos(u)
  OBVIOUS
<1>6. Measured(u, P) /\ P \in [1 .. Len(u) + 1 -> Nat] /\ P[1] = 0 /\ P[1 + 1] = P[1]
  BY <1>0, <1>1, <1>5 DEF Sound, Measured
<1>7. P[o + 1] = 0
  BY <1>4, <1>6
<1>8. IsWithin(string, p, u, kids, o)
  <2>1. o + Len(kids) <= Len(u)
    BY <1>3, <1>4
  <2>2. ASSUME NEW k \in 1 .. Len(kids)
        PROVE  kids[k] = u[o + k] /\ Formed(u, o + k) /\ u[o + k].sym # "program"
    <3>1. o + k = k + 1 /\ k \in 1 .. Len(u) - 1 /\ o + k \in 2 .. Len(u)
      BY <1>3, <1>4
    <3>2. QED
      BY <1>0, <1>3, <3>1
  <2>3. QED
    BY <1>0, <1>3, <2>1, <2>2 DEF IsWithin
<1>9. At(string, p + P[o + 1], kids) /\ EndOf(kids) = P[o + Len(kids) + 1] - P[o + 1]
  BY <1>5, <1>8, AtPart
<1>10. EndOf(u) = P[Len(u) + 1]
  <2>1. IsSoundAt(string, p, u, P)
    BY <1>0, <1>5 DEF IsSoundAt
  <2>2. QED
    BY <2>1, AtFrom
<1>11. At(string, p, kids)
  <2>1. p + P[o + 1] = p
    BY <1>0, <1>7
  <2>2. QED
    BY <1>9, <2>1
<1>12. EndOf(kids) = EndOf(u)
  <2>1. o + Len(kids) + 1 = Len(u) + 1
    BY <1>3, <1>4
  <2>2. P[Len(u) + 1] \in Nat
    BY <1>3, <1>6
  <2>3. QED
    BY <1>7, <1>9, <1>10, <2>1, <2>2
<1>13. QED
  BY <1>3, <1>11, <1>12

(* Two parts of it.                                                        *)
IsSplit(string, p, t, i, x, y) ==
  At(string, p, t) /\ IsCut(t, i) /\ x = SubSeq(t, 1, i - 1) /\ y = SubSeq(t, i, Len(t))

PartsAre(t, i, x, y) ==
  /\ \A k \in 1 .. i - 1 : x[k] = t[k] /\ Beyond(x, k) = Beyond(t, k)
  /\ \A k \in 1 .. Len(t) - i + 1 :
       y[k] = t[i + k - 1] /\ Beyond(y, k) = Beyond(t, i + k - 1) - (i - 1)

AreParts(string, p, t, i, x, y) ==
  /\ t = x \o y /\ At(string, p, x) /\ At(string, p + EndOf(x), y)
  /\ Len(x) = i - 1 /\ Len(y) = Len(t) - i + 1 /\ EndOf(t) = EndOf(x) + EndOf(y)
  /\ PartsAre(t, i, x, y)

(* Each part is made of the text from its own place on.                    *)
LEMMA AtSplit ==
  ASSUME NEW string, NEW p, NEW t, NEW i, NEW x, NEW y, IsSplit(string, p, t, i, x, y)
  PROVE  AreParts(string, p, t, i, x, y)
<1>0. At(string, p, t) /\ IsCut(t, i) /\ x = SubSeq(t, 1, i - 1) /\ y = SubSeq(t, i, Len(t))
  BY DEF IsSplit
<1>1. IsText(string) /\ p \in Nat /\ IsForest(t) /\ Sound(string, p, t, Pos(t)) /\ Plain(t)
  BY <1>0, AtIs DEF At
<1>2. PICK N \in Nat : N = Len(t) /\ DOMAIN t = 1 .. N
  BY <1>1 DEF IsForest
<1>3. i \in 1 .. N + 1
  BY <1>0, <1>2 DEF IsCut
<1>4. IsForest(x) /\ Len(x) = i - 1
  BY <1>0, <1>1, CutsInTwo
<1>5. \A k \in 1 .. i - 1 : x[k] = t[k] /\ Beyond(x, k) = Beyond(t, k)
  <2>1. \A k \in 1 .. i - 1 : /\ SubSeq(t, 1, i - 1)[k] = t[k]
                              /\ Beyond(SubSeq(t, 1, i - 1), k) = Beyond(t, k)
    BY <1>0, <1>1, CutsInTwo
  <2>2. QED
    BY <1>0, <2>1
<1>6. IsForest(y) /\ Len(y) = N - i + 1
  BY <1>0, <1>1, <1>2, CutsInTwo
<1>7. \A k \in 1 .. N - i + 1 : y[k] = t[i + k - 1] /\ Beyond(y, k) = Beyond(t, i + k - 1) - (i - 1)
  <2>1. \A k \in 1 .. Len(t) - i + 1 :
              /\ SubSeq(t, i, Len(t))[k] = t[i + k - 1]
              /\ Beyond(SubSeq(t, i, Len(t)), k) = Beyond(t, i + k - 1) - (i - 1)
    BY <1>0, <1>1, CutsInTwo, ZenonT(60)
  <2>2. QED
    BY <1>0, <1>2, <2>1
<1>8. t = x \o y
  <2>1. t = SubSeq(t, 1, i - 1) \o SubSeq(t, i, Len(t))
    BY <1>0, <1>1, CutsInTwo, ZenonT(60)
  <2>2. QED
    BY <1>0, <2>1
<1>9. PICK P : P = Pos(t)
  OBVIOUS
<1>10. /\ P \in [1 .. N + 1 -> Nat] /\ P[1] = 0 /\ EndOf(t) = P[N + 1]
  BY <1>0, <1>2, <1>9, AtIs
<1>11. PICK z \in Nat : z = 0
  OBVIOUS
<1>12. IsWithin(string, p, t, x, z)
  <2>1. z + Len(x) <= Len(t)
    BY <1>2, <1>3, <1>4, <1>11
  <2>2. ASSUME NEW k \in 1 .. Len(x)
        PROVE  x[k] = t[z + k] /\ Formed(t, z + k) /\ t[z + k].sym # "program"
    <3>1. z + k = k /\ k \in 1 .. i - 1 /\ k \in DOMAIN t
      BY <1>2, <1>3, <1>4, <1>11
    <3>2. QED
      BY <1>1, <1>5, <3>1 DEF Plain
  <2>3. QED
    BY <1>1, <1>4, <2>1, <2>2 DEF IsWithin
<1>13. At(string, p + P[z + 1], x) /\ EndOf(x) = P[z + Len(x) + 1] - P[z + 1]
  BY <1>9, <1>12, AtPart
<1>14. P[i] \in Nat /\ P[N + 1] \in Nat /\ i - 1 \in Nat
  BY <1>3, <1>10
<1>15. At(string, p, x) /\ EndOf(x) = P[i]
  <2>1. z + 1 = 1 /\ z + Len(x) + 1 = i
    BY <1>3, <1>4, <1>11
  <2>2. p + P[1] = p /\ P[i] - P[1] = P[i]
    BY <1>1, <1>10, <1>14
  <2>3. QED
    BY <1>13, <2>1, <2>2
<1>16. IsWithin(string, p, t, y, i - 1)
  <2>1. (i - 1) + Len(y) <= Len(t)
    BY <1>2, <1>3, <1>6
  <2>2. ASSUME NEW k \in 1 .. Len(y)
        PROVE  y[k] = t[(i - 1) + k] /\ Formed(t, (i - 1) + k) /\ t[(i - 1) + k].sym # "program"
    <3>1. (i - 1) + k = i + k - 1 /\ k \in 1 .. N - i + 1 /\ (i - 1) + k \in DOMAIN t
      BY <1>2, <1>3, <1>6
    <3>2. QED
      BY <1>1, <1>7, <3>1 DEF Plain
  <2>3. QED
    BY <1>1, <1>6, <1>14, <2>1, <2>2 DEF IsWithin
<1>17. At(string, p + P[(i - 1) + 1], y) /\ EndOf(y) = P[(i - 1) + Len(y) + 1] - P[(i - 1) + 1]
  BY <1>9, <1>16, AtPart
<1>18. At(string, p + EndOf(x), y) /\ EndOf(y) = P[N + 1] - P[i]
  <2>1. (i - 1) + 1 = i /\ (i - 1) + Len(y) + 1 = N + 1
    BY <1>3, <1>6
  <2>2. QED
    BY <1>15, <1>17, <2>1
<1>19. EndOf(t) = EndOf(x) + EndOf(y)
  BY <1>10, <1>14, <1>15, <1>18
<1>20. QED
  <2>1. PartsAre(t, i, x, y)
    BY <1>2, <1>5, <1>7 DEF PartsAre
  <2>2. QED
    BY <1>2, <1>4, <1>6, <1>8, <1>15, <1>18, <1>19, <2>1 DEF AreParts

(* A tree with a token behind it.                                          *)
IsPair(string, p, t, x, n) ==
  /\ At(string, p, t) /\ t # <<>> /\ Beyond(t, 1) = Len(t)
  /\ x = SubSeq(t, 1, Len(t) - 1) /\ n = t[Len(t)]

ArePair(string, p, t, x, n) ==
  /\ IsTree(x) /\ At(string, p, x) /\ x[1] = t[1] /\ Len(x) = Len(t) - 1
  /\ t = x \o <<n>> /\ n = Lex(string, p + EndOf(x)) /\ EndOf(t) = EndOf(x) + EndOf(<<n>>)

(* The token is the one the lexer reads behind the tree.                   *)
LEMMA AtPair ==
  ASSUME NEW string, NEW p, NEW t, NEW x, NEW n, IsPair(string, p, t, x, n)
  PROVE  ArePair(string, p, t, x, n)
<1>0. /\ At(string, p, t) /\ t # <<>> /\ Beyond(t, 1) = Len(t)
      /\ x = SubSeq(t, 1, Len(t) - 1) /\ n = t[Len(t)]
  BY DEF IsPair
<1>1. IsText(string) /\ p \in Nat /\ IsForest(t)
  BY <1>0, AtIs
<1>2. PICK N \in Nat : N = Len(t) /\ DOMAIN t = 1 .. N /\ N >= 1
  <2>1. Len(t) \in Nat /\ DOMAIN t = 1 .. Len(t) /\ t \in Seq(TreeNode)
    BY <1>1 DEF IsForest
  <2>2. Len(t) # 0
    BY <1>0, <2>1, EmptySeq
  <2>3. Len(t) >= 1
    BY <2>1, <2>2
  <2>4. QED
    BY <2>1, <2>3
<1>3. \A k \in 1 .. N : Beyond(t, k) \in k + 1 .. N + 1
  <2> TAKE k \in 1 .. N
  <2>1. Beyond(t, k) \in k + 1 .. Len(t) + 1
    BY <1>1, <1>2, NodeFacts
  <2>2. QED
    BY <1>2, <2>1
<1>4. N >= 2 /\ Beyond(t, 1) = N
  <2>1. 1 \in 1 .. N
    BY <1>2
  <2>2. Beyond(t, 1) \in 1 + 1 .. N + 1
    BY <1>3, <2>1
  <2>3. QED
    BY <1>0, <1>2, <2>2
<1>5. IsCut(t, N)
  <2>1. ASSUME NEW k \in 1 .. N - 1
        PROVE  Beyond(t, k) <= N
    <3>1. CASE k = 1
      BY <1>4, <3>1
    <3>2. CASE k # 1
      <4>1. k \in Below(t, 1)
        BY <1>4, <3>2 DEF Below
      <4>2. 1 \in DOMAIN t
        BY <1>2
      <4>3. Beyond(t, k) <= Beyond(t, 1)
        BY <1>1, <4>1, <4>2 DEF IsForest
      <4>4. QED
        BY <1>4, <4>3
    <3>3. QED
      BY <3>1, <3>2
  <2>2. N \in 1 .. Len(t) + 1
    BY <1>2
  <2>3. QED
    BY <2>1, <2>2 DEF IsCut
<1>6. PICK y : y = SubSeq(t, N, Len(t))
  OBVIOUS
<1>7. IsSplit(string, p, t, N, x, y)
  BY <1>0, <1>2, <1>5, <1>6 DEF IsSplit
<1>8. /\ t = x \o y /\ At(string, p, x) /\ At(string, p + EndOf(x), y) /\ Len(x) = N - 1
      /\ Len(y) = 1 /\ EndOf(t) = EndOf(x) + EndOf(y) /\ PartsAre(t, N, x, y)
  <2>1. AreParts(string, p, t, N, x, y)
    BY <1>7, AtSplit
  <2>2. Len(t) - N + 1 = 1
    BY <1>2
  <2>3. QED
    BY <2>1, <2>2 DEF AreParts
<1>9. \A k \in 1 .. N - 1 : x[k] = t[k] /\ Beyond(x, k) = Beyond(t, k)
  BY <1>8 DEF PartsAre
<1>10. \A k \in 1 .. Len(t) - N + 1 : y[k] = t[N + k - 1]
  BY <1>8 DEF PartsAre
<1>11. IsTree(x) /\ x[1] = t[1]
  <2>1. 1 \in 1 .. N - 1
    BY <1>4
  <2>2. Beyond(x, 1) = Len(x) + 1 /\ x[1] = t[1]
    BY <1>4, <1>8, <1>9, <2>1
  <2>3. IsForest(x) /\ x \in Seq(TreeNode)
    BY <1>8, AtIs DEF IsForest
  <2>4. x # <<>>
    BY <1>4, <1>8, EmptySeq
  <2>5. QED
    BY <2>2, <2>3, <2>4 DEF IsTree
<1>12. Len(y) = 1 /\ y[1] = n
  <2>1. Len(t) - N + 1 = 1 /\ N + 1 - 1 = N /\ 1 \in 1 .. 1
    BY <1>2
  <2>2. QED
    BY <1>0, <1>2, <1>8, <1>10, <2>1
<1>13. y = <<n>>
  <2>1. y \in Seq(TreeNode)
    BY <1>8, AtIs DEF IsForest
  <2>2. QED
    BY <1>12, <2>1
<1>14. Leaf(n)
  <2>1. N \in 1 .. N
    BY <1>2
  <2>2. Beyond(t, N) \in N + 1 .. N + 1
    BY <1>3, <2>1
  <2>3. Leaf(t[N]) <=> Beyond(t, N) = N + 1
    BY <1>1, <1>2, <2>1, NodeFacts
  <2>4. QED
    BY <1>0, <1>2, <2>2, <2>3
<1>15. n = Lex(string, p + EndOf(x))
  <2>1. PICK q : q = p + EndOf(x)
    OBVIOUS
  <2>2. At(string, q, y)
    BY <1>8, <2>1
  <2>3. q \in Nat /\ Pos(y)[1] = 0 /\ \A i \in DOMAIN y : Leaf(y[i]) => y[i] = Lex(string, q + Pos(y)[i])
    BY <2>2, AtIs
  <2>4. 1 \in DOMAIN y
    BY <1>13
  <2>5. n = Lex(string, q + 0)
    BY <1>12, <1>14, <2>3, <2>4
  <2>6. q + 0 = q
    BY <2>3
  <2>7. QED
    BY <2>1, <2>5, <2>6
<1>16. QED
  <2>1. Len(x) = Len(t) - 1 /\ EndOf(t) = EndOf(x) + EndOf(<<n>>)
    BY <1>2, <1>8, <1>13
  <2>2. t = x \o <<n>>
    BY <1>8, <1>13
  <2>3. QED
    BY <1>8, <1>11, <1>15, <2>1, <2>2 DEF ArePair

(* One tree of the text: a token, or a node over others.                   *)
IsTreeAt(string, p, u) == At(string, p, u) /\ IsTree(u)

AsTree(string, p, u) ==
  /\ IsForest(u) /\ Len(u) \in Nat /\ Len(u) >= 1 /\ DOMAIN u = 1 .. Len(u) /\ EndOf(u) \in Nat
  /\ p \in Nat /\ Beyond(u, 1) = Len(u) + 1 /\ Formed(u, 1) /\ u[1].sym # "program"
  /\ Leaf(u[1]) <=> Len(u) = 1
  /\ Len(u) = 1 => u = <<Lex(string, p)>> /\ u[1] = Lex(string, p)
  /\ Len(u) # 1 => IsOver(string, p, u, Inner(u, 1))

(* It is the token there, or it is over its children.                      *)
LEMMA TreeIsAt ==
  ASSUME NEW string, NEW p, NEW u, IsTreeAt(string, p, u)
  PROVE  AsTree(string, p, u)
<1>0. At(string, p, u) /\ IsTree(u)
  BY DEF IsTreeAt
<1>1. /\ IsText(string) /\ p \in Nat /\ IsForest(u) /\ Len(u) \in Nat /\ DOMAIN u = 1 .. Len(u)
      /\ Pos(u)[1] = 0 /\ EndOf(u) \in Nat
  BY <1>0, AtIs
<1>2. \A i \in DOMAIN u : Leaf(u[i]) => u[i] = Lex(string, p + Pos(u)[i])
  BY <1>0, AtIs
<1>3. Sound(string, p, u, Pos(u)) /\ \A i \in DOMAIN u : Formed(u, i) /\ u[i].sym # "program"
  BY <1>0 DEF At, Plain
<1>4. 1 \in DOMAIN u /\ Beyond(u, 1) = Len(u) + 1 /\ u # <<>>
  BY <1>0, EndOfTree DEF IsTree
<1>5. Len(u) >= 1
  BY <1>1, <1>4
<1>6. u[1].node_count \in Nat
  BY <1>1, <1>4, NodeFacts
<1>7. Leaf(u[1]) <=> Len(u) = 1
  BY <1>1, <1>4, <1>6 DEF Leaf, Beyond
<1>8. ASSUME Len(u) = 1
      PROVE  u = <<Lex(string, p)>> /\ u[1] = Lex(string, p)
  <2>1. u[1] = Lex(string, p + Pos(u)[1])
    BY <1>2, <1>4, <1>7, <1>8
  <2>2. p + Pos(u)[1] = p
    BY <1>1
  <2>3. u \in Seq(TreeNode)
    BY <1>1 DEF IsForest
  <2>4. u = <<u[1]>>
    BY <1>8, <2>3
  <2>5. QED
    BY <2>1, <2>2, <2>4
<1>9. ASSUME Len(u) # 1
      PROVE  IsOver(string, p, u, Inner(u, 1))
  <2>1. \A i \in 2 .. Len(u) : i \in DOMAIN u
    BY <1>1
  <2>2. QED
    BY <1>0, <1>1, <1>3, <1>7, <1>9, <2>1 DEF IsOver
<1>10. QED
  BY <1>1, <1>3, <1>4, <1>5, <1>7, <1>8, <1>9 DEF AsTree

(* A node over a tree.                                                     *)
IsOfOne(string, p, u, x) ==
  /\ IsTreeAt(string, p, x) /\ x[1] = u[2] /\ Len(x) = Len(u) - 1 /\ EndOf(u) = EndOf(x)
  /\ x[Len(x)] = u[Len(u)] /\ u = Node(u[1].sym, x)

(* A node whose first child reaches to its end is over that child.         *)
LEMMA NodeOfOne ==
  ASSUME NEW string, NEW p, NEW u, IsTreeAt(string, p, u), Len(u) # 1, Beyond(u, 2) = Len(u) + 1
  PROVE  \E x : IsOfOne(string, p, u, x)
<1>1. AsTree(string, p, u)
  BY TreeIsAt
<1>2. PICK x : x = Inner(u, 1)
  OBVIOUS
<1>3. IsOver(string, p, u, x)
  BY <1>1, <1>2 DEF AsTree
<1>4. /\ At(string, p, x) /\ EndOf(x) = EndOf(u) /\ Len(u) \in Nat /\ Len(x) = Len(u) - 1
      /\ u = Node(u[1].sym, x) /\ x # <<>>
  BY <1>3, AtInner
<1>5. \A k \in 1 .. Len(u) - 1 : x[k] = u[k + 1] /\ Beyond(x, k) = Beyond(u, k + 1) - 1
  BY <1>3, AtInner
<1>6. Len(u) >= 1
  BY <1>1 DEF AsTree
<1>7. 1 \in 1 .. Len(u) - 1 /\ 1 + 1 = 2 /\ Len(u) - 1 \in 1 .. Len(u) - 1 /\ Len(u) - 1 + 1 = Len(u)
  BY <1>4, <1>6
<1>8. x[1] = u[2] /\ Beyond(x, 1) = Beyond(u, 2) - 1 /\ x[Len(x)] = u[Len(u)]
  BY <1>4, <1>5, <1>7
<1>9. Beyond(x, 1) = Len(x) + 1
  BY <1>4, <1>8
<1>10. IsForest(x)
  BY <1>4, AtIs
<1>11. IsTree(x)
  BY <1>4, <1>9, <1>10 DEF IsTree
<1>12. QED
  BY <1>4, <1>8, <1>11 DEF IsOfOne, IsTreeAt

(* A node over a tree and a token behind it.                               *)
IsOfTwo(string, p, u, x) ==
  /\ IsTreeAt(string, p, x) /\ x[1] = u[2] /\ Len(x) = Len(u) - 2
  /\ u[Len(u)] = Lex(string, p + EndOf(x))
  /\ u = Node(u[1].sym, x \o <<Lex(string, p + EndOf(x))>>)

(* A node whose first child leaves one node is over that child and the     *)
(* token behind it.                                                        *)
LEMMA NodeOfTwo ==
  ASSUME NEW string, NEW p, NEW u, IsTreeAt(string, p, u), Len(u) # 1, Beyond(u, 2) = Len(u)
  PROVE  \E x : IsOfTwo(string, p, u, x)
<1>1. AsTree(string, p, u)
  BY TreeIsAt
<1>2. PICK kids : kids = Inner(u, 1)
  OBVIOUS
<1>3. IsOver(string, p, u, kids)
  BY <1>1, <1>2 DEF AsTree
<1>4. /\ At(string, p, kids) /\ EndOf(kids) = EndOf(u) /\ Len(u) \in Nat /\ Len(kids) = Len(u) - 1
      /\ u = Node(u[1].sym, kids) /\ kids # <<>>
  BY <1>3, AtInner
<1>5. \A k \in 1 .. Len(u) - 1 : kids[k] = u[k + 1] /\ Beyond(kids, k) = Beyond(u, k + 1) - 1
  BY <1>3, AtInner
<1>6. Len(u) >= 1
  BY <1>1 DEF AsTree
<1>7. 1 \in 1 .. Len(u) - 1 /\ 1 + 1 = 2 /\ Len(u) - 1 \in 1 .. Len(u) - 1 /\ Len(u) - 1 + 1 = Len(u)
  BY <1>4, <1>6
<1>8. kids[1] = u[2] /\ Beyond(kids, 1) = Beyond(u, 2) - 1 /\ kids[Len(kids)] = u[Len(u)]
  BY <1>4, <1>5, <1>7
<1>9. Beyond(kids, 1) = Len(kids)
  BY <1>4, <1>8
<1>10. PICK x, n : x = SubSeq(kids, 1, Len(kids) - 1) /\ n = kids[Len(kids)]
  OBVIOUS
<1>11. IsPair(string, p, kids, x, n)
  BY <1>4, <1>9, <1>10 DEF IsPair
<1>12. ArePair(string, p, kids, x, n)
  BY <1>11, AtPair
<1>13. IsTree(x) /\ At(string, p, x) /\ x[1] = kids[1] /\ kids = x \o <<n>> /\ n = Lex(string, p + EndOf(x))
  BY <1>12 DEF ArePair
<1>14. Len(x) = Len(kids) - 1
  BY <1>12 DEF ArePair
<1>15. Len(x) = Len(u) - 2
  BY <1>4, <1>14
<1>16. IsTreeAt(string, p, x)
  BY <1>13 DEF IsTreeAt
<1>17. QED
  BY <1>4, <1>8, <1>10, <1>13, <1>15, <1>16 DEF IsOfTwo

(* A tree of letters.                                                      *)
IsLetters(string, p, u) == IsTreeAt(string, p, u) /\ Letters(u[1])

IsLonger(string, p, u, x) ==
  /\ IsLetters(string, p, x) /\ Len(x) = Len(u) - 2
  /\ u = Node("list", x \o <<Lex(string, p + EndOf(x))>>) /\ Lex(string, p + EndOf(x)).sym = "id"

(* It is one letter, or a list of such a tree and one letter behind it.    *)
LEMMA LettersAre ==
  ASSUME NEW string, NEW p, NEW u, IsLetters(string, p, u)
  PROVE  /\ Len(u) \in Nat /\ Len(u) >= 1 /\ u[Len(u)].sym = "id"
         /\ Len(u) = 1 => u = <<Lex(string, p)>> /\ Lex(string, p).sym = "id"
         /\ Len(u) # 1 => \E x : IsLonger(string, p, u, x)
<1>0. IsTreeAt(string, p, u) /\ u[1].sym \in {"id", "list"}
  BY DEF IsLetters, Letters
<1>1. AsTree(string, p, u)
  BY <1>0, TreeIsAt
<1>2. Len(u) \in Nat /\ Len(u) >= 1 /\ Beyond(u, 1) = Len(u) + 1 /\ Formed(u, 1)
  BY <1>1 DEF AsTree
<1>3. ASSUME Len(u) = 1
      PROVE  u = <<Lex(string, p)>> /\ Lex(string, p).sym = "id" /\ u[Len(u)].sym = "id"
  <2>1. u = <<Lex(string, p)>> /\ u[1] = Lex(string, p) /\ Leaf(u[1])
    BY <1>1, <1>3 DEF AsTree
  <2>2. u[1].sym \in {"id", "dot", "dots", "end"}
    BY <1>2, <2>1 DEF Formed
  <2>3. QED
    BY <1>0, <1>3, <2>1, <2>2
<1>4. ASSUME Len(u) # 1
      PROVE  u[Len(u)].sym = "id" /\ \E x : IsLonger(string, p, u, x)
  <2>1. ~Leaf(u[1])
    BY <1>1, <1>4 DEF AsTree
  <2>2. PICK e : e = Beyond(u, 1)
    OBVIOUS
  <2>3. /\ u[1].sym = "list" /\ Letters(u[1 + 1]) /\ Beyond(u, 1 + 1) = e - 1 /\ u[e - 1].sym = "id"
    BY <1>0, <1>2, <2>1, <2>2 DEF Formed
  <2>4. e - 1 = Len(u) /\ 1 + 1 = 2
    BY <1>2, <2>2
  <2>5. Letters(u[2]) /\ Beyond(u, 2) = Len(u) /\ u[Len(u)].sym = "id"
    BY <2>3, <2>4
  <2>6. PICK x : IsOfTwo(string, p, u, x)
    BY <1>0, <1>4, <2>5, NodeOfTwo
  <2>7. QED
    BY <2>3, <2>5, <2>6 DEF IsOfTwo, IsLonger, IsLetters
<1>5. QED
  BY <1>2, <1>3, <1>4

(* It has an odd number of nodes, and a letter is read where it begins.    *)
LEMMA LettersAreOdd ==
  ASSUME NEW string, NEW p, NEW u, IsLetters(string, p, u)
  PROVE  (\E m \in Nat : Len(u) = 2 * m + 1) /\ Lex(string, p).sym = "id"
<1> DEFINE Odd(b) == (\E m \in Nat : Len(b) = 2 * m + 1) /\ Lex(string, p).sym = "id"
           S == {k \in Nat : \A b : IsLetters(string, p, b) /\ Len(b) <= k => Odd(b)}
<1>1. 0 \in S
  <2>1. \A b : IsLetters(string, p, b) => Len(b) \in Nat /\ Len(b) >= 1
    BY LettersAre
  <2>2. QED
    BY <2>1
<1>2. ASSUME NEW k \in Nat, k \in S
      PROVE  k + 1 \in S
  <2>1. ASSUME NEW b, IsLetters(string, p, b), Len(b) <= k + 1
        PROVE  Odd(b)
    <3>1. Len(b) \in Nat /\ Len(b) >= 1
      BY <2>1, LettersAre
    <3>2. CASE Len(b) = 1
      <4>1. Lex(string, p).sym = "id"
        BY <2>1, <3>2, LettersAre
      <4>2. Len(b) = 2 * 0 + 1
        BY <3>2
      <4>3. QED
        BY <4>1, <4>2
    <3>3. CASE Len(b) # 1
      <4>1. PICK x : IsLonger(string, p, b, x)
        BY <2>1, <3>3, LettersAre
      <4>2. IsLetters(string, p, x) /\ Len(x) = Len(b) - 2
        BY <4>1 DEF IsLonger
      <4>3. Len(x) \in Nat /\ Len(x) <= k
        BY <2>1, <3>1, <4>2, LettersAre
      <4>4. Odd(x)
        BY <1>2, <4>2, <4>3
      <4>a. PICK m \in Nat : Len(x) = 2 * m + 1
        BY <4>4
      <4>5. Len(b) = 2 * (m + 1) + 1 /\ m + 1 \in Nat
        BY <3>1, <4>2, <4>a
      <4>6. QED
        BY <4>4, <4>5
    <3>4. QED
      BY <3>2, <3>3
  <2>2. QED
    BY <2>1
<1>3. Nat \subseteq S
  <2> HIDE DEF S
  <2>1. 0 \in S /\ \A k \in Nat : k \in S => k + 1 \in S
    BY <1>1, <1>2
  <2>2. QED
    BY <2>1, Inductive
<1>4. Len(u) \in Nat /\ Len(u) <= Len(u)
  BY LettersAre
<1>5. QED
  BY <1>3, <1>4

(* Of two trees of letters one is the beginning of the other.              *)
FrontOf(string, p, a, b) == a = b \/ (Len(a) < Len(b) /\ Lex(string, p + EndOf(a)).sym = "id")

(* The shorter tree is the other one, or a letter comes behind it.         *)
LEMMA LettersBegin ==
  ASSUME NEW string, NEW p, NEW u, IsLetters(string, p, u),
         NEW v, IsLetters(string, p, v), Len(v) <= Len(u)
  PROVE  FrontOf(string, p, v, u)
<1> DEFINE I(b) == IsLetters(string, p, b)
           B(a, b) == FrontOf(string, p, a, b)
           S == {k \in Nat : \A b : I(b) /\ Len(b) = 2 * k + 1 =>
                                \A a : I(a) /\ Len(a) <= Len(b) => B(a, b)}
<1>0. \A b : I(b) => \E m \in Nat : Len(b) = 2 * m + 1
  BY LettersAreOdd
<1>1. 0 \in S
  <2>1. ASSUME NEW b, I(b), Len(b) = 1, NEW a, I(a), Len(a) <= Len(b)
        PROVE  B(a, b)
    <3>1. Len(a) = 1
      <4>1. IsLetters(string, p, a)
        BY <2>1
      <4>2. PICK n \in Nat : n = Len(a) /\ n >= 1
        BY <4>1, LettersAre
      <4>3. n <= 1
        BY <2>1, <4>2
      <4>4. n = 1
        BY <4>2, <4>3
      <4>5. QED
        BY <4>2, <4>4
    <3>2. a = <<Lex(string, p)>> /\ b = <<Lex(string, p)>>
      BY <2>1, <3>1, LettersAre
    <3>3. QED
      BY <3>2 DEF FrontOf
  <2>2. 2 * 0 + 1 = 1
    OBVIOUS
  <2> HIDE DEF I, B
  <2>3. QED
    BY <2>1, <2>2
<1>2. ASSUME NEW k \in Nat, k \in S
      PROVE  k + 1 \in S
  <2>1. ASSUME NEW b, I(b), Len(b) = 2 * (k + 1) + 1, NEW a, I(a), Len(a) <= Len(b)
        PROVE  B(a, b)
    <3>1. PICK x : IsLonger(string, p, b, x)
      <4>1. Len(b) # 1
        BY <2>1
      <4>2. QED
        BY <2>1, <4>1, LettersAre
    <3>2. I(x) /\ Len(x) = Len(b) - 2
      BY <3>1 DEF IsLonger
    <3>3. Len(x) = 2 * k + 1
      BY <2>1, <3>2
    <3>4. PICK m \in Nat : Len(a) = 2 * m + 1
      BY <1>0, <2>1
    <3>5. CASE m <= k
      <4>1. Len(a) <= Len(x)
        BY <3>3, <3>4, <3>5
      <4>2. B(a, x)
        BY <1>2, <2>1, <3>2, <3>3, <4>1
      <4>3. Lex(string, p + EndOf(x)).sym = "id"
        BY <3>1 DEF IsLonger
      <4>4. Lex(string, p + EndOf(a)).sym = "id"
        BY <4>2, <4>3 DEF FrontOf
      <4>5. Len(a) < Len(b)
        BY <2>1, <3>4, <3>5
      <4>6. QED
        BY <4>4, <4>5 DEF FrontOf
    <3>6. CASE ~(m <= k)
      <4>1. m = k + 1
        BY <2>1, <3>4, <3>6
      <4>2. Len(a) # 1 /\ Len(a) = Len(b)
        BY <2>1, <3>4, <4>1
      <4>3. PICK y : IsLonger(string, p, a, y)
        BY <2>1, <4>2, LettersAre
      <4>4. I(y) /\ Len(y) = Len(x)
        BY <3>2, <4>2, <4>3 DEF IsLonger
      <4>5. Len(y) <= Len(x)
        BY <3>3, <4>4
      <4>6. B(y, x)
        BY <1>2, <3>2, <3>3, <4>4, <4>5
      <4>7. y = x
        <5>1. ~(Len(y) < Len(x))
          BY <3>3, <4>4
        <5>2. QED
          BY <4>6, <5>1 DEF FrontOf
      <4>8. a = b
        BY <3>1, <4>3, <4>7 DEF IsLonger
      <4>9. QED
        BY <4>8 DEF FrontOf
    <3>7. QED
      BY <3>5, <3>6
  <2> HIDE DEF I, B
  <2>2. QED
    BY <2>1
<1>3. Nat \subseteq S
  <2> HIDE DEF S
  <2>1. 0 \in S /\ \A k \in Nat : k \in S => k + 1 \in S
    BY <1>1, <1>2
  <2>2. QED
    BY <2>1, Inductive
<1>4. PICK m \in Nat : Len(u) = 2 * m + 1
  BY LettersAreOdd
<1>5. m \in S
  BY <1>3
<1>6. QED
  BY <1>4, <1>5

(* A statement closed by dots, or by the end of the text.                  *)
IsClosed(string, p, u) ==
  /\ IsTreeAt(string, p, u) /\ u[1].sym = "statement"
  /\ u[Len(u)].sym \in {"dot", "dots"} \/ Lex(string, p + EndOf(u)).sym = "end"

Lone(string, p, u) ==
  Lex(string, p).sym \in {"dot", "dots"} /\ u = Node("statement", <<Lex(string, p)>>)

Ended(string, p, u, a, z) ==
  /\ IsLetters(string, p, a) /\ z = Lex(string, p + EndOf(a))
  /\ \/ z.sym = "end" /\ u = Node("statement", a)
     \/ z.sym \in {"dot", "dots"} /\ u = Node("statement", a \o <<z>>)

(* It is a dot alone, or letters with the end or a dot behind them.        *)
LEMMA ClosedIs ==
  ASSUME NEW string, NEW p, NEW u, IsClosed(string, p, u)
  PROVE  Lone(string, p, u) \/ \E a, z : Ended(string, p, u, a, z)
<1>0. /\ IsTreeAt(string, p, u) /\ u[1].sym = "statement"
      /\ u[Len(u)].sym \in {"dot", "dots"} \/ Lex(string, p + EndOf(u)).sym = "end"
  BY DEF IsClosed
<1>1. AsTree(string, p, u)
  BY <1>0, TreeIsAt
<1>2. Len(u) \in Nat /\ Len(u) >= 1 /\ Beyond(u, 1) = Len(u) + 1 /\ Formed(u, 1)
  BY <1>1 DEF AsTree
<1>3. ~Leaf(u[1])
  BY <1>0, <1>2 DEF Formed
<1>4. Len(u) # 1
  BY <1>1, <1>3 DEF AsTree
<1>5. PICK e : e = Beyond(u, 1)
  OBVIOUS
<1>6. e = Len(u) + 1 /\ e - 1 = Len(u) /\ 1 + 1 = 2
  BY <1>2, <1>5
<1>7. \/ Beyond(u, 1 + 1) = e /\ u[1 + 1].sym \in {"id", "list", "dot", "dots"}
      \/ Letters(u[1 + 1]) /\ Beyond(u, 1 + 1) = e - 1 /\ u[e - 1].sym \in {"dot", "dots"}
  BY <1>0, <1>2, <1>3, <1>5 DEF Formed
<1>8. \/ Beyond(u, 2) = Len(u) + 1 /\ u[2].sym \in {"id", "list", "dot", "dots"}
      \/ Letters(u[2]) /\ Beyond(u, 2) = Len(u) /\ u[Len(u)].sym \in {"dot", "dots"}
  BY <1>6, <1>7
<1>9. CASE Beyond(u, 2) = Len(u) + 1 /\ u[2].sym \in {"id", "list", "dot", "dots"}
  <2>1. PICK x : IsOfOne(string, p, u, x)
    BY <1>0, <1>4, <1>9, NodeOfOne
  <2>2. /\ IsTreeAt(string, p, x) /\ x[1] = u[2] /\ EndOf(u) = EndOf(x)
        /\ x[Len(x)] = u[Len(u)] /\ u = Node("statement", x)
    BY <1>0, <2>1 DEF IsOfOne
  <2>3. CASE u[2].sym \in {"dot", "dots"}
    <3>1. AsTree(string, p, x)
      BY <2>2, TreeIsAt
    <3>2. Leaf(x[1])
      BY <2>2, <2>3, <3>1 DEF AsTree, Formed
    <3>3. x = <<Lex(string, p)>> /\ x[1] = Lex(string, p)
      BY <3>1, <3>2 DEF AsTree
    <3>4. QED
      BY <2>2, <2>3, <3>3 DEF Lone
  <2>4. CASE u[2].sym \in {"id", "list"}
    <3>1. IsLetters(string, p, x)
      BY <2>2, <2>4 DEF IsLetters, Letters
    <3>2. x[Len(x)].sym = "id"
      BY <3>1, LettersAre
    <3>3. Lex(string, p + EndOf(x)).sym = "end"
      BY <1>0, <2>2, <3>2
    <3>4. QED
      BY <2>2, <3>1, <3>3 DEF Ended
  <2>5. QED
    BY <1>9, <2>3, <2>4
<1>10. CASE Letters(u[2]) /\ Beyond(u, 2) = Len(u) /\ u[Len(u)].sym \in {"dot", "dots"}
  <2>1. PICK x : IsOfTwo(string, p, u, x)
    BY <1>0, <1>4, <1>10, NodeOfTwo
  <2>2. QED
    BY <1>0, <1>10, <2>1 DEF IsOfTwo, IsLetters, Ended
<1>11. QED
  BY <1>8, <1>9, <1>10

(* The end of the text does not begin it.                                  *)
LEMMA ClosedBegins ==
  ASSUME NEW string, NEW p, NEW u, IsClosed(string, p, u)
  PROVE  Lex(string, p).sym # "end"
<1>1. CASE Lone(string, p, u)
  BY <1>1 DEF Lone
<1>2. CASE \E a, z : Ended(string, p, u, a, z)
  <2>1. PICK a, z : Ended(string, p, u, a, z)
    BY <1>2
  <2>2. IsLetters(string, p, a)
    BY <2>1 DEF Ended
  <2>3. Lex(string, p).sym = "id"
    BY <2>2, LettersAreOdd
  <2>4. QED
    BY <2>3
<1>3. QED
  BY <1>1, <1>2, ClosedIs

(* The letters of a statement are all there are up to its dot or the end.  *)
LEMMA EndedIsOne ==
  ASSUME NEW string, NEW p, NEW u, NEW a, NEW z, Ended(string, p, u, a, z),
         NEW v, NEW b, NEW y, Ended(string, p, v, b, y)
  PROVE  u = v
<1>1. IsLetters(string, p, a) /\ IsLetters(string, p, b)
  BY DEF Ended
<1>2. Len(a) \in Nat /\ Len(b) \in Nat
  BY <1>1, LettersAre
<1>3. Lex(string, p + EndOf(a)).sym # "id" /\ Lex(string, p + EndOf(b)).sym # "id"
  BY DEF Ended
<1>4. a = b
  <2>1. CASE Len(a) <= Len(b)
    <3>1. FrontOf(string, p, a, b)
      BY <1>1, <2>1, LettersBegin
    <3>2. QED
      BY <1>3, <3>1 DEF FrontOf
  <2>2. CASE Len(b) <= Len(a)
    <3>1. FrontOf(string, p, b, a)
      BY <1>1, <2>2, LettersBegin
    <3>2. QED
      BY <1>3, <3>1 DEF FrontOf
  <2>3. QED
    BY <1>2, <2>1, <2>2
<1>5. z = y
  BY <1>4 DEF Ended
<1>6. QED
  BY <1>4, <1>5 DEF Ended

(* Only one closed statement begins at a place of the text.                *)
LEMMA ClosedIsOne ==
  ASSUME NEW string, NEW p, NEW u, IsClosed(string, p, u), NEW v, IsClosed(string, p, v)
  PROVE  u = v
<1>1. \A w : Lone(string, p, w) => Lex(string, p).sym # "id"
  BY DEF Lone
<1>2. \A w, a, z : Ended(string, p, w, a, z) => Lex(string, p).sym = "id"
  BY LettersAreOdd DEF Ended
<1>3. CASE Lone(string, p, u)
  <2>1. Lone(string, p, v)
    BY <1>1, <1>2, <1>3, ClosedIs
  <2>2. QED
    BY <1>3, <2>1 DEF Lone
<1>4. CASE \E a, z : Ended(string, p, u, a, z)
  <2>1. PICK a, z : Ended(string, p, u, a, z)
    BY <1>4
  <2>2. PICK b, y : Ended(string, p, v, b, y)
    BY <1>1, <1>2, <2>1, ClosedIs
  <2>3. QED
    BY <2>1, <2>2, EndedIsOne
<1>5. QED
  BY <1>3, <1>4, ClosedIs

(* The statements of a text from p on, and its end.                        *)
Covered(t, i) ==
  \E j \in 1 .. i :
     i < Beyond(t, j) /\ (Closes(t, j) \/ (t[j].sym = "statement" /\ Beyond(t, j) = Len(t)))

IsRest(string, p, t) ==
  /\ At(string, p, t) /\ t # <<>> /\ t[Len(t)].sym = "end"
  /\ \A i \in 1 .. Len(t) - 1 : t[i].sym # "end" /\ Beyond(t, i) <= Len(t) /\ Covered(t, i)

(* A rest of the text is a stack of trees that is not empty.               *)
LEMMA RestFacts ==
  ASSUME NEW string, NEW p, NEW t, IsRest(string, p, t)
  PROVE  /\ At(string, p, t) /\ IsForest(t) /\ Len(t) \in Nat /\ Len(t) >= 1 /\ DOMAIN t = 1 .. Len(t)
         /\ \A i \in 1 .. Len(t) : Beyond(t, i) \in i + 1 .. Len(t) + 1
<1>1. At(string, p, t) /\ t # <<>>
  BY DEF IsRest
<1>2. IsForest(t) /\ Len(t) \in Nat /\ DOMAIN t = 1 .. Len(t)
  BY <1>1, AtIs
<1>3. t \in Seq(TreeNode)
  BY <1>2 DEF IsForest
<1>4. Len(t) # 0
  BY <1>1, <1>3, EmptySeq
<1>5. Len(t) >= 1
  BY <1>2, <1>4
<1>6. ASSUME NEW i \in 1 .. Len(t)
      PROVE  Beyond(t, i) \in i + 1 .. Len(t) + 1
  <2>1. i \in DOMAIN t
    BY <1>2
  <2>2. QED
    BY <1>2, <2>1, NodeFacts
<1>7. QED
  BY <1>1, <1>2, <1>5, <1>6

(* What is left of it is one token: the end.                               *)
LEMMA TokenIsOne ==
  ASSUME NEW string, NEW p, NEW t, At(string, p, t), Len(t) = 1
  PROVE  t = <<Lex(string, p)>> /\ t[1] = Lex(string, p)
<1>1. IsForest(t) /\ DOMAIN t = 1 .. 1
  BY AtIs
<1>2. 1 \in DOMAIN t
  BY <1>1
<1>3. PICK b : b = Beyond(t, 1)
  OBVIOUS
<1>4. b \in 1 + 1 .. Len(t) + 1
  BY <1>1, <1>2, <1>3, NodeFacts
<1>5. b = 2
  BY <1>4
<1>6. t # <<>> /\ Beyond(t, 1) = Len(t) + 1
  BY <1>2, <1>3, <1>5
<1>7. IsTreeAt(string, p, t)
  BY <1>1, <1>6 DEF IsTreeAt, IsTree
<1>8. AsTree(string, p, t)
  BY <1>7, TreeIsAt
<1>9. QED
  BY <1>8 DEF AsTree

(* Its first statement.                                                    *)
IsFirst(string, p, t, x, y) ==
  /\ IsClosed(string, p, x) /\ IsRest(string, p + EndOf(x), y)
  /\ t = x \o y /\ Len(y) < Len(t)

IsHead(string, p, t, N, b, x, y) ==
  /\ IsRest(string, p, t) /\ N \in Nat /\ N = Len(t)
  /\ b \in 2 .. N /\ b = Beyond(t, 1)
  /\ t[1].sym = "statement" /\ (t[b - 1].sym \in {"dot", "dots"} \/ b = N)
  /\ AreParts(string, p, t, b, x, y)

(* Its first tree is a closed statement.                                   *)
LEMMA HeadIsClosed ==
  ASSUME NEW string, NEW p, NEW t, NEW N, NEW b, NEW x, NEW y, IsHead(string, p, t, N, b, x, y)
  PROVE  IsClosed(string, p, x)
<1>1. /\ IsRest(string, p, t) /\ N \in Nat /\ N = Len(t) /\ b \in 2 .. N /\ b = Beyond(t, 1)
      /\ t[1].sym = "statement" /\ (t[b - 1].sym \in {"dot", "dots"} \/ b = N)
  BY DEF IsHead
<1>2. /\ At(string, p, x) /\ At(string, p + EndOf(x), y) /\ Len(x) = b - 1 /\ Len(y) = N - b + 1
      /\ PartsAre(t, b, x, y)
  BY <1>1 DEF IsHead, AreParts
<1>3. /\ \A k \in 1 .. b - 1 : x[k] = t[k] /\ Beyond(x, k) = Beyond(t, k)
      /\ \A k \in 1 .. N - b + 1 : y[k] = t[b + k - 1]
  BY <1>1, <1>2 DEF PartsAre
<1>4. 1 \in 1 .. b - 1 /\ b - 1 \in 1 .. b - 1
  BY <1>1
<1>5. x[1] = t[1] /\ Beyond(x, 1) = b /\ x[Len(x)] = t[b - 1]
  BY <1>1, <1>2, <1>3, <1>4
<1>6. IsTreeAt(string, p, x)
  <2>1. IsForest(x) /\ x \in Seq(TreeNode)
    BY <1>2, AtIs DEF IsForest
  <2>2. Len(x) # 0 /\ Beyond(x, 1) = Len(x) + 1
    BY <1>1, <1>2, <1>5
  <2>3. x # <<>>
    BY <2>1, <2>2, EmptySeq
  <2>4. QED
    BY <1>2, <2>1, <2>2, <2>3 DEF IsTreeAt, IsTree
<1>7. CASE b = N
  <2>0. N \in Nat /\ b = N
    BY <1>1, <1>7
  <2>a. N - b + 1 = 1 /\ 1 \in 1 .. 1 /\ b + 1 - 1 = N
    BY <2>0
  <2>1. Len(y) = 1 /\ 1 \in 1 .. N - b + 1 /\ b + 1 - 1 = N
    BY <1>2, <2>a
  <2>2. y[1] = Lex(string, p + EndOf(x))
    BY <1>2, <2>1, TokenIsOne
  <2>3. y[1] = t[Len(t)]
    BY <1>1, <1>3, <2>1
  <2>4. t[Len(t)].sym = "end"
    BY <1>1 DEF IsRest
  <2>5. QED
    BY <1>1, <1>5, <1>6, <2>2, <2>3, <2>4 DEF IsClosed
<1>8. CASE t[b - 1].sym \in {"dot", "dots"}
  BY <1>1, <1>5, <1>6, <1>8 DEF IsClosed
<1>9. QED
  BY <1>1, <1>7, <1>8

(* What comes behind its first statement is the rest of the text from      *)
(* there on.                                                               *)
LEMMA TailIsRest ==
  ASSUME NEW string, NEW p, NEW t, NEW N, NEW b, NEW x, NEW y, IsHead(string, p, t, N, b, x, y)
  PROVE  IsRest(string, p + EndOf(x), y)
<1>1. /\ IsRest(string, p, t) /\ N \in Nat /\ N = Len(t) /\ b \in 2 .. N /\ b = Beyond(t, 1)
  BY DEF IsHead
<1>2. At(string, p + EndOf(x), y) /\ Len(y) = N - b + 1 /\ PartsAre(t, b, x, y)
  BY <1>1 DEF IsHead, AreParts
<1>3. \A k \in 1 .. N - b + 1 :
         y[k] = t[b + k - 1] /\ Beyond(y, k) = Beyond(t, b + k - 1) - (b - 1)
  BY <1>1, <1>2 DEF PartsAre
<1>4. IsForest(t) /\ \A i \in 1 .. N : Beyond(t, i) \in i + 1 .. N + 1
  BY <1>1, RestFacts
<1>5. \A j \in 1 .. b - 1 : Beyond(t, j) <= b
  <2> TAKE j \in 1 .. b - 1
  <2>1. CASE j = 1
    BY <1>1, <2>1
  <2>2. CASE j # 1
    <3>1. j \in Below(t, 1)
      BY <1>1, <2>2 DEF Below
    <3>2. 1 \in DOMAIN t
      BY <1>1, RestFacts
    <3>3. Beyond(t, j) <= Beyond(t, 1)
      BY <1>4, <3>1, <3>2 DEF IsForest
    <3>4. QED
      BY <1>1, <3>3
  <2>3. QED
    BY <2>1, <2>2
<1>6. y # <<>> /\ y[Len(y)].sym = "end"
  <2>1. N - b + 1 \in 1 .. N - b + 1 /\ b + (N - b + 1) - 1 = N
    BY <1>1
  <2>2. y[Len(y)] = t[N]
    BY <1>2, <1>3, <2>1
  <2>3. y \in Seq(TreeNode) /\ Len(y) # 0
    BY <1>1, <1>2, AtIs DEF IsForest
  <2>4. y # <<>>
    BY <2>3, EmptySeq
  <2>5. QED
    BY <1>1, <2>2, <2>4 DEF IsRest
<1>7. ASSUME NEW i \in 1 .. Len(y) - 1
      PROVE  y[i].sym # "end" /\ Beyond(y, i) <= Len(y) /\ Covered(y, i)
  <2>0. b \in 2 .. N /\ N \in Nat /\ i \in 1 .. N - b
    <3>1. b \in 2 .. N /\ N \in Nat
      BY <1>1
    <3>2. Len(y) - 1 = N - b
      BY <1>2, <3>1
    <3>3. QED
      BY <1>7, <3>1, <3>2
  <2>1. PICK k \in b .. N - 1 : k = b + i - 1
    BY <2>0
  <2>2. i \in 1 .. N - b + 1 /\ k \in 1 .. N - 1 /\ i = k - b + 1
    <3>1. b \in Nat /\ N \in Nat /\ i \in Nat /\ i >= 1 /\ b >= 2 /\ i <= N - b
      BY <2>0
    <3>2. k = b + i - 1
      BY <2>1
    <3>3. QED
      BY <3>1, <3>2
  <2>3. t[k].sym # "end" /\ Beyond(t, k) <= N /\ Covered(t, k)
    BY <1>1, <2>2 DEF IsRest
  <2>4. y[i] = t[k] /\ Beyond(y, i) = Beyond(t, k) - (b - 1)
    BY <1>3, <2>1, <2>2
  <2>5. PICK j \in 1 .. k :
           k < Beyond(t, j) /\ (Closes(t, j) \/ (t[j].sym = "statement" /\ Beyond(t, j) = N))
    BY <1>1, <2>3 DEF Covered
  <2>6. PICK c \in j + 1 .. N + 1 : c = Beyond(t, j)
    <3>1. j \in 1 .. N
      BY <1>1, <2>1
    <3>2. QED
      BY <1>4, <3>1
  <2>7. j >= b
    <3>1. SUFFICES ASSUME j \in 1 .. b - 1
                   PROVE  FALSE
      BY <1>1, <2>1
    <3>2. c <= b
      BY <1>5, <2>6, <3>1
    <3>3. QED
      BY <1>1, <2>1, <2>5, <2>6, <3>2
  <2>c. N \in Nat /\ b \in Nat
    BY <1>1
  <2>d. k \in Nat /\ k <= N - 1
    BY <2>1, <2>c
  <2>e. i \in Nat /\ i = k - b + 1
    BY <2>2, <2>c
  <2>a. N \in Nat /\ b \in Nat /\ k \in Nat /\ i \in Nat /\ i = k - b + 1 /\ k <= N - 1
    BY <2>c, <2>d, <2>e
  <2>b. j \in Nat /\ j <= k /\ j >= b
    BY <2>a, <2>7
  <2>8. PICK h \in 1 .. i : h = j - b + 1
    BY <2>a, <2>b
  <2>9. h \in 1 .. N - b + 1 /\ b + h - 1 = j
    BY <2>a, <2>8, <2>b
  <2>10. y[h] = t[j] /\ Beyond(y, h) = c - (b - 1)
    BY <1>3, <2>6, <2>9
  <2>11. i < Beyond(y, h)
    <3>1. k < c /\ c \in Nat
      BY <2>a, <2>b, <2>5, <2>6
    <3>2. i < c - (b - 1)
      BY <2>a, <3>1
    <3>3. QED
      BY <2>10, <3>2
  <2>12. ASSUME Closes(t, j)
         PROVE  Closes(y, h)
    <3>1. PICK g \in 1 .. N - b + 1 : g = Beyond(y, h) - 1 /\ b + g - 1 = c - 1
      <4>1. c - b \in 1 .. N - b + 1 /\ b + (c - b) - 1 = c - 1 /\ c - (b - 1) - 1 = c - b
        BY <1>1, <2>6, <2>7
      <4>2. QED
        BY <2>10, <4>1
    <3>2. y[g] = t[c - 1]
      BY <1>3, <3>1
    <3>3. t[c - 1].sym \in {"dot", "dots"} /\ t[j].sym = "statement"
      BY <2>6, <2>12 DEF Closes
    <3>4. QED
      BY <2>10, <3>1, <3>2, <3>3 DEF Closes
  <2>13. ASSUME t[j].sym = "statement", c = N
         PROVE  y[h].sym = "statement" /\ Beyond(y, h) = Len(y)
    BY <1>1, <1>2, <2>10, <2>13
  <2>14. Covered(y, i)
    BY <2>5, <2>6, <2>8, <2>11, <2>12, <2>13 DEF Covered
  <2>15. Beyond(y, i) <= Len(y)
    <3>1. PICK d \in Nat : d = Beyond(t, k) /\ d <= N
      <4>1. Beyond(t, k) \in k + 1 .. N + 1
        <5>1. k \in 1 .. N
          BY <2>a, <2>2
        <5>2. QED
          BY <1>4, <5>1
      <4>2. QED
        BY <2>3, <4>1
    <3>2. QED
      BY <1>1, <1>2, <2>4, <3>1
  <2>16. QED
    BY <2>3, <2>4, <2>14, <2>15
<1>8. QED
  BY <1>2, <1>6, <1>7 DEF IsRest

(* It is the end alone, or a closed statement and the rest behind it.      *)
LEMMA RestIs ==
  ASSUME NEW string, NEW p, NEW t, IsRest(string, p, t)
  PROVE  /\ Len(t) \in Nat /\ Len(t) >= 1
         /\ Len(t) = 1 => t = <<Lex(string, p)>> /\ Lex(string, p).sym = "end"
         /\ Len(t) # 1 => \E x, y : IsFirst(string, p, t, x, y)
<1>1. PICK N \in Nat : N = Len(t) /\ N >= 1
  BY RestFacts
<1>2. At(string, p, t) /\ IsForest(t) /\ \A i \in 1 .. N : Beyond(t, i) \in i + 1 .. N + 1
  BY <1>1, RestFacts
<1>3. ASSUME Len(t) = 1
      PROVE  t = <<Lex(string, p)>> /\ Lex(string, p).sym = "end"
  <2>1. t = <<Lex(string, p)>> /\ t[1] = Lex(string, p)
    BY <1>2, <1>3, TokenIsOne
  <2>2. t[1].sym = "end"
    BY <1>3 DEF IsRest
  <2>3. QED
    BY <2>1, <2>2
<1>4. ASSUME Len(t) # 1
      PROVE  \E x, y : IsFirst(string, p, t, x, y)
  <2>1. 1 \in 1 .. Len(t) - 1 /\ 1 \in 1 .. N
    BY <1>1, <1>4
  <2>2. Beyond(t, 1) <= Len(t) /\ Covered(t, 1)
    BY <2>1 DEF IsRest
  <2>3. PICK b \in 2 .. N : b = Beyond(t, 1)
    <3>1. Beyond(t, 1) \in 1 + 1 .. N + 1
      BY <1>2, <2>1
    <3>2. QED
      BY <1>1, <2>2, <3>1
  <2>4. t[1].sym = "statement" /\ (t[b - 1].sym \in {"dot", "dots"} \/ b = N)
    <3>1. PICK j \in 1 .. 1 : Closes(t, j) \/ (t[j].sym = "statement" /\ Beyond(t, j) = Len(t))
      BY <2>2 DEF Covered
    <3>2. j = 1
      BY <3>1
    <3>3. QED
      BY <1>1, <2>3, <3>1, <3>2 DEF Closes
  <2>5. IsCut(t, b)
    <3>1. ASSUME NEW k \in 1 .. b - 1
          PROVE  Beyond(t, k) <= b
      <4>1. CASE k = 1
        BY <2>3, <4>1
      <4>2. CASE k # 1
        <5>1. k \in Below(t, 1)
          BY <2>3, <4>2 DEF Below
        <5>2. 1 \in DOMAIN t
          BY <1>1, <2>1, RestFacts
        <5>3. Beyond(t, k) <= Beyond(t, 1)
          BY <1>2, <5>1, <5>2 DEF IsForest
        <5>4. QED
          BY <2>3, <5>3
      <4>3. QED
        BY <4>1, <4>2
    <3>2. b \in 1 .. Len(t) + 1
      BY <1>1, <2>3
    <3>3. QED
      BY <3>1, <3>2 DEF IsCut
  <2>6. PICK x, y : x = SubSeq(t, 1, b - 1) /\ y = SubSeq(t, b, Len(t))
    OBVIOUS
  <2>7. IsSplit(string, p, t, b, x, y)
    BY <1>2, <2>5, <2>6 DEF IsSplit
  <2>8. AreParts(string, p, t, b, x, y)
    BY <2>7, AtSplit
  <2>9. IsHead(string, p, t, N, b, x, y)
    BY <1>1, <2>3, <2>4, <2>8 DEF IsHead
  <2>10. IsClosed(string, p, x) /\ IsRest(string, p + EndOf(x), y)
    BY <2>9, HeadIsClosed, TailIsRest
  <2>11. t = x \o y /\ Len(y) = Len(t) - b + 1
    BY <2>8 DEF AreParts
  <2>12. Len(y) < Len(t)
    <3>1. b \in 2 .. N
      OBVIOUS
    <3>2. N - b + 1 < N
      BY <3>1
    <3>3. QED
      BY <1>1, <2>11, <3>2
  <2>13. QED
    BY <2>10, <2>11, <2>12 DEF IsFirst
<1>5. QED
  BY <1>1, <1>3, <1>4

(* Only one rest of the text begins at a place of it.                      *)
LEMMA RestIsOne ==
  ASSUME NEW string, NEW p, NEW s, IsRest(string, p, s), NEW t, IsRest(string, p, t)
  PROVE  s = t
<1> DEFINE R(q, u) == IsRest(string, q, u)
           S == {k \in Nat : \A u : Len(u) <= k => \A q, v : R(q, u) /\ R(q, v) => u = v}
<1>1. 0 \in S
  <2>1. \A q, u : R(q, u) => Len(u) \in Nat /\ Len(u) >= 1
    BY RestIs
  <2>2. \A q, u : Len(u) <= 0 => ~R(q, u)
    <3> TAKE q, u
    <3>1. R(q, u) => Len(u) \in Nat /\ Len(u) >= 1
      BY <2>1
    <3>2. QED
      BY <3>1
  <2> HIDE DEF R
  <2>3. QED
    BY <2>2
<1>2. ASSUME NEW k \in Nat, k \in S
      PROVE  k + 1 \in S
  <2>1. ASSUME NEW u, Len(u) <= k + 1, NEW q, NEW v, R(q, u), R(q, v)
        PROVE  u = v
    <3>1. PICK m \in Nat : m = Len(u)
      BY <2>1, RestIs
    <3>2. PICK n \in Nat : n = Len(v)
      BY <2>1, RestIs
    <3>3. \A x : IsClosed(string, q, x) => Lex(string, q).sym # "end"
      BY ClosedBegins
    <3>4. CASE m = 1
      <4>1. u = <<Lex(string, q)>> /\ Lex(string, q).sym = "end"
        BY <2>1, <3>1, <3>4, RestIs
      <4>2. n = 1
        <5>1. SUFFICES ASSUME n # 1
                       PROVE  FALSE
          OBVIOUS
        <5>2. PICK x, y : IsFirst(string, q, v, x, y)
          BY <2>1, <3>2, <5>1, RestIs
        <5>3. QED
          BY <3>3, <4>1, <5>2 DEF IsFirst
      <4>3. v = <<Lex(string, q)>>
        BY <2>1, <3>2, <4>2, RestIs
      <4>4. QED
        BY <4>1, <4>3
    <3>5. CASE m # 1
      <4>1. PICK x, y : IsFirst(string, q, u, x, y)
        BY <2>1, <3>1, <3>5, RestIs
      <4>2. IsClosed(string, q, x) /\ R(q + EndOf(x), y) /\ u = x \o y /\ Len(y) < Len(u)
        BY <4>1 DEF IsFirst
      <4>3. n # 1
        <5>1. SUFFICES ASSUME n = 1
                       PROVE  FALSE
          OBVIOUS
        <5>2. Lex(string, q).sym = "end"
          BY <2>1, <3>2, <5>1, RestIs
        <5>3. QED
          BY <3>3, <4>2, <5>2
      <4>4. PICK a, b : IsFirst(string, q, v, a, b)
        BY <2>1, <3>2, <4>3, RestIs
      <4>5. IsClosed(string, q, a) /\ R(q + EndOf(a), b) /\ v = a \o b
        BY <4>4 DEF IsFirst
      <4>6. a = x
        BY <4>2, <4>5, ClosedIsOne
      <4>7. Len(y) <= k
        <5>1. PICK l \in Nat : l = Len(y)
          BY <4>2, RestIs
        <5>2. l < m /\ m <= k + 1
          BY <2>1, <3>1, <4>2, <5>1
        <5>3. l <= k
          BY <5>2
        <5>4. QED
          BY <5>1, <5>3
      <4>8. y = b
        <5>1. \A w, g, h : Len(g) <= k /\ R(w, g) /\ R(w, h) => g = h
          BY <1>2
        <5> HIDE DEF R
        <5>2. QED
          BY <4>2, <4>5, <4>6, <4>7, <5>1
      <4>9. QED
        BY <4>2, <4>5, <4>6, <4>8
    <3>6. QED
      BY <3>4, <3>5
  <2> HIDE DEF R
  <2>2. QED
    BY <2>1
<1>3. Nat \subseteq S
  <2> HIDE DEF S
  <2>1. 0 \in S /\ \A k \in Nat : k \in S => k + 1 \in S
    BY <1>1, <1>2
  <2>2. QED
    BY <2>1, Inductive
<1>4. PICK k \in Nat : k = Len(s)
  BY RestIs
<1>5. k \in S /\ Len(s) <= k
  BY <1>3, <1>4
<1>6. QED
  BY <1>5

(* The children of a whole tree.                                           *)
IsWholeTree(string, t) == IsText(string) /\ SoundTree(string, t) /\ Canonical(t)

(* They are the statements of the text and its end.                        *)
LEMMA WholeTreeIs ==
  ASSUME NEW string, NEW t, IsWholeTree(string, t)
  PROVE  \E u : IsRest(string, 0, u) /\ t = Node("program", u)
<1>1. /\ IsText(string) /\ Canonical(t) /\ IsTree(t) /\ t[1].sym = "program" /\ Ends(t)
      /\ Measured(t, Pos(t)) /\ Pos(t)[Len(t) + 1] = Len(string)
      /\ \A i \in DOMAIN t : Whole(string, 0, t, Pos(t), i)
  BY DEF IsWholeTree, SoundTree, Fits, IsSyntaxTree, Intact
<1>2. PICK N \in Nat : N = Len(t) /\ N >= 2 /\ DOMAIN t = 1 .. N
  <2>1. IsForest(t) /\ Len(t) \in Nat /\ DOMAIN t = 1 .. Len(t)
    BY <1>1 DEF IsTree, IsForest
  <2>2. Len(t) >= 2
    BY <1>1 DEF Ends
  <2>3. QED
    BY <2>1, <2>2
<1>3. /\ t[N].sym = "end" /\ \A i \in 1 .. N : Formed(t, i)
      /\ \A i \in 2 .. N - 1 : Beyond(t, i) <= N /\ t[i].sym # "end" /\ t[i].sym # "program"
  BY <1>1, <1>2 DEF Ends
<1>4. Len(string) \in Nat
  BY <1>1 DEF IsText
<1>5. Sound(string, 0, t, Pos(t))
  <2>1. 0 + Pos(t)[Len(t) + 1] <= Len(string)
    BY <1>1, <1>4
  <2>2. QED
    BY <1>1, <2>1 DEF Sound
<1>6. ~Leaf(t[1])
  <2>1. Beyond(t, 1) = N + 1
    BY <1>1, <1>2 DEF IsTree
  <2>2. 1 \in DOMAIN t /\ IsForest(t)
    BY <1>1, <1>2 DEF IsTree
  <2>3. t[1].node_count \in Nat
    BY <2>2, NodeFacts
  <2>4. QED
    BY <1>2, <2>1, <2>3 DEF Beyond, Leaf
<1>7. PICK u : u = Inner(t, 1)
  OBVIOUS
<1>8. PICK p \in Nat : p = 0
  OBVIOUS
<1>9. IsOver(string, p, t, u)
  <2>1. ASSUME NEW i \in 2 .. Len(t)
        PROVE  Formed(t, i) /\ t[i].sym # "program"
    <3>1. CASE i = N
      BY <1>2, <1>3, <3>1
    <3>2. CASE i # N
      BY <1>2, <1>3, <3>2
    <3>3. QED
      BY <3>1, <3>2
  <2>2. QED
    BY <1>1, <1>5, <1>6, <1>7, <1>8, <2>1 DEF IsOver
<1>10. At(string, p, u) /\ Len(u) = N - 1 /\ t = Node(t[1].sym, u) /\ u # <<>>
  BY <1>2, <1>9, AtInner
<1>11. \A k \in 1 .. N - 1 : u[k] = t[k + 1] /\ Beyond(u, k) = Beyond(t, k + 1) - 1
  BY <1>2, <1>9, AtInner
<1>12. u[Len(u)].sym = "end"
  <2>1. N - 1 \in 1 .. N - 1 /\ N - 1 + 1 = N
    BY <1>2
  <2>2. QED
    BY <1>3, <1>10, <1>11, <2>1
<1>13. \A i \in 1 .. N : Beyond(t, i) \in i + 1 .. N + 1
  <2> TAKE i \in 1 .. N
  <2>1. i \in DOMAIN t /\ IsForest(t)
    BY <1>1, <1>2 DEF IsTree
  <2>2. QED
    BY <1>2, <2>1, NodeFacts
<1>14. ASSUME NEW k \in 1 .. Len(u) - 1
       PROVE  u[k].sym # "end" /\ Beyond(u, k) <= Len(u) /\ Covered(u, k)
  <2>1. PICK i \in 2 .. N - 1 : i = k + 1
    BY <1>2, <1>10
  <2>2. k \in Nat /\ i \in Nat /\ k \in 1 .. N - 1 /\ i \in 1 .. N
    BY <1>2, <1>10, <2>1
  <2>3. u[k] = t[i] /\ Beyond(u, k) = Beyond(t, i) - 1 /\ t[i].sym # "end" /\ Beyond(t, i) <= N
    BY <1>3, <1>11, <2>1, <2>2
  <2>4. PICK j \in 2 .. i :
           i < Beyond(t, j) /\ (Closes(t, j) \/ (t[j].sym = "statement" /\ Beyond(t, j) = N))
    BY <1>1, <1>2 DEF Canonical
  <2>5. PICK c \in j + 1 .. N + 1 : c = Beyond(t, j)
    <3>1. j \in 1 .. N
      BY <2>2
    <3>2. QED
      BY <1>13, <3>1
  <2>6. PICK h \in 1 .. k : j = h + 1
    <3>1. j - 1 \in 1 .. k /\ j = (j - 1) + 1
      BY <2>1, <2>2
    <3>2. QED
      BY <3>1
  <2>7. h \in 1 .. N - 1 /\ h \in Nat
    BY <2>2, <2>6
  <2>8. u[h] = t[j] /\ Beyond(u, h) = c - 1
    BY <1>11, <2>5, <2>6, <2>7
  <2>9. c \in Nat /\ i < c /\ c >= h + 2 /\ c <= N + 1
    BY <1>2, <2>2, <2>4, <2>5, <2>6
  <2>10. k < Beyond(u, h)
    <3>1. k < c - 1
      BY <2>1, <2>2, <2>9
    <3>2. QED
      BY <2>8, <3>1
  <2>11. ASSUME Closes(t, j)
         PROVE  Closes(u, h)
    <3>1. PICK g \in 1 .. N - 1 : g = c - 1 - 1 /\ g + 1 = c - 1
      <4>1. c - 2 \in 1 .. N - 1 /\ c - 2 = c - 1 - 1 /\ c - 2 + 1 = c - 1
        BY <1>2, <2>7, <2>9
      <4>2. QED
        BY <4>1
    <3>2. u[g] = t[c - 1]
      BY <1>11, <3>1
    <3>3. t[c - 1].sym \in {"dot", "dots"} /\ t[j].sym = "statement"
      BY <2>5, <2>11 DEF Closes
    <3>4. QED
      BY <2>8, <3>1, <3>2, <3>3 DEF Closes
  <2>12. ASSUME t[j].sym = "statement", c = N
         PROVE  u[h].sym = "statement" /\ Beyond(u, h) = Len(u)
    BY <1>10, <2>8, <2>12
  <2>13. Covered(u, k)
    BY <2>4, <2>5, <2>6, <2>10, <2>11, <2>12 DEF Covered
  <2>14. Beyond(u, k) <= Len(u)
    <3>1. PICK d \in Nat : d = Beyond(t, i) /\ d <= N
      <4>1. Beyond(t, i) \in i + 1 .. N + 1
        BY <1>13, <2>2
      <4>2. QED
        BY <1>2, <2>2, <2>3, <4>1
    <3>2. QED
      BY <1>2, <1>10, <2>3, <3>1
  <2>15. QED
    BY <2>3, <2>13, <2>14
<1>15. IsRest(string, p, u)
  BY <1>10, <1>12, <1>14 DEF IsRest
<1>16. QED
  BY <1>1, <1>8, <1>10, <1>15

(* There is only one whole tree of a text.                                 *)
LEMMA WholeTreeIsOne ==
  ASSUME NEW string, NEW s, IsWholeTree(string, s), NEW t, IsWholeTree(string, t)
  PROVE  s = t
<1>1. PICK u : IsRest(string, 0, u) /\ s = Node("program", u)
  BY WholeTreeIs
<1>2. PICK v : IsRest(string, 0, v) /\ t = Node("program", v)
  BY WholeTreeIs
<1>3. PICK p : p = 0
  OBVIOUS
<1>4. IsRest(string, p, u) /\ IsRest(string, p, v)
  BY <1>1, <1>2, <1>3
<1>5. u = v
  BY <1>4, RestIsOne
<1>6. QED
  BY <1>1, <1>2, <1>5

(* A first parse of a text gives its whole tree.                           *)
LEMMA FreshIsWhole ==
  ASSUME NEW string \in Texts
  PROVE  IsWholeTree(string, Fresh(string).root)
<1>1. Len(NoTree.root) = 1 /\ IsText(string)
  BY TextsAre DEF NoTree
<1>2. Usable(string, NoTree.root)
  BY <1>1, NoTreeIsTree DEF Usable
<1>3. Len(NoTree.root) > 1 => Canonical(NoTree.root)
  BY <1>1
<1>4. PICK old : old = NoTree
  OBVIOUS
<1>5. PICK r : r = ts_parser_parse(string, old).root
  OBVIOUS
<1>6. Canonical(r)
  BY <1>2, <1>3, <1>4, <1>5, ParsedIsCanonical
<1>7. SoundTree(string, r)
  BY <1>2, <1>4, <1>5, ParsedIsSound
<1>8. QED
  BY <1>1, <1>4, <1>5, <1>6, <1>7 DEF Fresh, IsWholeTree

(* The statements of a tree keep their ends when it is edited.             *)
LEMMA EditCanonical ==
  ASSUME NEW t, IsForest(t), Canonical(t), NEW e \in Edits, NEW u, u = ts_subtree_edit(t, e)
  PROVE  Canonical(u)
<1>1. PICK N \in Nat : N = Len(t)
  BY DEF IsForest
<1>2. Len(u) = N /\ \A j \in 1 .. N : u[j].sym = t[j].sym /\ Beyond(u, j) = Beyond(t, j)
  BY <1>1, EditIs
<1>3. \A i \in 1 .. N : Beyond(t, i) \in i + 1 .. N + 1
  <2> TAKE i \in 1 .. N
  <2>1. i \in DOMAIN t
    BY <1>1 DEF IsForest
  <2>2. QED
    BY <1>1, <2>1, NodeFacts
<1>4. ASSUME NEW i \in 2 .. N - 1
      PROVE  \E j \in 2 .. i :
               i < Beyond(u, j) /\ (Closes(u, j) \/ (u[j].sym = "statement" /\ Beyond(u, j) = N))
  <2>1. PICK j \in 2 .. i :
           i < Beyond(t, j) /\ (Closes(t, j) \/ (t[j].sym = "statement" /\ Beyond(t, j) = N))
    BY <1>1 DEF Canonical
  <2>2. j \in 1 .. N
    BY <1>1
  <2>3. PICK c \in 1 .. N : Beyond(t, j) - 1 = c
    <3>1. PICK b \in j + 1 .. N + 1 : b = Beyond(t, j)
      BY <1>3, <2>2
    <3>2. b - 1 \in 1 .. N
      BY <1>1, <2>2, <3>1
    <3>3. QED
      BY <3>1, <3>2
  <2>4. u[j].sym = t[j].sym /\ Beyond(u, j) = Beyond(t, j) /\ u[c].sym = t[c].sym
    BY <1>2, <2>2, <2>3
  <2>5. Closes(u, j) <=> Closes(t, j)
    BY <2>3, <2>4 DEF Closes
  <2>6. QED
    BY <2>1, <2>4, <2>5
<1>5. QED
  BY <1>1, <1>2, <1>4 DEF Canonical

(* The statements of the tree are closed, in an edited one as in the tree  *)
(* it was.                                                                 *)
TreeIsCanonical == tree.state = "known" => Canonical(tree.root)

(* Every step keeps them closed.                                           *)
LEMMA CanonicalIsKept ==
  ASSUME TypeOK, Follows, TreeIsCanonical, [Next]_vars
  PROVE  TreeIsCanonical'
<1>1. /\ text \in Texts
      /\ events \in Seq(Events) /\ update \in Seq(Events)
      /\ IsTree(tree.root)
  BY DEF TypeOK
<1>2. ASSUME tree'.state # "known"
      PROVE  TreeIsCanonical'
  BY <1>2 DEF TreeIsCanonical
<1>3. Unknown.state = "unknown"
  BY DEF Unknown, NotCreated
<1>4. \A t : Known(t).state = "known" /\ Known(t).root = t.root
  BY DEF Known
<1>5. ASSUME tree' = tree
      PROVE  TreeIsCanonical'
  BY <1>5 DEF TreeIsCanonical
<1>6. CASE Edit
  BY <1>5, <1>6 DEF Edit
<1>7. CASE Read
  <2>1. tree' = IF events = <<>> THEN Known(Fresh(text)) ELSE Unknown
    BY <1>7 DEF Read
  <2>2. CASE events # <<>>
    BY <1>2, <1>3, <2>1, <2>2
  <2>3. CASE events = <<>>
    <3>1. tree'.root = Fresh(text).root
      BY <1>4, <2>1, <2>3
    <3>2. QED
      BY <1>1, <3>1, FreshIsWhole DEF TreeIsCanonical, IsWholeTree
  <2>4. QED
    BY <2>2, <2>3
<1>8. CASE ContentTypeChanged
  BY <1>2, <1>3, <1>8 DEF ContentTypeChanged
<1>9. CASE BeginUpdate
  BY <1>5, <1>9 DEF BeginUpdate
<1>10. CASE EditTree
  <2>1. PICK event \in Events : event = update[1]
    <3>1. update # <<>>
      BY <1>10 DEF EditTree
    <3>2. QED
      BY <1>1, <3>1
  <2>2. PICK c \in Changes : c = Head(event.changes)
    <3>1. event.changes \in Seq(Changes) /\ event.changes # <<>>
      BY <1>10, <2>1 DEF Events, EditTree
    <3>2. QED
      BY <3>1, HeadTailProperties
  <2>3. CASE Throws(c)
    BY <1>2, <1>3, <1>10, <2>1, <2>2, <2>3 DEF EditTree
  <2>4. CASE ~Throws(c)
    <3>1. tree' = IF tree.state = "known" THEN Known(ts_tree_edit(tree, InputEdit(c))) ELSE tree
      BY <1>10, <2>1, <2>2, <2>4 DEF EditTree
    <3>2. CASE tree.state # "known"
      BY <1>2, <3>1, <3>2
    <3>3. CASE tree.state = "known"
      <4>1. PICK e \in Edits : e = InputEdit(c)
        BY InputEditTyped
      <4>2. tree'.root = ts_subtree_edit(tree.root, e)
        BY <1>4, <3>1, <3>3, <4>1 DEF ts_tree_edit
      <4>3. Canonical(tree.root) /\ IsForest(tree.root)
        BY <1>1, <3>3 DEF TreeIsCanonical, IsTree
      <4>4. Canonical(tree'.root)
        BY <4>1, <4>2, <4>3, EditCanonical
      <4>5. QED
        BY <4>4 DEF TreeIsCanonical
    <3>4. QED
      BY <3>2, <3>3
  <2>5. QED
    BY <2>3, <2>4
<1>11. CASE Reparse
  <2>1. /\ update # <<>> /\ update[1].changes = <<>>
        /\ tree' = IF tree.state = "known" THEN Known(ts_parser_parse(update[1].after, tree)) ELSE tree
    BY <1>11 DEF Reparse
  <2>2. CASE tree.state # "known"
    BY <1>2, <2>1, <2>2
  <2>3. CASE tree.state = "known"
    <3>1. PICK after : after = update[1].after
      OBVIOUS
    <3>2. Usable(after, tree.root)
      BY <2>1, <2>3, <3>1, EditedIs
    <3>3. Canonical(tree.root)
      BY <2>3 DEF TreeIsCanonical
    <3>4. Canonical(ts_parser_parse(after, tree).root)
      BY <3>2, <3>3, ParsedIsCanonical
    <3>5. tree'.root = ts_parser_parse(after, tree).root
      BY <1>4, <2>1, <2>3, <3>1
    <3>6. QED
      BY <3>4, <3>5 DEF TreeIsCanonical
  <2>4. QED
    BY <2>2, <2>3
<1>12. CASE UNCHANGED vars
  BY <1>5, <1>12 DEF vars
<1>13. QED
  BY <1>6, <1>7, <1>8, <1>9, <1>10, <1>11, <1>12 DEF Next

(* There is only one tree of the shape of a whole tree for a text.         *)
LEMMA TreeIsFresh == TypeOK /\ Follows /\ TreeIsCanonical => TreeIsOfTheText
<1> SUFFICES ASSUME TypeOK, Follows, TreeIsCanonical,
                    tree.state = "known", update = <<>>, events = <<>>
             PROVE  tree.root = Fresh(text).root
  BY DEF TreeIsOfTheText
<1>1. PICK before \in Texts : SoundTree(before, tree.root) /\ Leads(before, events, text)
  BY DEF Follows
<1>2. before = text
  BY <1>1 DEF Leads
<1>3. IsWholeTree(text, tree.root)
  BY <1>1, <1>2, TextsAre DEF IsWholeTree, TreeIsCanonical
<1>4. IsWholeTree(text, Fresh(text).root)
  BY <1>1, <1>2, FreshIsWhole
<1>5. QED
  BY <1>3, <1>4, WholeTreeIsOne

(* Once every change is handled, the tree is the one a first parse of the  *)
(* text would give, rows included, although it was put together from the   *)
(* nodes of earlier trees, provided a change of the buffer changes one     *)
(* place.                                                                  *)
THEOREM ReparsedTreeIsOfTheText ==
  ASSUME MaxChanges = 1
  PROVE  Spec => []TreeIsOfTheText
<1>1. TypeOK /\ Follows /\ [Next]_vars => Follows'
  BY FollowsIsKept
<1>2. TypeOK /\ Follows /\ TreeIsCanonical /\ [Next]_vars => TreeIsCanonical'
  BY CanonicalIsKept
<1>3. Init => TreeIsCanonical
  BY DEF Init, NotCreated, TreeIsCanonical
<1>4. Spec => []Follows
  BY <1>1, FollowsInitially, TypeCorrect, PTL DEF Spec
<1>5. Spec => []TreeIsCanonical
  BY <1>2, <1>3, <1>4, TypeCorrect, PTL DEF Spec
<1>6. QED
  BY <1>4, <1>5, TypeCorrect, TreeIsFresh, PTL
=============================================================================
