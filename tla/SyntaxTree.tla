----------------------------- MODULE SyntaxTree -----------------------------
(***************************************************************************)
(* The part of the tree-sitter runtime that keeps a syntax tree while its  *)
(* text is edited: ts_tree_edit marks and reshapes the nodes an edit       *)
(* touches (subtree.c, tree.c), ts_parser_parse builds the tree of the new *)
(* text out of the nodes that are left unmarked (parser_definition.c,      *)
(* reusable_node.h, stack.c).                                              *)
(*                                                                         *)
(* The generated lexer and parse table of Squirrel are replaced by those   *)
(* of a language that has what makes reuse hard: a token of any length, a  *)
(* token whose lexer reads two characters too far, blanks with newlines,   *)
(* nodes without a closing token, hidden nodes.  It accepts every text, so *)
(* there are no error nodes and one stack version.  A text is a sequence   *)
(* of "a" (letter), "." (a dot; three of them are one token) and "n"       *)
(* (newline, the only blank).  A statement is letters closed by dots, by   *)
(* a dot, or by the end of the text.                                       *)
(*                                                                         *)
(* A position counts bytes and rows.  Columns, aliases and                 *)
(* ts_subtree_balance, which only rearranges hidden nodes, are left out;   *)
(* Squirrel's grammar has no external tokens.                              *)
(*                                                                         *)
(* A tree, or a stack of trees, is the sequence of its nodes from the top  *)
(* down and from left to right.  A node knows how many nodes its subtree   *)
(* has, so the nodes below the i-th follow it.                             *)
(***************************************************************************)
EXTENDS Integers, Sequences, FiniteSetsExt

(***************************************************************************)
(* Lengths.  The code's 32 bits wrap; TLC's integers have 32 bits, so the  *)
(* model wraps at Width.                                                   *)
(***************************************************************************)
Width == 65536

Lengths == [b : 0 .. Width - 1, r : Nat]

Zero == [b |-> 0, r |-> 0]

length_add(x, y) == [b |-> (x.b + y.b) % Width, r |-> x.r + y.r]

length_sub(x, y) == [b |-> (x.b - y.b) % Width,
                     r |-> IF x.r > y.r THEN x.r - y.r ELSE 0]

(***************************************************************************)
(* Texts.                                                                  *)
(***************************************************************************)
Characters == {"a", ".", "n"}

Character(text, p) == IF p < Len(text) THEN text[p + 1] ELSE "eof"

Smaller(x, y) == IF x < y THEN x ELSE y

RowsIn(text, p, q) == Cardinality({i \in p .. q - 1 : Character(text, i) = "n"})

\* The first position from p on whose character is not ch.
Past(text, p, ch) ==
    IF Character(text, p) # ch THEN p
    ELSE CHOOSE q \in p .. Len(text) :
             Character(text, q) # ch /\ \A i \in p .. q - 1 : Character(text, i) = ch

(***************************************************************************)
(* Nodes.  pad is what lies before the content, size the content, look how *)
(* many bytes after the content its lexers have read.                      *)
(***************************************************************************)
Total(n) == length_add(n.pad, n.size)

Leaf(n) == n.node_count = 1

Visible(n) == n.sym \notin {"list", "end"}

\* ts_parser__lex: the token at p, from q to e, for which readTo bytes were read.
Token(sym, text, p, q, e, readTo) ==
    [sym |-> sym, pad |-> [b |-> q - p, r |-> RowsIn(text, p, q)],
     size |-> [b |-> e - q, r |-> 0], look |-> readTo - e, changed |-> FALSE,
     node_count |-> 1]

Lex(text, p) ==
    LET q == Past(text, p, "n")
        e == Past(text, q, IF Character(text, q) = "a" THEN "a" ELSE ".")
    IN  CASE Character(text, q) = "eof" -> Token("end", text, p, q, q, q + 1)
          [] Character(text, q) = "a"   -> Token("id", text, p, q, e, e + 1)
          [] Character(text, q) = "." /\ e >= q + 3 -> Token("dots", text, p, q, q + 3, q + 4)
          [] Character(text, q) = "." /\ e < q + 3  -> Token("dot", text, p, q, q + 1, e + 1)

TreeNode == [sym : {"id", "dot", "dots", "end", "list", "statement", "program"},
             pad : Lengths, size : Lengths, look : Nat, changed : BOOLEAN,
             node_count : Nat \ {0}]

(***************************************************************************)
(* Trees.                                                                  *)
(***************************************************************************)
\* The node after the subtree of the i-th one.
Beyond(t, i) == i + t[i].node_count

\* The nodes below the i-th one.
Below(t, i) == i + 1 .. Beyond(t, i) - 1

Kids(t, i) == {j \in Below(t, i) : \A k \in i + 1 .. j - 1 : j \notin Below(t, k)}

\* A stack of trees, and one tree: the nodes below one stay below those above it.
IsForest(t) ==
    /\ t \in Seq(TreeNode)
    /\ \A i \in DOMAIN t :
          /\ Beyond(t, i) <= Len(t) + 1
          /\ \A j \in Below(t, i) : Beyond(t, j) <= Beyond(t, i)

IsTree(t) == IsForest(t) /\ t # <<>> /\ Beyond(t, 1) = Len(t) + 1

Subtree(t, i) == SubSeq(t, i, Beyond(t, i) - 1)

\* The subtrees of a stack of trees, and the last of them.
Tops(t) == {i \in DOMAIN t : \A j \in DOMAIN t : i \notin Below(t, j)}

Top(t) == Min({i \in DOMAIN t : Beyond(t, i) = Len(t) + 1})

\* The sibling before a node that is no first child.
Before(t, j) == Min({i \in 1 .. j - 1 : Beyond(t, i) = j})

\* Where each node begins, and where the last one ends: s is what is known before j.
StartOf(t, s, j) ==
    CASE j = 1 -> Zero
      [] j > 1 /\ ~Leaf(t[j - 1]) -> s[j - 1]
      [] OTHER -> length_add(s[Before(t, j)], Total(t[Before(t, j)]))

WithStart(t, s, j) == Append(s, StartOf(t, s, j))

Starts(t) ==
    LET start[j \in 0 .. Len(t) + 1] ==
          IF j = 0 THEN <<>> ELSE WithStart(t, start[j - 1], j)
    IN  start[Len(t) + 1]

\* ts_subtree_summarize_children: a new node above the trees of a stack.
Node(sym, kids) ==
    LET start  == Starts(kids)
        all    == start[Len(kids) + 1]
        readTo == {start[Beyond(kids, i)].b + kids[i].look : i \in Tops(kids)}
    IN  <<[sym |-> sym, pad |-> kids[1].pad, size |-> length_sub(all, kids[1].pad),
           look |-> Max(readTo) - all.b, changed |-> FALSE,
           node_count |-> Len(kids) + 1]>> \o kids

(***************************************************************************)
(* ts_subtree_edit.  An edit replaces the bytes from start to old by those *)
(* from start to new.                                                      *)
(***************************************************************************)
IsNoop(e) == e.old.b = e.start.b /\ e.new.b = e.start.b

IsInsertion(e) == e.old.b = e.start.b

\* Mutant: what the lexer read beyond the node is not considered.
UntouchedByContent(n, e) ==
    e.start.b > Total(n).b \/ (IsNoop(e) /\ e.start.b = Total(n).b)

Untouched(n, e) ==
    LET end == Total(n).b + n.look
    IN  e.start.b > end \/ (IsNoop(e) /\ e.start.b = end)

Reshape(n, e) ==
    LET resized(s) == length_add(length_sub(e.new, n.pad),
                                 length_sub(s, length_sub(e.old, n.pad)))
    IN  CASE e.old.b <= n.pad.b ->
                [n EXCEPT !.pad = length_add(e.new, length_sub(@, e.old))]
          [] e.old.b > n.pad.b /\ e.start.b < n.pad.b ->
                [n EXCEPT !.size = length_sub(@, length_sub(e.old, n.pad)), !.pad = e.new]
          [] e.old.b > n.pad.b /\ e.start.b >= n.pad.b
                /\ (e.start.b < Total(n).b \/ (e.start.b = Total(n).b /\ IsInsertion(e))) ->
                [n EXCEPT !.size = resized(@)]
          [] OTHER -> n

\* Whether an edit reaches what lies before right.
Touches(e, right) == right.b > e.start.b \/ (right.b = e.start.b /\ IsInsertion(e))

\* The edit in the coordinates of a child that lies from left to right.
ChildEdit(e, left, right) ==
    LET moved(x) == IF x.b < left.b THEN Zero ELSE length_sub(x, left)
        start    == moved(e.start)
    IN  [start |-> start,
         old |-> IF ~Touches(e, right) THEN start
                 ELSE IF e.old.b > right.b THEN length_sub(right, left) ELSE moved(e.old),
         new |-> IF Touches(e, right) THEN moved(e.new) ELSE start]

\* The loop over the children at one that begins at left, when the edit is still
\* to be applied (live): the child's edit, and what is left for its siblings.
\* The text is inserted into the first child that touches the edit.
EditChild(n, left, edit, live, first) ==
    LET right == length_add(left, Total(n))
        skips == right.b + n.look < edit.start.b
        stops == /\ ~skips
                 /\ \/ left.b > edit.old.b
                    \/ left.b = edit.old.b /\ Total(n).b > 0 /\ ~first
        own   == ChildEdit(edit, left, right)
    IN  [right |-> right, own |-> own,
         edited |-> live /\ ~skips /\ ~stops /\ ~Untouched(n, own),
         edit |-> IF ~skips /\ Touches(edit, right) THEN [edit EXCEPT !.new = edit.start] ELSE edit,
         live |-> live /\ ~stops]

\* The j-th node as the edit comes to it: c holds the nodes before it.
EditOf(t, e, c, j) ==
    CASE j = 1 -> [right |-> Total(t[1]), own |-> e, edited |-> ~Untouched(t[1], e),
                   edit |-> e, live |-> FALSE]
      [] j > 1 /\ ~Leaf(t[j - 1]) ->
           EditChild(t[j], Zero, c[j - 1].own, c[j - 1].edited, TRUE)
      [] OTHER -> LET k == c[Before(t, j)]
                  IN  EditChild(t[j], k.right, k.edit, k.live, FALSE)

WithEdit(t, e, c, j) == Append(c, EditOf(t, e, c, j))

EditChildren(t, e) ==
    LET child[j \in 0 .. Len(t)] ==
          IF j = 0 THEN <<>> ELSE WithEdit(t, e, child[j - 1], j)
    IN  child[Len(t)]

ts_subtree_edit(t, e) ==
    LET child == EditChildren(t, e)
    IN  [j \in DOMAIN t |->
           IF child[j].edited THEN [Reshape(t[j], child[j].own) EXCEPT !.changed = TRUE]
                              ELSE t[j]]

(***************************************************************************)
(* A tree: its nodes and the start of its one included range, whose end is *)
(* the largest position.                                                   *)
(***************************************************************************)
ts_tree_edit(tree, e) ==
    [root  |-> ts_subtree_edit(tree.root, e),
     start |-> IF tree.start >= e.old.b THEN (e.new.b + tree.start - e.old.b) % Width
                                        ELSE tree.start]

(***************************************************************************)
(* reusable_node.h: a walk over the nodes of the old tree.  i is the node, *)
(* or beyond the tree when the walk is over, and at where it begins.       *)
(***************************************************************************)
reusable_node_descend(reusable) == [reusable EXCEPT !.i = @ + 1]

reusable_node_advance(old, reusable) ==
    [i  |-> Beyond(old, reusable.i),
     at |-> (reusable.at + Total(old[reusable.i]).b) % Width]

\* The root itself is never reused.
reusable_node_reset(old) == [i |-> 2, at |-> 0]

(***************************************************************************)
(* The parse stack: its trees, and the tops that are pending because they  *)
(* were taken over whole.                                                  *)
(***************************************************************************)
EmptyStack == [nodes |-> <<>>, pending |-> {}]

ts_stack_push(stack, t, pending) ==
    [nodes   |-> stack.nodes \o t,
     pending |-> stack.pending \cup IF pending THEN {Len(stack.nodes) + 1} ELSE {}]

ts_stack_position(stack) == Starts(stack.nodes)[Len(stack.nodes) + 1].b

\* The children of a pending top take its place.
BreakDown(stack) ==
    LET top == Top(stack.nodes)
    IN  IF stack.nodes = <<>> \/ top \notin stack.pending THEN stack
        ELSE [nodes   |-> SubSeq(stack.nodes, 1, top - 1)
                            \o SubSeq(stack.nodes, top + 1, Len(stack.nodes)),
              pending |-> (stack.pending \ {top})
                \cup {i - 1 : i \in {k \in Kids(stack.nodes, top) : ~Leaf(stack.nodes[k])}}]

\* Mutant: a tree taken over whole stays whole.
KeepsTopOfStack(stack) == stack

\* The last of them is broken down too.
ts_parser__breakdown_top_of_stack(stack) ==
    LET broken[k \in 0 .. Len(stack.nodes)] ==
          IF k = 0 THEN stack ELSE BreakDown(broken[k - 1])
    IN  broken[Len(stack.nodes)]

(***************************************************************************)
(* The parse table.                                                        *)
(***************************************************************************)
InStatement(nodes) == nodes # <<>> /\ nodes[Top(nodes)].sym \in {"id", "list"}

UnderTop(nodes) == SubSeq(nodes, 1, Top(nodes) - 1)

\* A new node above the trees from the i-th node on.
Reduce(stack, sym, i) ==
    [nodes   |-> SubSeq(stack.nodes, 1, i - 1)
                   \o Node(sym, SubSeq(stack.nodes, i, Len(stack.nodes))),
     pending |-> {k \in stack.pending : k < i}]

\* Two letters make a list.
Listed(stack) ==
    IF stack.nodes[Top(stack.nodes)].sym = "id" /\ InStatement(UnderTop(stack.nodes))
      THEN Reduce(stack, "list", Top(UnderTop(stack.nodes)))
      ELSE stack

\* Dots close a statement, and so does the end of the text.
Closed(stack, sym) ==
    LET top == Top(stack.nodes)
        letters == InStatement(UnderTop(stack.nodes))
    IN  CASE stack.nodes[top].sym \in {"dot", "dots"} ->
               Reduce(stack, "statement", IF letters THEN Top(UnderTop(stack.nodes)) ELSE top)
          [] stack.nodes[top].sym \in {"id", "list"} /\ ~letters /\ sym = "end" ->
               Reduce(stack, "statement", top)
          [] OTHER -> stack

\* The reductions due before a token of that symbol is shifted.
Reduced(stack, sym) == IF stack.nodes = <<>> THEN stack ELSE Closed(Listed(stack), sym)

FirstLeaf(t, i) == Min({j \in i .. Len(t) : Leaf(t[j])})

\* ts_parser__breakdown_lookahead: statements and lists start only between statements.
ts_parser__breakdown_lookahead(old, reusable, inStatement) ==
    IF inStatement THEN [reusable EXCEPT !.i = FirstLeaf(old, @)] ELSE reusable

(***************************************************************************)
(* The parser: a walk over the old tree, a stack, and the tree accepted.   *)
(***************************************************************************)
\* ts_parser__accept.
Accept(stack, end) == Node("program", stack.nodes \o end)

\* A token of the text, lexed because the old tree has none for this place.
ShiftToken(p, token) ==
    LET ready == Reduced(p.stack, token.sym)
    IN  IF token.sym = "end" THEN [p EXCEPT !.root = Accept(ready, <<token>>)]
        ELSE [p EXCEPT !.stack = ts_stack_push(ready, <<token>>, FALSE)]

\* A node of the old tree, broken down until it may stand here.
ShiftReused(p, old) ==
    LET ready   == Reduced(p.stack, old[FirstLeaf(old, p.reusable.i)].sym)
        broken  == ts_parser__breakdown_lookahead(old, p.reusable, InStatement(ready.nodes))
        shifted == Subtree(old, broken.i)
    IN  IF shifted[1].sym = "end" THEN [p EXCEPT !.root = Accept(ready, shifted)]
        ELSE [p EXCEPT !.reusable = reusable_node_advance(old, broken),
                       !.stack = ts_stack_push(ready, shifted, ~Leaf(shifted[1]))]

\* A node read inside [0, start) has been parsed with other included ranges.
CanReuse(n, at, start) == ~n.changed /\ ~(at < start)

\* A turn of the loop in ts_parser__reuse_node, which looks for the next node
\* of the old tree that can stand at the parser's position, and what
\* ts_parser__advance does when the loop ends.
Advance(p, text, old, start) ==
    LET reusable == p.reusable
        position == ts_stack_position(p.stack)
        n        == old[reusable.i]
        onward   == [p EXCEPT !.reusable = reusable_node_advance(old, reusable)]
        inward   == [p EXCEPT !.reusable = reusable_node_descend(reusable)]
    IN  IF p.root # <<>> THEN p
        ELSE IF reusable.i > Len(old) \/ reusable.at > position
          THEN ShiftToken(p, Lex(text, position))
        ELSE IF reusable.at < position
          THEN IF (reusable.at + Total(n).b) % Width <= position \/ Leaf(n) THEN onward ELSE inward
        ELSE IF CanReuse(n, reusable.at, start) THEN ShiftReused(p, old)
        ELSE IF Leaf(n)
          THEN [onward EXCEPT !.stack = ts_parser__breakdown_top_of_stack(@)]
        ELSE inward

\* The turns it takes: each lexes a token or goes on in the old tree.
MaxTurns(text, old) == (Len(old) + 1) * (Len(text) + 2)

NoTree == [root |-> <<Token("end", <<>>, 0, 0, 0, 1)>>, start |-> 0]

NewParser(old) == [reusable |-> reusable_node_reset(old), stack |-> EmptyStack, root |-> <<>>]

\* ts_parser_parse_string.
ts_parser_parse(text, old) ==
    LET parser[k \in 0 .. MaxTurns(text, old.root)] ==
          IF k = 0 THEN NewParser(old.root) ELSE Advance(parser[k - 1], text, old.root, old.start)
    IN  [root |-> parser[MaxTurns(text, old.root)].root, start |-> 0]

\* The tree of a text that is parsed for the first time.
Fresh(text) == ts_parser_parse(text, NoTree)
=============================================================================
