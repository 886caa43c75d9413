------------------------------ MODULE TreeWalk ------------------------------
(***************************************************************************)
(* The readers of a syntax tree: the cursor the extension traverses trees  *)
(* with (tree_cursor.c, SyntaxTreeWalker), the look-up of the node at a    *)
(* span (node.c, GetNodeAt).                                               *)
(***************************************************************************)
EXTENDS SyntaxTree

\* Where the content of each node begins, as the loops over children count it: on
\* from the end of the sibling before.  b is what is known before j.
BeginOf(t, b, j) ==
    CASE j = 1 -> t[1].pad.b
      [] j > 1 /\ ~Leaf(t[j - 1]) -> b[j - 1]
      [] OTHER -> (b[Before(t, j)] + t[Before(t, j)].size.b + t[j].pad.b) % Width

WithBegin(t, b, j) == Append(b, BeginOf(t, b, j))

Begins(t) ==
    LET begin[j \in 0 .. Len(t)] == IF j = 0 THEN <<>> ELSE WithBegin(t, begin[j - 1], j)
    IN  begin[Len(t)]

(***************************************************************************)
(* The cursor.  Its stack holds the path from the root to a node: the node *)
(* is enough.  Each move leaves the cursor as it is when there is no such  *)
(* node.                                                                   *)
(***************************************************************************)
HasVisible(t, i) == \E j \in Below(t, i) : Visible(t[j])

Above(t, j) == {i \in 1 .. j - 1 : j \in Below(t, i)}

\* Mutant: the nodes below hidden ones are passed over.
NextVisibleChild(t, c, j) ==
    IF j \notin Below(t, c) \/ Visible(t[j]) THEN j ELSE Beyond(t, j)

\* The loop over the children of a node, at j: what it comes to next.
NextChild(t, c, j) ==
    IF j \notin Below(t, c) \/ Visible(t[j]) THEN j
    ELSE IF HasVisible(t, j) THEN j + 1 ELSE Beyond(t, j)

\* The first child of a node, from the node `from' below it on.
GotoChildFrom(t, c, from) ==
    LET child[k \in 0 .. Len(t)] == IF k = 0 THEN from ELSE NextChild(t, c, child[k - 1])
    IN  IF child[Len(t)] \in Below(t, c) THEN child[Len(t)] ELSE c

ts_tree_cursor_goto_first_child(t, c) == GotoChildFrom(t, c, c + 1)

\* The loop over the nodes above a cursor, at one without a sibling yet.
Climb(t, s) ==
    LET parent == Max(Above(t, s.at))
        moved  == GotoChildFrom(t, parent, Beyond(t, s.at))
    IN  IF s.over THEN s
        ELSE IF moved # parent THEN [at |-> moved, found |-> TRUE, over |-> TRUE]
        ELSE [at |-> parent, found |-> FALSE, over |-> Visible(t[parent]) \/ parent = 1]

ts_tree_cursor_goto_next_sibling(t, c) ==
    LET climb[k \in 0 .. Len(t)] ==
          IF k = 0 THEN [at |-> c, found |-> FALSE, over |-> c = 1] ELSE Climb(t, climb[k - 1])
    IN  IF climb[Len(t)].found THEN climb[Len(t)].at ELSE c

ts_tree_cursor_goto_parent(t, c) ==
    LET visible == {i \in Above(t, c) : Visible(t[i])}
    IN  IF visible = {} THEN c ELSE Max(visible)

(***************************************************************************)
(* SyntaxTreeWalker.Traverse.                                              *)
(***************************************************************************)
\* A turn of the inner loop, which climbs until a node has a sibling.
Retrace(t, s) ==
    LET up   == ts_tree_cursor_goto_parent(t, s.at)
        next == ts_tree_cursor_goto_next_sibling(t, up)
    IN  IF s.over THEN s
        ELSE [at |-> next, root |-> up = s.at, over |-> up = s.at \/ next # up]

Retraced(t, c) ==
    LET back[k \in 0 .. Len(t)] ==
          IF k = 0 THEN [at |-> c, root |-> FALSE, over |-> FALSE] ELSE Retrace(t, back[k - 1])
    IN  back[Len(t)]

\* A turn of the outer loop.
Walk(t, s) ==
    LET child   == ts_tree_cursor_goto_first_child(t, s.at)
        sibling == ts_tree_cursor_goto_next_sibling(t, s.at)
        back    == Retraced(t, s.at)
        seen    == Append(s.seen, s.at)
    IN  IF s.over THEN s
        ELSE IF child # s.at THEN [at |-> child, seen |-> seen, over |-> FALSE]
        ELSE IF sibling # s.at THEN [at |-> sibling, seen |-> seen, over |-> FALSE]
        ELSE [at |-> back.at, seen |-> seen, over |-> back.root]

\* The nodes the whole walk yields, and whether it has ended.
Traverse(t) ==
    LET walk[k \in 0 .. Len(t)] ==
          IF k = 0 THEN [at |-> 1, seen |-> <<>>, over |-> FALSE] ELSE Walk(t, walk[k - 1])
    IN  walk[Len(t)]

(***************************************************************************)
(* ts_node_descendant_for_byte_range.                                      *)
(***************************************************************************)
\* Mutant: a child that ends where the span ends is passed over.
ReachesPast(end, from, to) == end > to

\* Whether a child that ends there reaches to the end of a span.
Reaches(end, from, to) == end >= to /\ end > from

\* The loop at a child of a node: it passes over the child, enters it, or ends.
Descend(t, begin, from, to, s) ==
    LET j   == s.child
        end == (begin[j] + t[j].size.b) % Width
    IN  IF j \notin Below(t, s.node) THEN s
        ELSE IF ~Reaches(end, from, to) THEN [s EXCEPT !.child = Beyond(t, j)]
        ELSE IF from < begin[j] THEN [s EXCEPT !.child = Beyond(t, s.node)]
        ELSE [node |-> j, child |-> j + 1, visible |-> IF Visible(t[j]) THEN j ELSE s.visible]

ts_node_descendant_for_byte_range(t, from, to) ==
    LET begin == Begins(t)
        descend[k \in 0 .. Len(t)] ==
          IF k = 0 THEN [node |-> 1, child |-> 2, visible |-> 1]
          ELSE Descend(t, begin, from, to, descend[k - 1])
    IN  descend[Len(t)].visible

(***************************************************************************)
(* SquirrelTextBufferInfo.GetNodeAt: blanks are cut off the span, whose    *)
(* end is the index the second loop stops at.                              *)
(***************************************************************************)
Trimmed(text, start, end) ==
    LET s == Smaller(Past(text, start, "n"), end)
        stops == {e \in s .. end : e = s \/ e = Len(text) \/ Character(text, e) # "n"}
    IN  [start |-> s, end |-> Max(stops)]

\* The nodes at a span, none if the span is trimmed to nothing.
GetNodeAt(t, text, start, end) ==
    LET span == Trimmed(text, start, end)
    IN  IF span.start = span.end THEN {}
        ELSE {ts_node_descendant_for_byte_range(t, span.start, span.end)}
=============================================================================
