---------------------------- MODULE ChangedRanges ----------------------------
(***************************************************************************)
(* The comparison of an edited tree with the tree parsed after it          *)
(* (get_changed_ranges.c).                                                 *)
(***************************************************************************)
EXTENDS SyntaxTree

(***************************************************************************)
(* Ranges of bytes, in order.                                              *)
(***************************************************************************)
ts_range_array_add(ranges, start, end) ==
    IF ranges # <<>> /\ start <= ranges[Len(ranges)].end
      THEN [ranges EXCEPT ![Len(ranges)].end = end]
    ELSE IF start < end THEN Append(ranges, [start |-> start, end |-> end])
    ELSE ranges

ts_range_array_intersects(ranges, start, end) ==
    \E i \in DOMAIN ranges : ranges[i].end > start /\ ranges[i].start < end

\* Both trees have one included range without end.
IncludedDifferences(old, new) ==
    CASE old.start < new.start -> ts_range_array_add(<<>>, old.start, new.start)
      [] new.start < old.start -> ts_range_array_add(<<>>, new.start, old.start)
      [] OTHER -> <<>>

(***************************************************************************)
(* The iterator over visible nodes and the blanks before them.  Its stack  *)
(* holds the path from the root to a node: the node is enough, 0 when the  *)
(* iterator is done.                                                       *)
(***************************************************************************)
Path(t, j) == {i \in 1 .. j : i = j \/ j \in Below(t, i)}

Parent(t, j) == IF j = 1 THEN 0 ELSE Max(Path(t, j) \ {j})

iterator_new(t) == [t |-> t, starts |-> Starts(t), at |-> 1, depth |-> 1, inPadding |-> FALSE]

iterator_done(it) == it.at = 0

Begin(it, j) == it.starts[j].b

iterator_tree_is_visible(it) == Visible(it.t[it.at])

iterator_start_position(it) ==
    Begin(it, it.at) + IF it.inPadding THEN 0 ELSE it.t[it.at].pad.b

iterator_end_position(it) ==
    Begin(it, it.at) + IF it.inPadding THEN it.t[it.at].pad.b ELSE Total(it.t[it.at]).b

IsFirstChild(it) == it.at = 1 \/ ~Leaf(it.t[it.at - 1])

iterator_ascend(it) ==
    IF iterator_done(it) THEN it
    ELSE [it EXCEPT !.at = Parent(it.t, @),
                    !.depth = IF iterator_tree_is_visible(it) /\ ~it.inPadding THEN @ - 1 ELSE @,
                    !.inPadding = @ /\ IsFirstChild(it)]

\* Whether a node was found, and the iterator there.
RECURSIVE iterator_descend(_, _)
iterator_descend(it, goal) ==
    LET after == {i \in Kids(it.t, it.at) : Begin(it, i) + Total(it.t[i]).b > goal}
        child == Min(after)
        down  == [it EXCEPT !.at = child]
    IN  IF it.inPadding \/ after = {} THEN [found |-> FALSE, it |-> it]
        ELSE IF ~Visible(it.t[child]) THEN iterator_descend(down, goal)
        ELSE [found |-> TRUE,
              it |-> IF Begin(it, child) + it.t[child].pad.b > goal
                       THEN [down EXCEPT !.inPadding = TRUE]
                       ELSE [down EXCEPT !.depth = @ + 1]]

RECURSIVE NextNode(_)
NextNode(it) ==
    LET left  == IF iterator_tree_is_visible(it) THEN it.depth - 1 ELSE it.depth
        up    == [it EXCEPT !.at = Parent(it.t, @), !.depth = left]
        next  == Beyond(it.t, it.at)
        there == [it EXCEPT !.at = next, !.depth = left]
    IN  IF iterator_done(up) THEN up
        ELSE IF next = Beyond(it.t, up.at) THEN NextNode(up)
        ELSE IF ~Visible(it.t[next]) THEN iterator_descend(there, 0).it
        ELSE IF it.t[next].pad.b > 0 THEN [there EXCEPT !.inPadding = TRUE]
        ELSE [there EXCEPT !.depth = @ + 1]

iterator_advance(it) ==
    LET entered == [it EXCEPT !.inPadding = FALSE]
    IN  IF ~it.inPadding THEN NextNode(it)
        ELSE IF iterator_tree_is_visible(it) THEN [entered EXCEPT !.depth = @ + 1]
        ELSE iterator_descend(entered, 0).it

\* The innermost visible node around the iterator.
iterator_get_visible_state(it) ==
    LET i == Max({j \in Path(it.t, it.at) : Visible(it.t[j]) /\ (it.inPadding => j < it.at)})
    IN  [n |-> it.t[i], at |-> Begin(it, i)]

\* Mutant: the marks ts_tree_edit left are not looked at.
iterator_compare_unmarked(old, new) ==
    LET o == iterator_get_visible_state(old)
        n == iterator_get_visible_state(new)
    IN  IF o.n.sym # n.n.sym THEN "differs"
        ELSE IF o.at = n.at /\ o.n.size.b = n.n.size.b THEN "matches"
        ELSE "may differ"

iterator_compare(old, new) ==
    LET o == iterator_get_visible_state(old)
        n == iterator_get_visible_state(new)
    IN  IF o.n.sym # n.n.sym THEN "differs"
        ELSE IF o.at = n.at /\ ~o.n.changed /\ o.n.size.b = n.n.size.b THEN "matches"
        ELSE "may differ"

(***************************************************************************)
(* ts_subtree_get_changed_ranges.                                          *)
(***************************************************************************)
RECURSIVE CaughtUp(_, _)
CaughtUp(it, position) ==
    IF iterator_done(it) \/ iterator_end_position(it) > position THEN it
    ELSE CaughtUp(iterator_advance(it), position)

RECURSIVE AscendTo(_, _)
AscendTo(it, depth) ==
    IF it.depth > depth THEN AscendTo(iterator_ascend(it), depth) ELSE it

\* Nodes that look the same may hold text that was included only now.
Comparison(old, new, position, included) ==
    LET here == iterator_compare(old, new)
    IN  IF here = "matches" /\ ts_range_array_intersects(
             included, position, iterator_end_position(old))
          THEN "may differ" ELSE here

\* What became of the attempts to descend into both trees.
Descended(old, new, position) ==
    LET oldEnd == iterator_end_position(old.it)
        newEnd == iterator_end_position(new.it)
    IN  [old |-> old.it, new |-> new.it, differs |-> old.found # new.found,
         next |-> CASE old.found /\ new.found -> position
                    [] old.found /\ ~new.found -> oldEnd
                    [] ~old.found /\ new.found -> newEnd
                    [] OTHER -> Smaller(oldEnd, newEnd)]

\* Where both iterators go next, and whether the trees differ up to there.
CompareStep(old, new, position, comparison) ==
    LET upTo(differs, next) == [old |-> old, new |-> new, differs |-> differs, next |-> next]
    IN  CASE comparison = "matches" -> upTo(FALSE, iterator_end_position(old))
          [] comparison = "differs" ->
               upTo(TRUE, Smaller(iterator_end_position(old), iterator_end_position(new)))
          [] comparison = "may differ" ->
               Descended(iterator_descend(old, position), iterator_descend(new, position), position)

Leveled(old, new) == [old |-> AscendTo(old, new.depth), new |-> AscendTo(new, old.depth)]

RECURSIVE CompareFrom(_, _, _, _), CompareOn(_, _, _, _)

\* Both iterators catch up, and then stand at the same depth.
CompareOn(step, position, included, ranges) ==
    CompareFrom(
      Leveled(CaughtUp(step.old, step.next), CaughtUp(step.new, step.next)),
      step.next, included,
      IF step.differs THEN ts_range_array_add(ranges, position, step.next) ELSE ranges)

CompareFrom(at, position, included, ranges) ==
    IF iterator_done(at.old) \/ iterator_done(at.new) THEN ranges
    ELSE CompareOn(
           CompareStep(at.old, at.new, position,
                       Comparison(at.old, at.new, position, included)),
           position, included, ranges)

ts_tree_get_changed_ranges(old, new) ==
    LET o == iterator_new(old.root)
        n == iterator_new(new.root)
        oldStart == iterator_start_position(o)
        newStart == iterator_start_position(n)
        first == Smaller(oldStart, newStart)
        start == IF first = oldStart THEN newStart ELSE oldStart
        ranges == CompareFrom([old |-> o, new |-> n], start, IncludedDifferences(old, new),
                              ts_range_array_add(<<>>, first, start))
        oldEnd == Total(old.root[1]).b
        newEnd == Total(new.root[1]).b
    IN  IF oldEnd = newEnd THEN ranges
        ELSE ts_range_array_add(ranges, Smaller(oldEnd, newEnd),
                                IF oldEnd < newEnd THEN newEnd ELSE oldEnd)
=============================================================================
