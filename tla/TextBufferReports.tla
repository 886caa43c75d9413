-------------------------- MODULE TextBufferReports --------------------------
(***************************************************************************)
(* What UpdateTree reports: the spans it raises ParseTreeChanged with.     *)
(***************************************************************************)
EXTENDS TextBuffer, ChangedRanges

\* UpdateTree: a span that does not fit the text of the event is dropped.
ChangedSpans(ranges, after) ==
    LET end(r) == IF r.end > r.start THEN r.end ELSE r.start + 1
    IN  {[start |-> ranges[i].start, end |-> end(ranges[i])] :
            i \in {j \in DOMAIN ranges : end(ranges[j]) <= Len(after)}}

Reported ==
    ChangedSpans(ts_tree_get_changed_ranges(report[1].old, tree), report[1].after)

\* The visible nodes around a character, from the root.
ScopesAt(t, p) ==
    LET start == Starts(t)
        scope == [j \in DOMAIN t |-> [sym |-> t[j].sym, begin |-> start[j].b + t[j].pad.b,
                                      end |-> start[j].b + Total(t[j]).b, visible |-> Visible(t[j])]]
        around == SelectSeq(scope, LAMBDA s : s.visible /\ s.begin <= p /\ p < s.end)
    IN  [k \in DOMAIN around |-> around[k].sym]

\* A character that stands in other nodes than before an update lies in a span
\* that is reported with ParseTreeChanged: nothing keeps an old colour.
DifferencesAreReported ==
    report # <<>> =>
        \A p \in 0 .. Len(report[1].after) - 1 :
            \/ ScopesAt(report[1].old.root, p) = ScopesAt(tree.root, p)
            \/ \E s \in Reported : s.start <= p /\ p < s.end
=============================================================================
