----------------------------- MODULE TextBuffer -----------------------------
(***************************************************************************)
(* SquirrelTextBufferInfo: the syntax tree kept beside a text buffer.  The *)
(* tree is made when it is first read; every change of the buffer edits it *)
(* in place and parses it again, on the thread that changed the text or on *)
(* a background thread that is behind it.                                  *)
(*                                                                         *)
(* The text, its edits and the readers belong to the editor (external).    *)
(***************************************************************************)
EXTENDS TreeWalk

CONSTANTS
    OnBackground,   \* whether the buffer is an ITextBuffer2
    Inserts,        \* the texts an edit can insert
    MaxText,        \* bound: the characters of a text
    MaxEvents,      \* bound: the changes the background thread is behind
    MaxChanges      \* the places one edit changes: 1, or 2 with several carets

ASSUME TextBufferAssumption ==
    /\ OnBackground \in BOOLEAN
    /\ Inserts \subseteq Seq(Characters)
    /\ MaxText \in 0 .. Width - 1 /\ MaxEvents \in Nat \ {0} /\ MaxChanges \in 1 .. 2

VARIABLES
    text,     \* Buffer.CurrentSnapshot
    events,   \* changes raised and not yet handled
    tree,     \* Tree: not created, known, or unknown once its contents are not followed
    update,   \* the event UpdateTree is in, if any, with the changes left to apply
    report    \* history: the edited tree and the text of the update the last step ended

vars == <<text, events, tree, update, report>>

NotCreated == [state |-> "none", root |-> NoTree.root, start |-> 0]

Unknown == [NotCreated EXCEPT !.state = "unknown"]

Known(t) == [state |-> "known", root |-> t.root, start |-> t.start]

(***************************************************************************)
(* Changes, in the coordinates an ITextChange has: old positions are of    *)
(* the text before the edit, new ones of the text after it.                *)
(***************************************************************************)
Texts == {s \in Seq(Characters) : Len(s) <= MaxText}

Changes == [old : 0 .. MaxText, oldEnd : 0 .. MaxText, new : 0 .. MaxText,
            newEnd : 0 .. MaxText, ins : Inserts]

Events == [changes : Seq(Changes), after : Texts]

\* What one place of an edit does: it cuts characters off and inserts others.
Splices(t) == [at : 0 .. Len(t), cut : 0 .. Len(t), ins : Inserts]

Change(x, new) ==
    [old |-> x.at, oldEnd |-> x.at + x.cut, new |-> new, newEnd |-> new + Len(x.ins), ins |-> x.ins]

Single(t) == {<<Change(x, x.at)>> : x \in Splices(t)}

Double(t) ==
    {<<Change(x, x.at), Change(y, y.at - x.cut + Len(x.ins))>> : x \in Splices(t), y \in Splices(t)}

Effective(c, t) == c.oldEnd <= Len(t) /\ (c.oldEnd > c.old \/ c.ins # <<>>)

ChangesOf(t) ==
    {cs \in Single(t) \cup IF MaxChanges = 2 THEN Double(t) ELSE {} :
        /\ \A i \in DOMAIN cs : Effective(cs[i], t)
        /\ Len(cs) = 2 => cs[1].oldEnd < cs[2].old}

Replaced(t, c) == SubSeq(t, 1, c.old) \o c.ins \o SubSeq(t, c.oldEnd + 1, Len(t))

\* The last change is applied first.
After(t, cs) == IF Len(cs) = 2 THEN Replaced(Replaced(t, cs[2]), cs[1]) ELSE Replaced(t, cs[1])

(***************************************************************************)
(* The editor's thread.                                                    *)
(***************************************************************************)
\* Without background events the handler runs inside the change.
UiIsFree == OnBackground \/ (events = <<>> /\ update = <<>>)

Edit ==
    /\ UiIsFree
    /\ Len(events) < MaxEvents
    /\ \E cs \in ChangesOf(text) :
         /\ Len(After(text, cs)) <= MaxText
         /\ text' = After(text, cs)
         /\ events' = Append(events, [changes |-> cs, after |-> text'])
    /\ report' = <<>>
    /\ UNCHANGED <<tree, update>>

\* GetNodeAt, GetNodeWithSymbols: Tree.Value.  A tree made of a text whose
\* changes are still queued will be edited by them once more.
Read ==
    /\ UiIsFree
    /\ tree.state = "none"
    /\ tree' = IF events = <<>> THEN Known(Fresh(text)) ELSE Unknown
    /\ report' = <<>>
    /\ UNCHANGED <<text, events, update>>

\* ClearTree: the tree is deleted and stays the value of Tree.
ContentTypeChanged ==
    /\ UiIsFree
    /\ tree.state = "known"
    /\ tree' = Unknown
    /\ report' = <<>>
    /\ UNCHANGED <<text, events, update>>

(***************************************************************************)
(* UpdateTree.                                                             *)
(***************************************************************************)
\* Mutant: a change is handled although no tree was made.
BeginUpdateUnchecked ==
    /\ update = <<>>
    /\ events # <<>>
    /\ events' = Tail(events)
    /\ update' = <<Head(events)>>
    /\ report' = <<>>
    /\ UNCHANGED <<text, tree>>

BeginUpdate ==
    /\ update = <<>>
    /\ events # <<>>
    /\ events' = Tail(events)
    /\ update' = IF tree.state = "none" THEN <<>> ELSE <<Head(events)>>
    /\ report' = <<>>
    /\ UNCHANGED <<text, tree>>

\* The positions are looked up in the current text, whatever text they are of.
Throws(c) == c.old > Len(text) \/ c.new > Len(text)

\* The rows are those of the current text; both ends of the replaced text
\* are given the row of its start.
InputEdit(c) ==
    LET row == RowsIn(text, 0, c.old)
    IN  [start |-> [b |-> c.old,    r |-> row],
         old   |-> [b |-> c.oldEnd, r |-> row],
         new   |-> [b |-> c.newEnd, r |-> RowsIn(text, 0, c.new)]]

EditTree ==
    /\ update # <<>>
    /\ update[1].changes # <<>>
    /\ LET c == Head(update[1].changes)
       IN  IF Throws(c)
             THEN update' = <<>> /\ tree' = Unknown
             ELSE /\ update' = <<[update[1] EXCEPT !.changes = Tail(@)]>>
                  /\ tree' = IF tree.state = "known"
                               THEN Known(ts_tree_edit(tree, InputEdit(c))) ELSE tree
    /\ report' = <<>>
    /\ UNCHANGED <<text, events>>

\* Mutant: the current text is parsed in place of the one the event is about.
ReparseCurrentText ==
    /\ update # <<>>
    /\ update[1].changes = <<>>
    /\ update' = <<>>
    /\ tree' = IF tree.state = "known" THEN Known(ts_parser_parse(text, tree)) ELSE tree
    /\ report' = <<>>
    /\ UNCHANGED <<text, events>>

Reparse ==
    /\ update # <<>>
    /\ update[1].changes = <<>>
    /\ update' = <<>>
    /\ LET after  == update[1].after
           parsed == ts_parser_parse(after, tree)
       IN  IF tree.state = "known"
             THEN /\ tree' = Known(parsed)
                  /\ report' = <<[old |-> tree, after |-> after]>>
             ELSE tree' = tree /\ report' = <<>>
    /\ UNCHANGED <<text, events>>

Init ==
    /\ text = <<>>
    /\ events = <<>>
    /\ tree = NotCreated
    /\ update = <<>>
    /\ report = <<>>

Next == Edit \/ Read \/ ContentTypeChanged \/ BeginUpdate \/ EditTree \/ Reparse

Spec == Init /\ [][Next]_vars

(***************************************************************************)
(* Properties.                                                             *)
(***************************************************************************)
\* Texts and changes are those of the editor, positions fit; the nodes of the
\* tree are always those of one tree, whatever its edits have done to their
\* sizes; an update in progress has a tree.
TypeOK ==
    /\ text \in Texts
    /\ events \in Seq(Events) /\ Len(events) <= MaxEvents
    /\ update \in Seq(Events) /\ Len(update) <= 1
    /\ tree.state \in {"none", "known", "unknown"}
    /\ IsTree(tree.root) /\ tree.start \in 0 .. Width - 1
    /\ tree.state = "known" => tree.root[1].sym = "program"
    /\ update # <<>> => tree.state # "none"
    /\ report # <<>> => tree.state = "known" /\ update = <<>>

\* Once every change is handled, the tree is the one a first parse of the text
\* would give, rows included, although it was put together from the nodes of
\* earlier trees and the rows the extension gives to ts_tree_edit are wrong.
TreeIsOfTheText ==
    (tree.state = "known" /\ update = <<>> /\ events = <<>>) =>
        tree.root = Fresh(text).root

\* When the parser is called, the edited tree is as long as the new text, and
\* a leaf ts_tree_edit has not marked is the token a lexer would read there.
EditedTreeFits ==
    (tree.state = "known" /\ update # <<>> /\ update[1].changes = <<>>) =>
        LET start == Starts(tree.root)
        IN  /\ Total(tree.root[1]).b = Len(update[1].after)
            /\ \A j \in DOMAIN tree.root : Leaf(tree.root[j]) =>
                  \/ tree.root[j].changed
                  \/ tree.root[j] = Lex(update[1].after, start[j].b)

\* SyntaxTreeWalker.Traverse visits every visible node once and in order, also
\* below hidden nodes, and comes to an end.
TraverseVisitsAll ==
    tree.state = "known" =>
        LET walk == Traverse(tree.root)
        IN  /\ walk.over
            /\ \A k \in 1 .. Len(walk.seen) - 1 : walk.seen[k] < walk.seen[k + 1]
            /\ {walk.seen[k] : k \in DOMAIN walk.seen}
                 = {j \in DOMAIN tree.root : Visible(tree.root[j])}

\* The visible nodes whose content holds a span.
Around(t, span) ==
    LET begin == Begins(t)
    IN  {j \in DOMAIN t :
           /\ Visible(t[j])
           /\ begin[j] <= span.start /\ span.start < begin[j] + t[j].size.b
           /\ span.end <= begin[j] + t[j].size.b}

\* GetNodeAt finds the innermost visible node around what is left of the span
\* it is asked for, the root if there is none, with a tree the text is of.
NodeAtIsInnermost ==
    (tree.state = "known" /\ update = <<>> /\ events = <<>>) =>
        \A start \in 0 .. Len(text) : \A end \in start .. Len(text) :
            LET around == Around(tree.root, Trimmed(text, start, end))
            IN  \A found \in GetNodeAt(tree.root, text, start, end) :
                  IF around = {} THEN found = 1
                  ELSE /\ found \in around
                       /\ \A j \in around : j = found \/ found \in Below(tree.root, j)
=============================================================================
