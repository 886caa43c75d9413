# SquirrelVS in TLA+

SquirrelVS adds the Squirrel language to Visual Studio: a debug engine made of
three cooperating processes, and an editor extension. This directory holds TLA+
specifications of its stateful parts, the configurations that model-check them
with TLC, and theorems about them checked by TLAPS. Paths below are relative to
`src/SquirrelVS/`.

## The system

### The debugger

| part | runs in | state | operations |
|---|---|---|---|
| `SquirrelDebugHelper` | the debuggee | exported globals: `StepKind`, `SteppingStackDepth`, `ActiveBreakpoints[256]`, `ActiveBreakpointsCount`, `HitBreakpointIndex`, the request `sq_newclosure`/`sq_setdebughook`/`SquirrelHandle`, `IsInitialized` | the debug hook `TraceRoutine` on every call, line and return of every VM; `HelperLoop`, which installs hooks; empty functions on which the debugger breaks |
| `SquirrelDebugAttacher` | a short-lived process | none | creates a remote thread that loads the helper |
| `RemoteComponent` | the debug monitor | the active stepper, the list of breakpoints, the addresses of the helper's globals | step requests, arbitration callbacks, enabling and disabling breakpoints, the helper's breakpoints |
| `LocalComponent` | Visual Studio | `HelperState`, the last VM, the suspended thread, the support breakpoints | module loads, injection, `sq_open`, script loads, `SQVM::CallNative`, symbols and evaluation |
| `LocalWorkerComponent` | Visual Studio's worker | none | looks functions up in the symbols |
| `CallStackFilter` | Visual Studio | frames of each VM, cached for one stack walk | replaces native frames by Squirrel frames |
| `ExpressionEvaluator`, `SymbolsManager`, `Proxy/*` | Visual Studio | names of fields, text of scripts | read values from the debuggee's memory |

The components call one another with messages (`IComponentBase`), which are
synchronous calls. They talk to the helper by writing its globals and by
breakpoints in its empty functions; a breakpoint freezes every thread of the
debuggee until its handler returns. The Visual Studio debug engine decides who
steps and when the program runs; the Squirrel interpreter decides what the hook
sees. Both are outside of the repository, as is Windows.

What is hard: the helper's globals are shared by every VM and thread; tables are
rewritten while the hook reads them; a step may be cancelled, handed to the
native debugger and back, overtaken by a breakpoint or by another VM; the helper
starts concurrently with the program that is about to open its first VM; the
request to the helper is cleared after its client was resumed.

What makes the parts correct: a step ends in the frame it belongs to, no
earlier, no later; a hit is reported on the line that was executed; once the table
is written, no breakpoint of the list is passed over; a thread that opened a VM runs on only with its
hook set.

### The editor

| part | state | operations |
|---|---|---|
| `SquirrelTextBufferInfo` | the buffer's syntax tree, made lazily; sinks; a cache of queries | change events (on the editor's thread or on a background thread), change of the content type, look-ups of nodes |
| `TreeSitter` runtime (C, vendored, part of the repository) | trees of shared, counted nodes; a parser with its stack and its walk over the old tree; cursors | `ts_tree_edit`, `ts_parser_parse`, `ts_tree_get_changed_ranges`, cursor moves, `ts_node_descendant_for_byte_range`, queries |
| `SyntaxTreeWalker` | a cursor | visits all nodes below one |
| classifier, taggers, `CodeDatabase` (`SyntaxHighlight`, `Editor/*`) | caches of the tree at most | read the tree, redraw the spans that were reported as changed |
| `CompletionCommandHandler` | one session | commands of the user; the broker may dismiss the session |

`Parsing/*` and `TreeSitter/src/parser.c` are generated, `Infrastructure/*` and
`Common/*` are mostly taken over from another extension.

What is hard: the tree is not made from the text but from the tree before it, by
marking what an edit may have touched and keeping the rest; edits come in the
coordinates of one text, are looked up in another and applied to a third; the
background thread is behind the text; consumers redraw only what a comparison of
two trees that share nodes reports.

What makes the parts correct: once quiet, the tree is the one a first parse of
the text gives; what was not marked may be kept; whatever stands in other nodes
than before is reported; a walk visits every node once; the node at a span is the
innermost one.

## The modules

| module | models | run by |
|---|---|---|
| `StepContract` | what stepping promises, without the shared counter | `stepper` (as a property) |
| `Stepper` | stepping: helper, `RemoteComponent`, `LocalComponent` | `MCStepper` |
| `StepperLive` | the end of a step into under fairness; extends `Stepper` | `stepper_live` |
| `StepperProofs` | theorems about `Stepper` | TLAPS |
| `Breakpoints` | the list, the table, the hook's search, the hit | `MCBreakpoints` |
| `BreakpointsProofs` | theorems about `Breakpoints` | TLAPS |
| `HookSetup` | injection, `sq_open`, `HelperLoop` | `MCHookSetup` |
| `HookSetupProofs` | theorems about `HookSetup` | TLAPS |
| `CallStack` | the merge of native and Squirrel frames, its cache | `MCCallStack` |
| `CallStackProofs` | theorems about `CallStack` | TLAPS |
| `Induction` | induction over naturals and iteration, for proofs about loops | TLAPS |
| `SyntaxTree` | `ts_tree_edit` and the incremental parser, as operators | `MCTextBuffer` |
| `SyntaxTreeProofs` | lemmas about the operators of `SyntaxTree` | TLAPS |
| `TreeWalk` | the cursor, the walk, the look-up of nodes; extends `SyntaxTree` | `MCTextBuffer` |
| `TreeWalkProofs` | lemmas about the operators of `TreeWalk` | TLAPS |
| `TextBuffer` | `SquirrelTextBufferInfo` and the edits it follows; extends `TreeWalk` | `MCTextBuffer` |
| `TextBufferProofs` | theorems about `TextBuffer` | TLAPS |
| `ChangedRanges` | the comparison of an old and a new tree; extends `SyntaxTree` | `MCTextBuffer` |
| `TextBufferReports` | what `TextBuffer` reports to its sinks; extends `TextBuffer` and `ChangedRanges` | `MCTextBuffer` |

### Stepper and StepContract

`StepKind` and `SteppingStackDepth` are the helper's globals, `ActiveStepper`
the kind of `StepperDataHolder.ActiveStepper`, and the rest of the variables
carry the names they have in the holders of `LocalComponent` and
`RemoteComponent`. `depth`, `pending` and `process` describe the debuggee: the
frames each VM still has to return from, the native function it is about to
enter, and whether the user sees the program stopped. `origin` is history: where
the current step was requested and whether another VM has reported since.

`Call`, `Return`, `Line` and `BreakpointLine` are `TraceRoutine` for one event,
including the handler of the step-complete breakpoint when the hook runs into
it. `Step`, `StopStep` (with the three callbacks that have the same body) and
`TryInterceptTransitionStep` are the engine's requests; `CallNative`,
`EnterNative` and `RejectNative` the way of a native call through the breakpoint
on `SQVM::CallNative` and the fallthrough breakpoint. `TryInterceptTransitionStep`
does not write the counter; it is reset only if the engine, told to enable the
new stepper, calls `Step` back.

`StepperLive` tells the lines with a breakpoint at which the engine does not stop
(`BypassedLine`) from the other events by a history bit. Such a line goes to
`OnSquirrelHelperAsyncBreak` and never to `UpdateStepper` (`DebugHelper.h:284-291`),
so a loop of them starves a step into.

`StepContract` says what the counter is for: a step remembers its VM and frame
and ends at the first event of that frame or of one of its callers. The promise
is kept for a VM that runs alone since the request. The code has one counter for
all VMs, so the first event of another VM releases it from the promise, and
`StepContract` then allows the step to end anywhere.

### Breakpoints

`ActiveBreakpointsList` is `ActiveBreakpointsDataHolder.ActiveBreakpoints`;
`ActiveBreakpoints`, `ActiveBreakpointsCount` and `HitBreakpointIndex` are the
helper's globals. An update of the table is a sequence of steps (`WriteEntry`
for each entry, `WriteCount` at the end), and so is a thread's search of it
(`TraceRoutine`, `Scan`, `Measure`, `Compare`, `WriteHitBreakpointIndex`); they
interleave freely. The handler of the hit is one step, the debuggee being
frozen. `SourceLength` is reduced to whether it was filled in: lengths and bytes
of a name are compared as the name. String, pointer and line of an entry are one
write with the length: for entries below the count they are written over equal
values, and entries above are not read.

`HelperLocationsNotification` learns the addresses of the table and writes nothing
to it (`RemoteComponent.cs:534-548`): what was enabled before the helper was loaded
is in the list only, and a search finds the count 0, until the next breakpoint is
enabled or disabled. `NoMissedHit` speaks of the whole list from that update on.

### HookSetup

`HookDataHolder`, `HelperState`, `SquirrelHandle` and `SuspendThread` are the
data of `LocalComponent`, the request is the three globals of `Main.cpp`, and
`HelperLoop` the position of the helper's thread. Each of its reads and writes
of the globals that matters is a step of its own. `InjectDebugHelper` may fail
(missing files, the attacher's exit code), and the DLL is loaded by a thread
that the attacher does not wait for. Attaching to a process that already has the
helper, and the loading of scripts, are left out.

### CallStack

The debuggee is one sequence of activations (`stack`): an `sq_call` has a native
frame, a script function a Squirrel frame, a native closure both. Script functions
that native code runs without `sq_call` (a metamethod that `sq_get` ends in) are
left out, so nothing is said of a program that has them. The runtime is created
when the program is loaded (`RuntimeCreated`), the addresses of the helper are
known once it is (`InitalizeDebugHelper`, `helperLoaded`). The debug
engine may stop the program at any point, start a walk, leave it, begin it again
and continue. `FilterNextFrame` is the handler for one native frame: for an
`sq_call` it fetches the list of the VM unless it is cached (`Cached`), and
`GetNextSquirrelFrames` is a recursive function over the list, one turn after the
other (`Visit`), whose values are the loop's variables. `ActiveThreads` is `SquirrelCallStack.ActiveThreads`, with
the claims (`ParentFrameBase`) in its frames. `FilterEndOfStack` empties it, and
so does the end of another thread's walk. Events of the hook other than returns
have the same effect and are one. `Expected` is what a user should see of an
activation: its place, the line of the event if the hook stopped there, its own
stack base.

A frame keeps the line and the stack base it was given, and a walk begun again
finds them; `Visit` works them out anew. The two differ only for frames that were
left from an earlier stop, of which nothing is promised.

While the helper is not loaded its address range is null, and the loop throws at
the first native closure it visits (`CallStackFilter.cs:184`). That frame and the
newer functions are claimed by then, in the list that is cached, and none of them
is returned; whether the engine shows the native frame is left open.

`disturbed` records what the code has no answer to: a cache left by a walk that
was cut short, one emptied under a walk, an argument that cannot be read, an
exception of the filter. Of a walk that misses frames for one of the last two
reasons it is still promised that none appears twice (`NothingTwice`); of one whose
cache was emptied or is of an earlier stop, nothing. The
order is promised without these, and when the program was stopped in the hook, in
native code, or in a VM entered once. Stopped by Break All in a script that is
nested in its own VM, the filter takes the first native closure for one the
current `sq_call` runs and lists the outer functions below the inner call
(`CallStackFilter.cs:195`); `EveryFrameOnce` holds even then.

### SyntaxTree, TreeWalk and TextBuffer

`SyntaxTree` follows `subtree.c`, `tree.c`, `reusable_node.h` and
`parser_definition.c` function by function: `ts_subtree_edit` with its cases for
padding, content and what the lexer has read beyond it, the reuse of old nodes
(`ts_parser__reuse_node`), the two breakdowns, shift, reduce and accept. The
lexer and the parse table are those of a small language instead of Squirrel: a
statement is a sequence of letter runs closed by a dot or by three dots, newlines
are blank. It has a token of any length, one that makes its lexer read two
characters too far, nodes that need no closing token, hidden nodes for
repetitions, and no errors, so that there is one stack version. A length is its
bytes (wrapping) and rows.

A tree is the sequence of its nodes, a node before its children, each with the
number of nodes of its subtree (`node_count`): the pointers of the C code are
indices, a subtree is an interval, a stack of trees is their concatenation.
`IsForest` says that the intervals nest, which is all that makes a sequence of
nodes a stack of trees. The loops and recursions of the C code are recursive
functions over the number of their turns, and each turn is an operator of its
own with the name of what it does (`StartOf`, `EditChild`, `BreakDown`,
`Advance`, `NextChild`, `Climb`, `Walk`, `Descend`). The parser's loop is given
`MaxTurns` turns, which the proofs show to be enough for every text and every old
tree; a loop that has come to its end does nothing in the turns that are left.

`TreeWalk` follows `tree_cursor.c`, `node.c`, `SyntaxTreeWalker.cs` and
`GetNodeAt`; `ChangedRanges` follows `get_changed_ranges.c`, whose two cursors
descend in step, with RECURSIVE operators, in a module of its own since no module
with a theorem may reach one.

`TextBuffer` is the buffer: `text` the current snapshot, `events` the changes
raised and not handled, `tree` the value of `Tree`. `Edit` is the user's (several
changes in one event with several carets), `Read` the first use of the tree,
`ContentTypeChanged` its deletion. `UpdateTree` is three actions, `BeginUpdate`
for one event, `EditTree` for each of its changes, `Reparse` at the end, between
which the text may change when the handler runs in the background. `EditTree`
looks rows up in the current text as the code does, throws where the code throws,
and gives both ends of the replaced text the row of its start. Three things make
the tree `unknown`, after which nothing is said of it: a tree that was made while
changes already in its text were queued, an update that threw between its
changes, a tree that was deleted. They are listed among the hazards.
`TextBufferReports` compares the trees before and after an update
(`ChangedSpans`), which is what the sinks are told.

## The runs

| run | instance | shows |
|---|---|---|
| `stepper` | 2 VMs, 3 frames each, 2 fallthrough breakpoints | types, `ArmedTogether`, `CounterMeasuresFrames`, refinement of `StepContract` |
| `stepper_live` | 2 VMs, fairness | a step into is reported, unless lines with breakpoints that do not stop come for ever |
| `stepper_no_symbol` | no `SQVM::CallNative` | violated: steps over and out never end |
| `breakpoints` | 2 threads, 2 breakpoints, 2 scripts, list of 3 | table and list agree, hits are reported once, no undisturbed search misses once the table was written |
| `breakpoints_two_hits` | 2 threads | violated: the index is not valid when two threads hit |
| `breakpoints_active` | 1 breakpoint | violated: a disabled breakpoint stays in the table |
| `hook_setup` | 1 thread, 4 VMs | resumed threads have their hook, the request is stable |
| `hook_setup_live` | 2 threads, 3 VMs, fairness | a request the helper can see is served |
| `call_stack` | 2 VMs, 6 activations, 1 walk left with frames, with and without runtime and helper | the merged stack is the real one, each frame once with its line and stack base |
| `text_buffer` | texts of 5 characters, one edit at a time | the incremental tree is the tree of the text; marks, reported spans, walks and look-ups are right |
| `text_buffer_background` | texts of 3 characters without dots, 2 events behind | the tree, its marks and the reported spans while the text runs ahead |
| `text_buffer_carets` | texts of 4 characters, 2 carets | violated: the second change is applied at a place the tree has moved |

Bounds. Three frames suffice for a step that starts below the top, has a caller
and makes a call; the second VM is there to disturb the counter. A list of three
entries has a location that was enabled twice and one after it, in both orders
of the update. Four VMs let a thread open one before the helper is there, one in
each phase of the clearing of the request, and one after. Six activations hold a
VM that calls itself with a script function on both sides and a hook on top, and
two VMs that call one another; one left walk is one that is begun again at the
same stop or one whose frames are met at the next. Five characters hold three
dots with something before and after, two statements with a blank between them,
and a list of two letter runs; every edit of every such text is followed by every
other, so trees made of nodes of many earlier trees occur. In the background the
texts are shorter, since two texts and two queued edits multiply. The theorems
have none of these bounds, save where `MaxChanges = 1` or `OneThread` is said.

Fairness. `StepperLive!FairSpec` lets threads of the running debuggee continue: a
native call is entered or refused, and Squirrel code reports lines, with or without
a breakpoint, or returns again and again (strong fairness, since the engine may
stop the program in between). That a reported line may be one that bypasses the
stepper is not ruled out by the fairness but by the premise of `IntoIsReported`,
that such lines come to an end; without it TLC shows the loop of them in which the
step is never reported. Left out by the fairness is a loop on a single line that
calls nothing but native closures: it reports nothing at all. `HookSetup!FairSpec` lets the injected thread load the DLL and the
helper's thread poll, which it does every 10 ms.

`CHECK_DEADLOCK FALSE` in the `hook_setup` runs: the program stops opening VMs
at the bound.

The violated properties are sentences of the repository that the code does not
keep; `PROJECT.json` quotes them under `findings`.

## The proofs

`StepperProofs`, for any set of VMs and any depth:

- `TypeCorrect`, `Armed` and `CounterMeasures`: `TypeOK`, `ArmedTogether` and
  `CounterMeasuresFrames` are invariants. `ArmedTogether` is inductive on its
  own, `CounterMeasuresFrames` needs both others: that the stepped kind is the
  helper's kind, and the types of the counter and of the history.
- `ContractKept`: under `CallNativeFound`, `Stepper` implements `StepContract`.
  `DueWhenCounted` turns the comparison of the counter into the comparison of
  frames of the contract, `ReportImplemented` lifts it to the three events, and
  `StepImplements` goes through the actions.

`BreakpointsProofs`, for any threads, breakpoints, scripts and lines, and any
bound on the list:

- `TypeCorrect`, `Mirrored`, `HitsNamed` and `NothingMissed`: `TypeOK`,
  `TableMirrorsList`, `HitNamesAWaitingThread` and `NoMissedHit` are invariants.
  None but the first two is close to inductive. `IInv` adds what an update has
  written so far (`Written`), that nothing is written before the helper is there
  (`Unloaded`), what a thread knows at each point of its search (`Search`: the
  entry it looks at exists, is on its line, and, undisturbed, was measured before
  it is compared), and which thread's index is in the shared global
  (`IndexOfAWaitingThread`). `OnBreakpointHitStep` is the step that needs all of
  it: the index is cleared because a waiting thread's entry is below the count,
  which is below the length of the list. Steps of the helper are proved to keep
  the table except for lengths that become known (`TableKept`), so that a thread
  that does not move loses nothing of what it knows (`OthersKnow`).
- `OneThreadHitValid`: where only one thread runs Squirrel code, `HitIsValid`
  holds through any enabling, disabling and updating. With two threads it fails
  (`breakpoints_two_hits`).

`HookSetupProofs`:

- `TypeCorrect`, for any number of threads. It needs two facts about injection and
  the helper's loop (`TypeInv`): there is no helper before it was injected, and
  no request is served for a null VM, although other threads overwrite the
  request meanwhile.
- `OneThreadResumedHooked` and `OneThreadRequestStable`, for `OneThread` and any
  number of VMs: `ResumedHooked` and `RequestIsStable`. The invariant says whose
  request the globals hold in each phase of `HelperLoop`: outside of the clearing
  that of the thread that waits (`RequestOfWaiting`). While the globals are
  cleared it promises nothing, which is where a second VM opened too early loses
  its request; safety does not suffer, for that thread is then never resumed.

`CallStackProofs`, for any set of VMs, any depth and any number of walks left:

- `TypeCorrect`, `NothingShownTwice`, `StackIsMergedInOrder` and
  `EveryFrameIsShownOnce`: `TypeOK`, `NothingTwice`, `MergedInOrder` and
  `EveryFrameOnce` are invariants, that is, all that the run `call_stack` checks.
- The inductive invariant (`IInv`, `Invariance`) adds how activations follow one
  another (`StackOK`), that a cache outlives a walk only if it is known to be stale
  (`WalkOK`), that a cached list has every frame of its VM, newest first
  (`CacheOK`), that what was shown is a native frame the walk has passed or a
  function claimed by one (`ShownOK`), and who claims what (`MergeOK`).
- `ShownOK` does not say which `sq_call` claims a function and is all that
  `NothingTwice` needs; it survives arguments that cannot be read and exceptions of
  the filter, which claim functions and show none. `MergeOK` says
  it: a function is claimed by its `Claimant`, which is the `sq_call` that runs it
  (`Owner`) unless the newest activation is a script or an `sq_call`; then the newest
  `sq_call` of its VM takes the functions of the next one as well, and each older
  one those of the one below it. So the real order is lost there
  while no frame is, and where the program stopped in the hook, in native code or
  in a VM entered once, claimant and owner agree (`OwnersClaim`).
- The loops are proved turn by turn: `Fetch` (the list is complete and newest
  first), `FrameStackBase` (the VM's base less what newer frames added is the base
  the frame had, by summing over the gaps between neighbours of the list),
  `LoopMerges` (the merging loop, unless it throws, claims all frames of its claimant
  and no other, and shows the visible ones). `MergeTurn` keeps the invariant of that loop
  (`MergeLoop`): the own frames met so far are claimed and no others, a native
  closure or the hook was met exactly if one is among them, the loop is done only
  past all of them, and a function is skipped or given the hook's line exactly when
  it is the one the hook stopped in.

`TextBufferProofs`, with the lemmas of `SyntaxTreeProofs` and `TreeWalkProofs`,
for texts of any length over any alphabet, any number of edits in the queue and
any nesting of the trees:

- `TypeCorrect`: `TypeOK` is an invariant. Its core is that the trees stay trees
  (`IsTree`: the intervals of the nodes nest): through an edit, whose walk marks
  and shifts nodes in place, and through a parse, whose stack is at each moment a
  concatenation of trees (`IsKept`). A parse needs to end for that (`ParserEnds`):
  the rest of the old tree and the rest of the text, weighted, get smaller in every
  turn, and `MaxTurns` bounds them.
- `EveryNodeIsVisited`: `TraverseVisitsAll` is an invariant. A cursor that walks
  down and to the right is at each moment at the node whose position in the
  sequence is the number of nodes visited (`Walking`); the way back up ends at the
  nearest ancestor with a next sibling (`Retracing`).
- `EditedTreeIsOfTheNewText`, for `MaxChanges = 1`: `EditedTreeFits` is an
  invariant, that is, a node that is not marked is the one a parse gives at its
  place in the new text. The invariant (`Follows`) runs along the queue: there is a
  text the tree is of, and each queued event leads from one text to the next, up to
  the current one. A tree is *of* a text when each unmarked node has the symbol,
  the size and the lookahead that the lexer (for a leaf) or its children (for an
  inner node) give. An edit keeps that because the lexer reads nothing behind
  `lookahead_bytes` (`LexAgrees`), and `ts_subtree_edit` marks whatever read into
  the edited span. A parse keeps it since it reuses only unmarked nodes, at the
  place they have in the text (`ParsedIsSound`). With two changes in an event it
  fails: `text_buffer_carets`.
- `ReparsedTreeIsOfTheText`, for `MaxChanges = 1`: `TreeIsOfTheText` is an
  invariant. That every node is right does not give it: the right nodes could be
  put together in two ways, and a statement taken from the old tree could end
  where the parser would not have ended it. So the proof has two more parts. One
  is what the parse stack looks like (`Shape`): statements that dots close, then
  letters or a dot that may still become one, and only where the old text was over
  a statement no dot closes (`Hangs`), which the parser opens again unless the
  new text is over too. What it accepts is then `Canonical`, edits keep that
  (`TreeIsCanonical`), and so does the next parse (`ParsedIsCanonical`). The other
  is that a text has one such tree (`WholeTreeIsOne`): of two trees of letters that
  begin at a place one is the beginning of the other (`LettersBegin`), a dot or the
  end is behind the letters of a statement, so both statements are the same
  (`ClosedIsOne`), and so is the rest of the text (`RestIsOne`).
- `NodeFoundIsInnermost`, for `MaxChanges = 1`: `NodeAtIsInnermost` is an
  invariant. In the loop of `ts_node_descendant_for_byte_range`, every node that
  holds the span is around the current one or still before it, and the result so
  far is the innermost visible one (`Searching`).

The library's induction theorems take a predicate as an operator, which the
provers here cannot instantiate. `Induction` states induction for a set instead
and derives it from the library's fact that `<` is well founded on `Nat`;
`Iteration` gives the existence of a recursive function over an interval, from
which the lemmas above are proved for lists of any length.

The proofs assume `StepperAssumption`, `BreakpointsAssumption`,
`CallStackAssumption`, `TextBufferAssumption` and, in `HookSetupProofs`,
`HookSetupAssumption` on the constants; TLC evaluates them in every run. Only model-checked:

- the two liveness properties: no prover here handles fairness or ENABLED;
- the four violations, which are counterexamples;
- `DifferencesAreReported`: `ChangedRanges` is written with RECURSIVE operators,
  with which the provers' SMT backend is lost, for its two cursors descend in step
  and each turn of one depends on how far the other went;
- the safety properties of `HookSetup` other than its types are about one thread,
  in the runs and in the proofs: with two, the request can change between the calls
  (see the hazards).

## The plan

1. `Stepper`, `StepContract`: done, with proofs.
2. `Breakpoints`: done, with proofs.
3. `HookSetup`: done, with proofs, for injection and hooks.
4. `CallStack`: done, with proofs of all that is checked.
5. `SyntaxTree`, `TreeWalk`, `TextBuffer`: done for the incremental part without
   errors, with proofs of the types, the edit, the parse, the walk and the look-up.
   Left to TLC: the reported spans.

## Not modelled

Texts, encodings and memory layout (source names, Unicode builds, `IsInitialized`
read as four bytes, the UTF-8 length of an edited text); reading and formatting
values; symbol look-ups beyond found or not found; loading of scripts and
attaching to a process that has the helper; packaging.

Of the tree-sitter runtime: error recovery with several stack versions,
`ts_subtree_balance`, external scanners, aliases, columns, queries (`query.c`) and
reference counts. Their behaviour depends on the grammar or on memory, and the
extension reaches them only through the operations that are modelled.
`parser.c`, the larger part of the repository's C code, is the table generated
from the Squirrel grammar; it has no control of its own, and a language with the
same difficulties stands for it.

`ReplaceBufferInfo` is left out because nothing calls `MarkForReplacement`. The
completion session and the sinks depend on the order in which Visual Studio calls
back, of which the repository says nothing. The taggers and the classifier keep
no state of their own.

`PROJECT.json` lists every component with the reason, and every hazard of the
code with the property that covers it or the reason why none does.
