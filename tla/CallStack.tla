------------------------------ MODULE CallStack ------------------------------
(***************************************************************************)
(* Merged call stacks: CallStackFilter replaces what the native unwinder   *)
(* finds below each sq_call by the Squirrel frames that call runs.  The    *)
(* unwinder hands over one native frame after the other, newest first; the *)
(* frames of a VM come from the VM's own list, which knows nothing of the  *)
(* native stack.  The filter fetches that list once per walk and lets each *)
(* sq_call claim the frames up to the native closure that called it.       *)
(*                                                                         *)
(* The debuggee (external) is given as the one sequence of activations it  *)
(* really has, oldest first.  Both sources are projections of it: an       *)
(* sq_call has a native frame only, a script function a Squirrel frame     *)
(* only, and a native closure (the debug hook is one) has both.  A native  *)
(* frame base is the index of the activation, and 0 is no frame.  Native   *)
(* frames the filter only passes on or hides are left out, and so are      *)
(* script functions that native code runs without sq_call (a metamethod    *)
(* that sq_get, called by a native closure, ends in): every function of a  *)
(* VM is run by a sq_call or called from a script here.                    *)
(***************************************************************************)
EXTENDS Integers, Sequences, SequencesExt

CONSTANTS
  VMs,
  MaxDepth,     (* bound: activations on the stack                         *)
  MaxAbandoned  (* bound: walks left before the end of the stack           *)

ASSUME CallStackAssumption == MaxDepth \in Nat /\ MaxAbandoned \in Nat

Kinds == {"sq_call", "script", "native", "hook"}
Events == {"l", "r"}   (* all but a return count as a line; 0 at first     *)
Squirrel == {"script", "native", "hook"}   (* kinds in the list of a VM    *)

VARIABLES
  stack,           (* the debuggee's activations                           *)
  LastType,        (* helper: event of the last hook                       *)
  process,         (* "running" or "stopped"                               *)
  hasRuntime,      (* is there a Squirrel runtime and module instance?     *)
  helperLoaded,    (* are the addresses of the helper known?               *)
  next,            (* native frame to be filtered next; 0 the end of stack *)
  walking,         (* is a stack walk going on?                            *)
  ActiveThreads,   (* SquirrelCallStack: the fetched frames of each VM     *)
  shown,           (* what the walk has returned                           *)
  disturbed,       (* history: what has come between the walk and its data *)
  abandoned        (* history: walks left with frames in the cache         *)

debuggee == <<stack, LastType, hasRuntime, helperLoaded>>
walk == <<next, walking, ActiveThreads, shown, disturbed, abandoned>>
vars == <<debuggee, process, walk>>

(* A walk may use the frames fetched at an earlier stop, lose its frames   *)
(* to the end of another walk, fail to read an argument, or be cut short   *)
(* by an exception of the filter.                                          *)
Disturbances == {"stale", "cleared", "unread", "thrown"}

Top == Len(stack)
Kind(k) == stack[k].kind
TopKind == IF stack = <<>> THEN "none" ELSE Kind(Top)

(* How far the stack base of the VM moves for an activation.               *)
Grows == [sq_call |-> 0, script |-> 1, native |-> 2, hook |-> 3]

Init ==
  /\ stack = <<>>
  /\ LastType = "l"
  /\ process = "running"
  /\ hasRuntime \in BOOLEAN
  /\ helperLoaded \in BOOLEAN
  /\ helperLoaded => hasRuntime
  /\ next = 0
  /\ walking = FALSE
  /\ ActiveThreads = [vm \in {} |-> <<>>]
  /\ shown = <<>>
  /\ disturbed = {}
  /\ abandoned = 0

-----------------------------------------------------------------------------
(* The debuggee.                                                           *)

Push(kind, vm) ==
  /\ process = "running"
  /\ Top < MaxDepth
  /\ stack' = Append(stack, [kind |-> kind, vm |-> vm])
  /\ UNCHANGED <<process, hasRuntime, helperLoaded, walk>>

(* Native code, at the bottom or called by a script, enters or resumes a VM*)
sq_call(vm) ==
  /\ TopKind \in {"none", "native"}
  /\ Push("sq_call", vm)
  /\ UNCHANGED LastType

(* The interpreter runs a function of the VM: called by a script of it, or *)
(* the one sq_call was called for.                                         *)
Enter(kind) ==
  /\ TopKind \in {"sq_call", "script"}
  /\ Push(kind, stack[Top].vm)
  /\ UNCHANGED LastType

TraceRoutine(type) ==
  /\ helperLoaded
  /\ TopKind = "script"
  /\ Push("hook", stack[Top].vm)
  /\ LastType' = type

Return ==
  /\ process = "running"
  /\ stack # <<>>
  /\ stack' = Front(stack)
  /\ UNCHANGED <<LastType, process, hasRuntime, helperLoaded, walk>>

(* The runtime is created when the program, or a module named after the    *)
(* language, is loaded.                                                    *)
RuntimeCreated ==
  /\ process = "running"
  /\ ~hasRuntime
  /\ hasRuntime' = TRUE
  /\ UNCHANGED <<stack, LastType, helperLoaded, process, walk>>

(* The helper is loaded later, if at all, and its addresses are read then. *)
InitalizeDebugHelper ==
  /\ process = "running"
  /\ hasRuntime
  /\ ~helperLoaded
  /\ helperLoaded' = TRUE
  /\ UNCHANGED <<stack, LastType, hasRuntime, process, walk>>

-----------------------------------------------------------------------------
(* The debug engine (external): it stops and continues the debuggee, and   *)
(* walks the stack of a stopped one as often and as far as it likes.       *)

NativeFrames(k) == {j \in 1 .. k : Kind(j) # "script"}
NextNative(k) ==
  IF NativeFrames(k) = {} THEN 0
  ELSE CHOOSE j \in NativeFrames(k) : \A i \in NativeFrames(k) : i <= j

Stop ==
  /\ process = "running"
  /\ process' = "stopped"
  /\ UNCHANGED <<debuggee, walk>>

Leftover == DOMAIN ActiveThreads # {}

(* Nobody asks for the rest of the walk that was going on.                 *)
LeaveWalk ==
  /\ walking /\ Leftover => abandoned < MaxAbandoned
  /\ abandoned' = IF walking /\ Leftover THEN abandoned + 1 ELSE abandoned

StartWalk ==
  /\ process = "stopped"
  /\ LeaveWalk
  /\ next' = NextNative(Top)
  /\ walking' = TRUE
  /\ shown' = <<>>
  /\ disturbed' = IF Leftover THEN disturbed ELSE {}
  /\ UNCHANGED <<debuggee, process, ActiveThreads>>

Continue ==
  /\ process = "stopped"
  /\ LeaveWalk
  /\ process' = "running"
  /\ next' = 0
  /\ walking' = FALSE
  /\ shown' = <<>>
  /\ disturbed' = IF walking /\ Leftover THEN disturbed \cup {"stale"} ELSE disturbed
  /\ UNCHANGED <<debuggee, ActiveThreads>>

-----------------------------------------------------------------------------
(* CallStackFilter.                                                        *)

Fetched(k) == [at |-> k, kind |-> Kind(k), ParentFrameBase |-> 0]

(* What activation k is in the list of the VM.                             *)
InVM(vm, k) == stack[k].vm = vm /\ Kind(k) \in Squirrel
FramesAt(vm, k) == IF InVM(vm, k) THEN <<Fetched(k)>> ELSE <<>>

(* Faulty: the list is left in the order of the VM.                        *)
FetchThreadCallstackOldestFirst(vm) ==
  LET Callstack[k \in 0 .. Top] ==
        IF k = 0 THEN <<>> ELSE Callstack[k - 1] \o FramesAt(vm, k)
  IN  Callstack[Top]

(* The list of the VM, newest frame first, not claimed by any native frame *)
FetchThreadCallstack(vm) ==
  LET Callstack[k \in 0 .. Top] ==
        IF k = 0 THEN <<>> ELSE FramesAt(vm, k) \o Callstack[k - 1]
  IN  Callstack[Top]

(* The stack base of the VM when k is its newest activation; the VM itself *)
(* has that of the newest of all.                                          *)
BaseOf(vm, k) ==
  LET base[j \in 0 .. Top] ==
        IF j = 0 THEN 0
        ELSE base[j - 1] + (IF stack[j].vm = vm THEN Grows[Kind(j)] ELSE 0)
  IN  base[k]
StackBase(vm) == BaseOf(vm, Top)

(* What the first n frames of a list have added.                           *)
SumOf(frames, n) ==
  LET sum[i \in 0 .. Len(frames)] ==
        IF i = 0 THEN 0 ELSE sum[i - 1] + Grows[frames[i].kind]
  IN  sum[n]

(* Faulty: the frame's own share is taken off as well.                     *)
GetFrameStackBaseInclusive(vm, frames, i) == StackBase(vm) - SumOf(frames, i)

(* The VM's own stack base, less what the newer frames have added.         *)
GetFrameStackBase(vm, frames, i) == StackBase(vm) - SumOf(frames, i - 1)

Frame(k, forced, base) == [at |-> k, ForcedLine |-> forced, StackBase |-> base]
NativeFrame(k) == Frame(k, FALSE, 0)

Keep(acc, f) == [acc EXCEPT !.list = Append(@, f)]

(* Faulty: the debug hook does not count.                                  *)
EndsFramesAtSecond(f, acc) == f.kind = "native" /\ acc.HitNativeClosure

(* A native closure ends the frames of a sq_call if it called sq_call: it  *)
(* is the second one met, or the first after the debug hook.               *)
EndsFrames(f, acc) == f.kind = "native" /\ (acc.HitHelperHook \/ acc.HitNativeClosure)

(* One turn of the loop in GetNextSquirrelFrames, for frame i of the list. *)
(* A native closure is compared with the addresses of the helper, which    *)
(* are null before it is loaded: the filter throws, after the frame was    *)
(* claimed.  The code leaves line and stack base in the frame and finds    *)
(* them there when the walk is begun again; they are worked out anew here, *)
(* which only differs for frames that are left from an earlier stop.       *)
Visit(vm, base, frames, acc, i) ==
  LET f == frames[i]
      mine == [f EXCEPT !.ParentFrameBase = base]
  IN  IF acc.done \/ f.ParentFrameBase \notin {0, base} THEN Keep(acc, f)
      ELSE IF f.kind # "script" /\ ~helperLoaded
        THEN [Keep(acc, mine) EXCEPT !.done = TRUE]
      ELSE CASE f.kind = "hook" ->
                  [Keep(acc, mine) EXCEPT !.SkipNextFrame = @ \/ LastType = "r",
                                          !.ForcedLine = @ \/ LastType # "r",
                                          !.HitHelperHook = TRUE]
             [] f.kind = "native" ->
                  IF EndsFrames(f, acc)
                    THEN [Keep(acc, [f EXCEPT !.ParentFrameBase = 0]) EXCEPT !.done = TRUE]
                    ELSE [Keep(acc, mine) EXCEPT !.HitNativeClosure = TRUE]
             [] f.kind = "script" /\ acc.SkipNextFrame ->
                  [Keep(acc, mine) EXCEPT !.SkipNextFrame = FALSE]
             [] OTHER ->
                  [Keep(acc, mine) EXCEPT
                     !.out = Append(@, Frame(f.at, acc.ForcedLine,
                                             GetFrameStackBase(vm, frames, i))),
                     !.ForcedLine = FALSE]

GetNextSquirrelFrames(vm, base, frames) ==
  LET turn[i \in 0 .. Len(frames)] ==
        IF i = 0
          THEN [list |-> <<>>, out |-> <<>>, done |-> FALSE, SkipNextFrame |-> FALSE,
                ForcedLine |-> FALSE, HitHelperHook |-> FALSE, HitNativeClosure |-> FALSE]
          ELSE Visit(vm, base, frames, turn[i - 1], i)
  IN  turn[Len(frames)]

(* Without the helper nothing but the exception ends the loop.             *)
Threw(merged) == merged.done /\ ~helperLoaded

(* Faulty: two proxies of one VM are different keys.                       *)
CachedByReference(vm) == FetchThreadCallstack(vm)

(* Two proxies of one VM are equal, and their address is the key.          *)
Cached(vm) == IF vm \in DOMAIN ActiveThreads THEN ActiveThreads[vm]
              ELSE FetchThreadCallstack(vm)

CacheWith(vm, frames) ==
  [u \in DOMAIN ActiveThreads \cup {vm} |-> IF u = vm THEN frames ELSE ActiveThreads[u]]

(* A frame the filter does not replace; a sq_call among them is one whose  *)
(* argument v could not be read.                                           *)
PassedOn ==
  /\ shown' = Append(shown, NativeFrame(next))
  /\ disturbed' = IF Kind(next) = "sq_call" THEN disturbed \cup {"unread"} ELSE disturbed
  /\ UNCHANGED ActiveThreads

(* A frame of sq_call or sq_wakeupvm whose argument v can be read.  What   *)
(* the engine shows of a frame whose filter throws is its own affair: the  *)
(* native frame or nothing.                                                *)
FilterSqCall ==
  LET vm == stack[next].vm
      merged == GetNextSquirrelFrames(vm, next, Cached(vm))
  IN  IF hasRuntime
        THEN /\ ActiveThreads' = CacheWith(vm, merged.list)
             /\ IF Threw(merged)
                  THEN /\ shown' \in {shown, Append(shown, NativeFrame(next))}
                       /\ disturbed' = disturbed \cup {"thrown"}
                  ELSE /\ shown' = shown \o Append(merged.out, NativeFrame(next))
                       /\ UNCHANGED disturbed
        ELSE /\ ActiveThreads' = CacheWith(vm, Cached(vm))
             /\ shown' = Append(shown, NativeFrame(next))
             /\ UNCHANGED disturbed

FilterNextFrame(evaluated) ==
  /\ walking
  /\ next # 0
  /\ IF Kind(next) = "sq_call" /\ evaluated THEN FilterSqCall ELSE PassedOn
  /\ next' = NextNative(next - 1)
  /\ UNCHANGED <<debuggee, process, walking, abandoned>>

FilterEndOfStack ==
  /\ walking
  /\ next = 0
  /\ walking' = FALSE
  /\ ActiveThreads' = [vm \in {} |-> <<>>]
  /\ UNCHANGED <<debuggee, process, next, shown, disturbed, abandoned>>

(* The cache belongs to the process: the end of another thread's walk      *)
(* empties it as well.                                                     *)
OtherThreadEndOfStack ==
  /\ process = "stopped"
  /\ ActiveThreads' = [vm \in {} |-> <<>>]
  /\ disturbed' = IF walking THEN disturbed \cup {"cleared"} ELSE disturbed
  /\ UNCHANGED <<debuggee, process, next, walking, shown, abandoned>>

-----------------------------------------------------------------------------
Debuggee ==
  \/ \E vm \in VMs : sq_call(vm)
  \/ \E kind \in {"script", "native"} : Enter(kind)
  \/ \E type \in Events : TraceRoutine(type)
  \/ Return
  \/ RuntimeCreated
  \/ InitalizeDebugHelper

Next ==
  \/ Debuggee
  \/ Stop \/ StartWalk \/ Continue
  \/ \E evaluated \in BOOLEAN : FilterNextFrame(evaluated)
  \/ FilterEndOfStack
  \/ OtherThreadEndOfStack

Spec == Init /\ [][Next]_vars

-----------------------------------------------------------------------------
(* Properties.                                                             *)

FetchedFrame == [at : 1 .. MaxDepth, kind : Squirrel, ParentFrameBase : 0 .. MaxDepth]

NewestFirst(frames) ==
  \A i, j \in DOMAIN frames : i < j => frames[i].at > frames[j].at

(* Every variable stays in its type, and a fetched list is newest first.   *)
TypeOK ==
  /\ stack \in Seq([kind : Kinds, vm : VMs])
  /\ Top <= MaxDepth
  /\ LastType \in Events
  /\ process \in {"running", "stopped"}
  /\ hasRuntime \in BOOLEAN
  /\ helperLoaded \in BOOLEAN
  /\ helperLoaded => hasRuntime
  /\ next \in 0 .. Top
  /\ walking \in BOOLEAN
  /\ walking => process = "stopped"
  /\ DOMAIN ActiveThreads \subseteq VMs
  /\ \A vm \in DOMAIN ActiveThreads : ActiveThreads[vm] \in Seq(FetchedFrame)
  /\ \A vm \in DOMAIN ActiveThreads : NewestFirst(ActiveThreads[vm])
  /\ shown \in Seq([at : 1 .. MaxDepth, ForcedLine : BOOLEAN, StackBase : Int])
  /\ disturbed \subseteq Disturbances
  /\ abandoned \in 0 .. MaxAbandoned

(* What the user should see of activation k: a function that is about to   *)
(* return is hidden, the one the hook stopped in has the line of the event *)
(* and every script function finds its locals from its own stack base.     *)
Hooked(k) == k = Top - 1 /\ TopKind = "hook"
Visible(k) == Kind(k) = "script" => ~(Hooked(k) /\ LastType = "r")
Expected(k) ==
  IF Kind(k) = "script" THEN Frame(k, Hooked(k), BaseOf(stack[k].vm, k)) ELSE NativeFrame(k)

(* The activations down to the last native frame the walk has returned,    *)
(* less the hidden one.                                                    *)
Seen ==
  LET returned == {j \in next + 1 .. Top : Kind(j) # "script"}
  IN  {k \in 1 .. Top : Visible(k) /\ \E j \in returned : j <= k}

Calls(vm) == {j \in 1 .. Top : stack[j] = [kind |-> "sq_call", vm |-> vm]}
EnteredOnce(vm) == \A j, k \in Calls(vm) : j = k

Undisturbed == walking /\ hasRuntime /\ disturbed = {}

(* The native and the Squirrel frames together are the real stack, in its  *)
(* order and at every moment of the walk, if the program stopped in the    *)
(* debug hook or in native code a script has called, or in a VM that was   *)
(* entered only once.  A program broken into in a script that is nested in *)
(* the same VM shows the outer functions below the inner sq_call.  A walk  *)
(* that is begun again at the same stop finds its frames claimed and shows *)
(* the same; a walk that reached the end leaves nothing to the next one.   *)
(* Not claimed for a program that runs script functions from native code   *)
(* without sq_call, which the stacks here do not have.                     *)
MergedInOrder ==
  /\ Undisturbed
  /\ stack # <<>>
  /\ TopKind \in {"hook", "native"} \/ EnteredOnce(stack[Top].vm)
  => /\ NewestFirst(shown)
     /\ ToSet(shown) = {Expected(k) : k \in Seen}

(* Even where the order of the two is lost, a whole walk shows every       *)
(* function of every VM once, newest first, with its line and stack base.  *)
EveryFrameOnce ==
  Undisturbed /\ next = 0 => \A vm \in VMs :
    LET scripts == {k \in 1 .. Top : stack[k] = [kind |-> "script", vm |-> vm]}
        places == {i \in DOMAIN shown : shown[i].at \in scripts}
    IN  /\ \A i, j \in places : i < j => shown[i].at > shown[j].at
        /\ {shown[i] : i \in places} = {Expected(k) : k \in scripts \cap Seen}

(* A sq_call whose argument cannot be read, or at which the filter throws  *)
(* for want of the helper, loses frames, and frames that belong to it may  *)
(* appear below another one, but none appears twice.                       *)
NothingTwice ==
  walking /\ disturbed \subseteq {"unread", "thrown"} =>
    \A i, j \in DOMAIN shown : shown[i].at = shown[j].at => i = j

=============================================================================
