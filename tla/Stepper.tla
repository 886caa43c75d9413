------------------------------- MODULE Stepper -------------------------------
(***************************************************************************)
(* Stepping through Squirrel code.  Three parties share the work:          *)
(*                                                                         *)
(*  - the debug hook inside the debuggee (DebugHelper.h): the interpreter  *)
(*    reports 'c'all, 'l'ine and 'r'eturn events of every SQVM to it, and  *)
(*    it decides with one StepKind and one SteppingStackDepth, both        *)
(*    globals of the helper DLL, when the step is over;                    *)
(*  - RemoteComponent, which owns the active stepper and writes the two    *)
(*    globals through the memory of the debuggee;                          *)
(*  - LocalComponent, which owns the breakpoints that let a step-into fall *)
(*    through to a native closure.                                         *)
(*                                                                         *)
(* A helper breakpoint freezes every thread of the debuggee and the        *)
(* components call one another synchronously, so an event and the          *)
(* handlers it runs are one action.  The interpreter and the Visual Studio *)
(* debug engine are external: the interpreter emits balanced events per    *)
(* VM, the engine may stop, resume, request or cancel at any time.         *)
(***************************************************************************)
EXTENDS Integers, Sequences

CONSTANTS
  VMs,              (* Squirrel VMs, each run by a thread of its own      *)
  Natives,          (* addresses of native closures outside the helper    *)
  MaxDepth,         (* bound: frames of one VM                            *)
  MaxFallthroughs,  (* bound: fallthrough breakpoints ever created        *)
  CallNativeFound,  (* do the symbols name SQVM::CallNative?              *)
  NoNative          (* no native call is about to be entered              *)

ASSUME StepperAssumption ==
  /\ MaxDepth \in Nat
  /\ MaxFallthroughs \in Nat
  /\ CallNativeFound \in BOOLEAN
  /\ NoNative \notin Natives

VARIABLES
  process,      (* the debuggee is "running" or "stopped" for the user    *)
  depth,        (* frames of each VM whose return was not reported yet    *)
  pending,      (* native closure that CallNative of a VM will enter next *)
  StepKind,                             (* helper: StepKind               *)
  SteppingStackDepth,                   (* helper: SteppingStackDepth     *)
  ActiveStepper,                        (* remote: kind of the stepper    *)
  StepInFallthroughGuid,                (* remote: 0 or an index below    *)
  SquirrelCallNativeBreakpoint,         (* local: its state               *)
  SquirrelStepInFallthroughBreakpoint,  (* local: 0 or an index below     *)
  fallthroughs, (* every fallthrough breakpoint created, in order         *)
  origin        (* history: where the step started, and whether only that *)
                (* VM has reported an event since                         *)

target == <<process, depth, pending>>
stepper == <<StepKind, SteppingStackDepth, ActiveStepper>>
breakpoints == <<StepInFallthroughGuid, SquirrelCallNativeBreakpoint,
                 SquirrelStepInFallthroughBreakpoint, fallthroughs>>
vars == <<target, stepper, breakpoints, origin>>

Kinds == {"Into", "Over", "Out"}
Events == {"c", "l", "r"}

Init ==
  /\ process = "running"
  /\ depth = [vm \in VMs |-> 0]
  /\ pending = [vm \in VMs |-> NoNative]
  /\ StepKind = "None"
  /\ SteppingStackDepth = 0
  /\ ActiveStepper = "null"
  /\ StepInFallthroughGuid = 0
  /\ SquirrelCallNativeBreakpoint = IF CallNativeFound THEN "disabled" ELSE "null"
  /\ SquirrelStepInFallthroughBreakpoint = 0
  /\ fallthroughs = <<>>
  /\ \E vm \in VMs : origin = [vm |-> vm, base |-> 0, alone |-> TRUE]

-----------------------------------------------------------------------------
(* The helper: UpdateStepper, without its call of OnStepCompleted.         *)

DepthAfter(event) ==
  CASE StepKind = "Into" /\ event # "c" -> 0
    [] StepKind \in {"Over", "Out"} /\ event = "c" -> SteppingStackDepth + 1
    [] StepKind = "Over" /\ event = "r" -> SteppingStackDepth - 1
    [] StepKind = "Out" /\ event = "r" /\ SteppingStackDepth # 0 -> SteppingStackDepth - 1
    [] OTHER -> SteppingStackDepth

(* Faulty: the return that leaves the callee ends the step over.           *)
StepOverEarly(event) ==
  \/ event = "r" /\ SteppingStackDepth - 1 <= 0
  \/ event = "l" /\ SteppingStackDepth <= 0

StepOver(event) ==
  \/ event = "r" /\ SteppingStackDepth - 1 < 0
  \/ event = "l" /\ SteppingStackDepth <= 0

(* Faulty: a step into ends on lines only.                                 *)
CallsStepCompleteOnLine(event) ==
  \/ StepKind = "Into" /\ event = "l"
  \/ StepKind = "Over" /\ StepOver(event)
  \/ StepKind = "Out" /\ event = "r" /\ SteppingStackDepth = 0

CallsStepComplete(event) ==
  \/ StepKind = "Into" /\ event # "c"
  \/ StepKind = "Over" /\ StepOver(event)
  \/ StepKind = "Out" /\ event = "r" /\ SteppingStackDepth = 0

OnStepFinished == SquirrelCallNativeBreakpoint' = "disabled"

(* Faulty: the stepper is dropped, the helper stays armed.                 *)
OnStepCompletedArmed ==
  IF ActiveStepper # "null" /\ StepKind # "None"
     /\ SquirrelCallNativeBreakpoint # "null"
    THEN /\ OnStepFinished
         /\ ActiveStepper' = "null"
         /\ process' = "stopped"
         /\ UNCHANGED StepKind
    ELSE UNCHANGED <<SquirrelCallNativeBreakpoint, StepKind, ActiveStepper, process>>

(* The handler of the helper's step-complete breakpoint.  Without a        *)
(* CallNative breakpoint OnStepFinished throws on its null reference       *)
(* before the kind is reset and the step is reported.                      *)
OnStepCompleted ==
  IF ActiveStepper # "null" /\ StepKind # "None"
     /\ SquirrelCallNativeBreakpoint # "null"
    THEN /\ OnStepFinished
         /\ StepKind' = "None"
         /\ ActiveStepper' = "null"
         /\ process' = "stopped"
    ELSE UNCHANGED <<SquirrelCallNativeBreakpoint, StepKind, ActiveStepper, process>>

UpdateStepper(event) ==
  /\ SteppingStackDepth' = DepthAfter(event)
  /\ IF CallsStepComplete(event)
       THEN OnStepCompleted
       ELSE UNCHANGED <<SquirrelCallNativeBreakpoint, StepKind, ActiveStepper, process>>
  /\ UNCHANGED <<pending, StepInFallthroughGuid,
                 SquirrelStepInFallthroughBreakpoint, fallthroughs>>

(* History: an event of another VM ends the solitude of the stepped one.   *)
Witness(vm) == origin' = [origin EXCEPT !.alone = @ /\ vm = origin.vm]

Executing(vm) == process = "running" /\ pending[vm] = NoNative

-----------------------------------------------------------------------------
(* TraceRoutine, per event type.  The interpreter calls the hook after it  *)
(* pushed the frame of a call and before it pops the frame of a return;    *)
(* depth drops with the report.                                            *)

Call(vm) ==
  /\ Executing(vm)
  /\ depth[vm] < MaxDepth
  /\ depth' = [depth EXCEPT ![vm] = @ + 1]
  /\ UpdateStepper("c")
  /\ Witness(vm)

Return(vm) ==
  /\ Executing(vm)
  /\ depth[vm] > 0
  /\ depth' = [depth EXCEPT ![vm] = @ - 1]
  /\ UpdateStepper("r")
  /\ Witness(vm)

Line(vm) ==
  /\ Executing(vm)
  /\ depth[vm] > 0
  /\ UpdateStepper("l")
  /\ Witness(vm)
  /\ UNCHANGED depth

(* A line with a breakpoint: the stepper is not consulted.  The engine     *)
(* stops, unless the condition of the breakpoint does not hold.            *)
BreakpointLine(vm) ==
  /\ Executing(vm)
  /\ depth[vm] > 0
  /\ process' \in {"running", "stopped"}
  /\ Witness(vm)
  /\ UNCHANGED <<depth, pending, stepper, breakpoints>>

-----------------------------------------------------------------------------
(* Requests of the debug engine.                                           *)

(* Only a step into may fall through.  Enabling a null breakpoint throws,  *)
(* after everything else was written.                                      *)
OnStepNotification(kind) ==
  SquirrelCallNativeBreakpoint' =
    IF kind = "Into" /\ SquirrelCallNativeBreakpoint # "null"
      THEN "enabled" ELSE SquirrelCallNativeBreakpoint

(* Faulty: the counter of the previous step is kept.                       *)
StepOnOldCounter(kind, vm) ==
  /\ process = "stopped"
  /\ ActiveStepper' = kind
  /\ StepKind' = kind
  /\ OnStepNotification(kind)
  /\ origin' = [vm |-> vm, base |-> depth[vm], alone |-> TRUE]
  /\ UNCHANGED <<target, SteppingStackDepth, StepInFallthroughGuid,
                 SquirrelStepInFallthroughBreakpoint, fallthroughs>>

(* A stepper still active is cancelled and cleared first, which leaves no  *)
(* trace behind the writes of the new one.                                 *)
Step(kind, vm) ==
  /\ process = "stopped"
  /\ ActiveStepper' = kind
  /\ StepKind' = kind
  /\ SteppingStackDepth' = 0
  /\ OnStepNotification(kind)
  /\ origin' = [vm |-> vm, base |-> depth[vm], alone |-> TRUE]
  /\ UNCHANGED <<target, StepInFallthroughGuid,
                 SquirrelStepInFallthroughBreakpoint, fallthroughs>>

ClearStepperData ==
  /\ ActiveStepper' = "null"
  /\ SteppingStackDepth' = 0
  /\ StepKind' = "None"

(* StopStep, and the three arbitration callbacks with the same body.       *)
StopStep ==
  /\ ClearStepperData
  /\ UNCHANGED <<target, breakpoints, origin>>

(* A native step that ended on the way into Squirrel code is replaced by a *)
(* new step-into, already reported as complete; the counter keeps whatever *)
(* the previous step left in it.  Enabling the new stepper is up to the    *)
(* engine, which may call Step, and it is Step that resets the counter.    *)
TryInterceptTransitionStep(vm) ==
  /\ process = "stopped"
  /\ ActiveStepper' = "Into"
  /\ StepKind' = "Into"
  /\ \/ UNCHANGED <<SteppingStackDepth, SquirrelCallNativeBreakpoint>>
     \/ SteppingStackDepth' = 0 /\ OnStepNotification("Into")
  /\ origin' = [vm |-> vm, base |-> depth[vm], alone |-> TRUE]
  /\ UNCHANGED <<target, StepInFallthroughGuid,
                 SquirrelStepInFallthroughBreakpoint, fallthroughs>>

Continue ==
  /\ process = "stopped"
  /\ process' = "running"
  /\ UNCHANGED <<depth, pending, stepper, breakpoints, origin>>

(* Break All, a native breakpoint, a native step that completes.           *)
AsyncBreak ==
  /\ process = "running"
  /\ process' = "stopped"
  /\ UNCHANGED <<depth, pending, stepper, breakpoints, origin>>

-----------------------------------------------------------------------------
(* Falling through to native closures.                                     *)

(* The remote component remembers the breakpoint for an active stepper.    *)
OnStepFallthroughNotification(id) ==
  StepInFallthroughGuid' = IF ActiveStepper # "null" THEN id ELSE StepInFallthroughGuid

(* Faulty: the field is set only when a stepper is told.                   *)
CallNativeForStepper(vm, fn) ==
  /\ Executing(vm)
  /\ depth[vm] > 0
  /\ pending' = [pending EXCEPT ![vm] = fn]
  /\ \/ UNCHANGED breakpoints
     \/ /\ SquirrelCallNativeBreakpoint = "enabled"
        /\ Len(fallthroughs) < MaxFallthroughs
        /\ fallthroughs' = Append(fallthroughs, [at |-> fn, open |-> TRUE])
        /\ IF ActiveStepper # "null"
             THEN /\ StepInFallthroughGuid' = Len(fallthroughs) + 1
                  /\ SquirrelStepInFallthroughBreakpoint' = Len(fallthroughs) + 1
             ELSE UNCHANGED <<StepInFallthroughGuid, SquirrelStepInFallthroughBreakpoint>>
        /\ SquirrelCallNativeBreakpoint' = "disabled"
  /\ UNCHANGED <<process, depth, stepper, origin>>

(* SQVM::CallNative is entered for fn.  Its breakpoint, when enabled and   *)
(* when the closure can be evaluated, puts one on the native function and  *)
(* disables itself; only an active stepper gets to know the new one.       *)
CallNative(vm, fn) ==
  /\ Executing(vm)
  /\ depth[vm] > 0
  /\ pending' = [pending EXCEPT ![vm] = fn]
  /\ \/ UNCHANGED breakpoints
     \/ /\ SquirrelCallNativeBreakpoint = "enabled"
        /\ Len(fallthroughs) < MaxFallthroughs
        /\ fallthroughs' = Append(fallthroughs, [at |-> fn, open |-> TRUE])
        /\ SquirrelStepInFallthroughBreakpoint' = Len(fallthroughs) + 1
        /\ OnStepFallthroughNotification(Len(fallthroughs) + 1)
        /\ SquirrelCallNativeBreakpoint' = "disabled"
  /\ UNCHANGED <<process, depth, stepper, origin>>

(* CallNative fails before the function: wrong number or types of          *)
(* arguments.                                                              *)
RejectNative(vm) ==
  /\ process = "running"
  /\ pending[vm] # NoNative
  /\ pending' = [pending EXCEPT ![vm] = NoNative]
  /\ UNCHANGED <<process, depth, stepper, breakpoints, origin>>

HitsFallthrough(fn) ==
  /\ StepInFallthroughGuid # 0
  /\ fallthroughs[StepInFallthroughGuid] = [at |-> fn, open |-> TRUE]

(* Closes the breakpoint in the field, which keeps it.                     *)
OnStepFallthroughFinished ==
  fallthroughs' =
    IF SquirrelStepInFallthroughBreakpoint = 0 THEN fallthroughs
    ELSE [fallthroughs EXCEPT ![SquirrelStepInFallthroughBreakpoint].open = FALSE]

(* Arbitration may hand the step to the native runtime, whose callback     *)
(* clears the stepper.                                                     *)
OnStepFallthrough ==
  /\ ClearStepperData \/ UNCHANGED stepper
  /\ OnStepFallthroughFinished

(* The native function is entered.  Without an active stepper the handler  *)
(* throws on its null reference.                                           *)
EnterNative(vm) ==
  /\ process = "running"
  /\ pending[vm] # NoNative
  /\ pending' = [pending EXCEPT ![vm] = NoNative]
  /\ IF HitsFallthrough(pending[vm]) /\ ActiveStepper # "null"
       THEN OnStepFallthrough
       ELSE UNCHANGED <<stepper, fallthroughs>>
  /\ UNCHANGED <<process, depth, StepInFallthroughGuid, SquirrelCallNativeBreakpoint,
                 SquirrelStepInFallthroughBreakpoint, origin>>

-----------------------------------------------------------------------------
Interpreter(vm) ==
  \/ Call(vm) \/ Return(vm) \/ Line(vm) \/ BreakpointLine(vm)
  \/ \E fn \in Natives : CallNative(vm, fn)
  \/ RejectNative(vm) \/ EnterNative(vm)

Engine ==
  \/ \E kind \in Kinds, vm \in VMs : Step(kind, vm)
  \/ StopStep
  \/ \E vm \in VMs : TryInterceptTransitionStep(vm)
  \/ Continue
  \/ AsyncBreak

Next == (\E vm \in VMs : Interpreter(vm)) \/ Engine

Spec == Init /\ [][Next]_vars

-----------------------------------------------------------------------------
(* Properties.                                                             *)

Indices == 1 .. Len(fallthroughs)

(* Every variable stays in its type, and the component that closes a       *)
(* fallthrough breakpoint names the newest one.                            *)
TypeOK ==
  /\ process \in {"running", "stopped"}
  /\ depth \in [VMs -> 0 .. MaxDepth]
  /\ pending \in [VMs -> Natives \cup {NoNative}]
  /\ StepKind \in Kinds \cup {"None"}
  /\ SteppingStackDepth \in Int
  /\ ActiveStepper \in Kinds \cup {"null"}
  /\ fallthroughs \in Seq([at : Natives, open : BOOLEAN])
  /\ SquirrelStepInFallthroughBreakpoint = Len(fallthroughs)
  /\ StepInFallthroughGuid \in Indices \cup {0}
  /\ SquirrelCallNativeBreakpoint \in
       IF CallNativeFound THEN {"enabled", "disabled"} ELSE {"null"}
  /\ origin \in [vm : VMs, base : 0 .. MaxDepth, alone : BOOLEAN]

(* The helper is armed exactly while the remote component has a stepper,   *)
(* and for the kind of that stepper: neither a stepper whose end is never  *)
(* reported nor an armed helper whose reports nobody answers.              *)
ArmedTogether ==
  StepKind = IF ActiveStepper = "null" THEN "None" ELSE ActiveStepper

(* As long as no other VM runs, the counter of a step over or a step out   *)
(* measures how many frames above the requesting one the VM is, although   *)
(* it is neither saved per VM nor told in which frame the step began.      *)
CounterMeasuresFrames ==
  ActiveStepper \in {"Over", "Out"} /\ origin.alone /\ CallNativeFound =>
    /\ SteppingStackDepth = depth[origin.vm] - origin.base
    /\ SteppingStackDepth >= 0

(* Step Over and Step Out (README.md:20) end at the latest when the frame  *)
(* they were requested in returns.                                         *)
LeavesItsFrame ==
  /\ ActiveStepper \in {"Over", "Out"}
  /\ origin.alone
  /\ depth[origin.vm] = origin.base
  /\ depth'[origin.vm] < origin.base
StepEndsWithItsFrame == [][LeavesItsFrame => process' = "stopped"]_vars

(* The contract of stepping, with the step read off the active stepper and *)
(* the history of its request.                                             *)
NoStep == [kind |-> "none"]
CurrentStep == IF ActiveStepper = "null" THEN NoStep
               ELSE [kind |-> ActiveStepper, vm |-> origin.vm,
                     base |-> origin.base, alone |-> origin.alone]

Contract == INSTANCE StepContract
  WITH process <- process, depth <- depth, step <- CurrentStep

(* Every step ends where StepContract says: no earlier, no later.          *)
KeepsContract == Contract!Spec

=============================================================================
