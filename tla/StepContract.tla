----------------------------- MODULE StepContract -----------------------------
(***************************************************************************)
(* What Step In, Step Over and Step Out promise, without the counter the   *)
(* implementation keeps: a step remembers the frame it was requested in    *)
(* and ends at the first event that belongs to that frame or to one of its *)
(* callers.  The promise is made to a single VM: the first event of        *)
(* another one releases the implementation from it.                        *)
(***************************************************************************)
EXTENDS Integers

CONSTANTS VMs, MaxDepth, NoStep

VARIABLES
  process,  (* "running" or "stopped" for the user                         *)
  depth,    (* frames of each VM                                           *)
  step      (* NoStep, or [kind, vm, base, alone]                          *)

vars == <<process, depth, step>>

Steps == [kind : {"Into", "Over", "Out"}, vm : VMs, base : Nat, alone : BOOLEAN]

Init ==
  /\ process = "running"
  /\ depth = [vm \in VMs |-> 0]
  /\ step = NoStep

(* Is the step due when its VM reports this event?  The depth is the one   *)
(* before the event: a return is reported in the frame that returns.       *)
Due(event) ==
  \/ step.kind = "Into" /\ event # "c"
  \/ step.kind = "Over" /\ event # "c" /\ depth[step.vm] <= step.base
  \/ step.kind = "Out" /\ event = "r" /\ depth[step.vm] <= step.base

Complete == step' = NoStep /\ process' = "stopped"

Pass(vm) ==
  /\ step' = IF step = NoStep THEN NoStep
             ELSE [step EXCEPT !.alone = @ /\ vm = step.vm]
  /\ UNCHANGED process

Report(vm, event) ==
  IF step # NoStep /\ step.alone /\ step.vm = vm
    THEN IF Due(event) THEN Complete ELSE Pass(vm)
    ELSE Pass(vm) \/ (step # NoStep /\ Complete)

Call(vm) ==
  /\ process = "running"
  /\ depth[vm] < MaxDepth
  /\ Report(vm, "c")
  /\ depth' = [depth EXCEPT ![vm] = @ + 1]

Return(vm) ==
  /\ process = "running"
  /\ depth[vm] > 0
  /\ Report(vm, "r")
  /\ depth' = [depth EXCEPT ![vm] = @ - 1]

Line(vm) ==
  /\ process = "running"
  /\ depth[vm] > 0
  /\ Report(vm, "l")
  /\ UNCHANGED depth

(* A breakpoint takes precedence over the step and leaves it in place.     *)
BreakpointLine(vm) ==
  /\ process = "running"
  /\ depth[vm] > 0
  /\ step' = IF step = NoStep THEN NoStep
             ELSE [step EXCEPT !.alone = @ /\ vm = step.vm]
  /\ process' \in {"running", "stopped"}
  /\ UNCHANGED depth

Request(kind, vm) ==
  /\ process = "stopped"
  /\ step' = [kind |-> kind, vm |-> vm, base |-> depth[vm], alone |-> TRUE]
  /\ UNCHANGED <<process, depth>>

(* The step is cancelled or handed to the native runtime.                  *)
Abandon ==
  /\ step' = NoStep
  /\ UNCHANGED <<process, depth>>

Toggle ==
  /\ process' = IF process = "running" THEN "stopped" ELSE "running"
  /\ UNCHANGED <<depth, step>>

Next ==
  \/ \E vm \in VMs : Call(vm) \/ Return(vm) \/ Line(vm) \/ BreakpointLine(vm)
  \/ \E kind \in {"Into", "Over", "Out"}, vm \in VMs : Request(kind, vm)
  \/ Abandon
  \/ Toggle

Spec == Init /\ [][Next]_vars

=============================================================================
