----------------------------- MODULE StepperLive -----------------------------
(***************************************************************************)
(* Liveness of a step into.  A line with a breakpoint whose condition does *)
(* not hold runs on without a word to the stepper (DebugHelper.h:284-291), *)
(* so code that keeps coming back to such lines and nothing else is never  *)
(* stepped into.  Stepper takes such a line as a step that may change      *)
(* nothing at all; here a bit flips with it, so that a specification can   *)
(* say of a behaviour whether these lines ever end.                        *)
(***************************************************************************)
EXTENDS Stepper

VARIABLE bypasses  (* history: parity of the lines that were passed over   *)

liveVars == <<vars, bypasses>>

LiveInit == Init /\ bypasses = 0

(* TraceLine found a breakpoint, the engine does not stop at it.           *)
BypassedLine(vm) ==
  /\ UNCHANGED process
  /\ BreakpointLine(vm)
  /\ bypasses' = 1 - bypasses

LiveNext ==
  \/ \E vm \in VMs : BypassedLine(vm)
  \/ Next /\ UNCHANGED bypasses

(* An event of code that is past any call of a native closure.             *)
Reports(vm) ==
  \/ (Line(vm) \/ Return(vm)) /\ UNCHANGED bypasses
  \/ BypassedLine(vm)

(* The threads of a running debuggee keep executing: a native call that is *)
(* about to be entered is entered or refused, and Squirrel code compiled   *)
(* with line information keeps reporting lines, with or without breakpoint,*)
(* or returns.  A loop on a single line that calls nothing but native      *)
(* closures reports nothing and is excluded.                               *)
FairSpec ==
  /\ LiveInit /\ [][LiveNext]_liveVars
  /\ \A vm \in VMs : WF_vars(EnterNative(vm) \/ RejectNative(vm))
  /\ SF_liveVars(\E vm \in VMs : Reports(vm))

Stepping == ActiveStepper = "Into" /\ process = "running"

(* A step into that is neither cancelled nor interrupted is reported, as   *)
(* long as Squirrel code runs and does not come back to lines with         *)
(* breakpoints that do not stop for ever.                                  *)
IntoIsReported ==
  <>[][\A vm \in VMs : ~BypassedLine(vm)]_liveVars =>
    ((Stepping /\ \E vm \in VMs : depth[vm] > 0) ~> ~Stepping)

=============================================================================
