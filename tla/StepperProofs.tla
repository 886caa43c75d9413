---------------------------- MODULE StepperProofs ----------------------------
(***************************************************************************)
(* Proofs about Stepper, for every set of VMs and native closures and for  *)
(* every bound.                                                            *)
(***************************************************************************)
EXTENDS Stepper, SequenceTheorems, TLAPS

Fallthrough == [at : Natives, open : BOOLEAN]

(* Closing the breakpoint in the field keeps the list one of breakpoints,  *)
(* of the same length.                                                     *)
LEMMA CloseKeepsList ==
  ASSUME TypeOK, OnStepFallthroughFinished
  PROVE  /\ fallthroughs' \in Seq(Fallthrough)
         /\ Len(fallthroughs') = Len(fallthroughs)
<1> DEFINE id == SquirrelStepInFallthroughBreakpoint
<1>1. fallthroughs \in Seq(Fallthrough) /\ id = Len(fallthroughs)
  BY DEF TypeOK, Fallthrough
<1>2. CASE id = 0
  BY <1>1, <1>2 DEF OnStepFallthroughFinished
<1>3. CASE id # 0
  <2>1. id \in 1 .. Len(fallthroughs)
    BY <1>1, <1>3, LenProperties
  <2>2. fallthroughs[id] \in Fallthrough
    BY <1>1, <2>1, ElementOfSeq
  <2> DEFINE closed == [fallthroughs[id] EXCEPT !.open = FALSE]
  <2>3. closed \in Fallthrough
    BY <2>2 DEF Fallthrough
  <2>4. fallthroughs' = [fallthroughs EXCEPT ![id] = closed]
    BY <1>3 DEF OnStepFallthroughFinished
  <2>5. QED
    BY <1>1, <2>1, <2>3, <2>4, ExceptSeq
<1>4. QED
  BY <1>2, <1>3

(* A new breakpoint extends the list by one.                               *)
LEMMA AppendKeepsList ==
  ASSUME TypeOK, NEW fn \in Natives,
         fallthroughs' = Append(fallthroughs, [at |-> fn, open |-> TRUE])
  PROVE  /\ fallthroughs' \in Seq(Fallthrough)
         /\ Len(fallthroughs') = Len(fallthroughs) + 1
BY AppendProperties DEF TypeOK, Fallthrough

(* The history stays a record of a request, and of the same one.           *)
LEMMA WitnessTyped ==
  ASSUME NEW vm \in VMs, Witness(vm),
         origin \in [vm : VMs, base : 0 .. MaxDepth, alone : BOOLEAN]
  PROVE  /\ origin' \in [vm : VMs, base : 0 .. MaxDepth, alone : BOOLEAN]
         /\ origin'.vm = origin.vm /\ origin'.base = origin.base
         /\ origin'.alone = (origin.alone /\ vm = origin.vm)
<1>1. origin' = [vm |-> origin.vm, base |-> origin.base,
                 alone |-> (origin.alone /\ vm = origin.vm)]
  BY DEF Witness
<1>2. (origin.alone /\ vm = origin.vm) \in BOOLEAN
  BY Zenon
<1>3. QED
  BY <1>1, <1>2

(* UpdateStepper keeps everything it may touch in its type.                *)
LEMMA UpdateStepperTyped ==
  ASSUME TypeOK, NEW event \in Events, UpdateStepper(event)
  PROVE  /\ process' \in {"running", "stopped"}
         /\ StepKind' \in Kinds \cup {"None"}
         /\ SteppingStackDepth' \in Int
         /\ ActiveStepper' \in Kinds \cup {"null"}
         /\ SquirrelCallNativeBreakpoint' \in
              IF CallNativeFound THEN {"enabled", "disabled"} ELSE {"null"}
         /\ UNCHANGED <<pending, StepInFallthroughGuid,
                        SquirrelStepInFallthroughBreakpoint, fallthroughs>>
<1> USE StepperAssumption DEF TypeOK
<1>1. SteppingStackDepth' \in Int
  BY DEF UpdateStepper, DepthAfter
<1>2. CASE CallsStepComplete(event)
  BY <1>1, <1>2 DEF UpdateStepper, OnStepCompleted, OnStepFinished
<1>3. CASE ~CallsStepComplete(event)
  BY <1>1, <1>3 DEF UpdateStepper
<1>4. QED
  BY <1>2, <1>3

(* Type correctness, including the order of the fallthrough breakpoints:   *)
(* the field always names the newest one.                                  *)
THEOREM TypeCorrect == Spec => []TypeOK
<1>1. Init => TypeOK
  <2> SUFFICES ASSUME Init
               PROVE  TypeOK
    OBVIOUS
  <2>1. fallthroughs \in Seq([at : Natives, open : BOOLEAN]) /\ Len(fallthroughs) = 0
    BY EmptySeq DEF Init
  <2>2. origin \in [vm : VMs, base : 0 .. MaxDepth, alone : BOOLEAN]
    BY StepperAssumption DEF Init
  <2>3. QED
    BY <2>1, <2>2, StepperAssumption DEF Init, TypeOK, Kinds
<1>2. TypeOK /\ [Next]_vars => TypeOK'
  <2> SUFFICES ASSUME TypeOK, [Next]_vars
               PROVE  TypeOK'
    OBVIOUS
  <2> USE StepperAssumption DEF TypeOK, Kinds, Indices, target, stepper, breakpoints
  <2>1. ASSUME NEW vm \in VMs, Call(vm)
        PROVE  TypeOK'
    <3>1. depth' \in [VMs -> 0 .. MaxDepth]
      BY <2>1 DEF Call
    <3>2. origin' \in [vm : VMs, base : 0 .. MaxDepth, alone : BOOLEAN]
      BY <2>1, WitnessTyped DEF Call
    <3>3. QED
      BY <2>1, <3>1, <3>2, UpdateStepperTyped DEF Call, Events
  <2>2. ASSUME NEW vm \in VMs, Return(vm)
        PROVE  TypeOK'
    <3>1. depth' \in [VMs -> 0 .. MaxDepth]
      BY <2>2 DEF Return
    <3>2. origin' \in [vm : VMs, base : 0 .. MaxDepth, alone : BOOLEAN]
      BY <2>2, WitnessTyped DEF Return
    <3>3. QED
      BY <2>2, <3>1, <3>2, UpdateStepperTyped DEF Return, Events
  <2>3. ASSUME NEW vm \in VMs, Line(vm)
        PROVE  TypeOK'
    <3>1. depth' \in [VMs -> 0 .. MaxDepth]
      BY <2>3 DEF Line
    <3>2. origin' \in [vm : VMs, base : 0 .. MaxDepth, alone : BOOLEAN]
      BY <2>3, WitnessTyped DEF Line
    <3>3. QED
      BY <2>3, <3>1, <3>2, UpdateStepperTyped DEF Line, Events
  <2>4. ASSUME NEW vm \in VMs, BreakpointLine(vm)
        PROVE  TypeOK'
    BY <2>4, WitnessTyped DEF BreakpointLine
  <2>5. ASSUME NEW vm \in VMs, NEW fn \in Natives, CallNative(vm, fn)
        PROVE  TypeOK'
    <3>1. CASE UNCHANGED breakpoints
      BY <2>5, <3>1 DEF CallNative
    <3>2. CASE ~UNCHANGED breakpoints
      <4>1. /\ fallthroughs' \in Seq(Fallthrough)
            /\ Len(fallthroughs') = Len(fallthroughs) + 1
        BY <2>5, <3>2, AppendKeepsList DEF CallNative
      <4>2. Len(fallthroughs) \in Nat
        BY LenProperties
      <4>3. QED
        BY <2>5, <3>2, <4>1, <4>2 DEF CallNative, OnStepFallthroughNotification, Fallthrough
    <3>3. QED
      BY <3>1, <3>2
  <2>6. ASSUME NEW vm \in VMs, RejectNative(vm)
        PROVE  TypeOK'
    BY <2>6 DEF RejectNative
  <2>7. ASSUME NEW vm \in VMs, EnterNative(vm)
        PROVE  TypeOK'
    <3>1. CASE UNCHANGED <<stepper, fallthroughs>>
      BY <2>7, <3>1 DEF EnterNative
    <3>2. CASE OnStepFallthrough
      <4>1. /\ fallthroughs' \in Seq(Fallthrough)
            /\ Len(fallthroughs') = Len(fallthroughs)
        BY <3>2, CloseKeepsList DEF OnStepFallthrough
      <4>2. QED
        BY <2>7, <3>2, <4>1 DEF EnterNative, OnStepFallthrough, ClearStepperData, Fallthrough
    <3>3. QED
      BY <2>7, <3>1, <3>2 DEF EnterNative
  <2>8. ASSUME NEW kind \in Kinds, NEW vm \in VMs, Step(kind, vm)
        PROVE  TypeOK'
    BY <2>8 DEF Step, OnStepNotification
  <2>9. CASE StopStep
    BY <2>9 DEF StopStep, ClearStepperData
  <2>10. ASSUME NEW vm \in VMs, TryInterceptTransitionStep(vm)
         PROVE  TypeOK'
    BY <2>10 DEF TryInterceptTransitionStep, OnStepNotification
  <2>11. CASE Continue
    BY <2>11 DEF Continue
  <2>12. CASE AsyncBreak
    BY <2>12 DEF AsyncBreak
  <2>13. CASE UNCHANGED vars
    BY <2>13 DEF vars
  <2>14. QED
    BY <2>1, <2>2, <2>3, <2>4, <2>5, <2>6, <2>7, <2>8, <2>9, <2>10, <2>11, <2>12, <2>13
       DEF Next, Interpreter, Engine
<1>3. QED
  BY <1>1, <1>2, PTL DEF Spec

-----------------------------------------------------------------------------
(* The debugger and the helper agree on whether there is a step and which. *)
THEOREM Armed == Spec => []ArmedTogether
<1>1. Init => ArmedTogether
  BY DEF Init, ArmedTogether
<1>2. TypeOK /\ ArmedTogether /\ [Next]_vars => ArmedTogether'
  <2> SUFFICES ASSUME TypeOK, ArmedTogether, [Next]_vars
               PROVE  ArmedTogether'
    OBVIOUS
  <2> USE DEF ArmedTogether, stepper, breakpoints
  <2>1. ASSUME NEW event, UpdateStepper(event)
        PROVE  ArmedTogether'
    BY <2>1 DEF UpdateStepper, OnStepCompleted
  <2>2. ASSUME NEW vm \in VMs, Interpreter(vm)
        PROVE  ArmedTogether'
    <3>1. CASE Call(vm) \/ Return(vm) \/ Line(vm)
      BY <2>1, <3>1 DEF Call, Return, Line
    <3>2. CASE BreakpointLine(vm) \/ RejectNative(vm)
      BY <3>2 DEF BreakpointLine, RejectNative
    <3>3. CASE \E fn \in Natives : CallNative(vm, fn)
      BY <3>3 DEF CallNative
    <3>4. CASE EnterNative(vm)
      BY <3>4 DEF EnterNative, OnStepFallthrough, ClearStepperData
    <3>5. QED
      BY <2>2, <3>1, <3>2, <3>3, <3>4 DEF Interpreter
  <2>3. CASE Engine
    BY <2>3 DEF Engine, Kinds, Step, StopStep, ClearStepperData,
                TryInterceptTransitionStep, Continue, AsyncBreak
  <2>4. CASE UNCHANGED vars
    BY <2>4 DEF vars
  <2>5. QED
    BY <2>2, <2>3, <2>4 DEF Next
<1>3. QED
  BY <1>1, <1>2, TypeCorrect, PTL DEF Spec

(* Of a step over or out, the counter is the number of frames above the    *)
(* one it was requested in.  The proof needs ArmedTogether: the helper     *)
(* counts for the very kind the stepper has.                               *)
THEOREM CounterMeasures == Spec => []CounterMeasuresFrames
<1>1. Init => CounterMeasuresFrames
  BY DEF Init, CounterMeasuresFrames
<1>2. /\ TypeOK /\ TypeOK' /\ ArmedTogether /\ ArmedTogether'
      /\ CounterMeasuresFrames /\ [Next]_vars
      => CounterMeasuresFrames'
  <2> SUFFICES ASSUME TypeOK, TypeOK', ArmedTogether, ArmedTogether',
                      CounterMeasuresFrames, [Next]_vars,
                      ActiveStepper' \in {"Over", "Out"}, origin'.alone, CallNativeFound
               PROVE  /\ SteppingStackDepth' = depth'[origin'.vm] - origin'.base
                      /\ SteppingStackDepth' >= 0
    BY DEF CounterMeasuresFrames
  <2> USE StepperAssumption DEF TypeOK, ArmedTogether, CounterMeasuresFrames
  <2>1. ASSUME NEW vm \in VMs, NEW event \in Events, UpdateStepper(event), Witness(vm)
        PROVE  /\ ~CallsStepComplete(event)
               /\ SteppingStackDepth' = DepthAfter(event)
               /\ ActiveStepper' = ActiveStepper /\ StepKind = ActiveStepper
               /\ vm = origin.vm /\ origin'.vm = vm /\ origin'.base = origin.base
               /\ SteppingStackDepth = depth[vm] - origin.base
               /\ SteppingStackDepth >= 0
    <3>1. /\ vm = origin.vm /\ origin'.vm = vm /\ origin'.base = origin.base /\ origin.alone
      BY <2>1, WitnessTyped
    <3>2. ~CallsStepComplete(event) /\ ActiveStepper' = ActiveStepper
      BY <2>1 DEF UpdateStepper, OnStepCompleted
    <3>3. QED
      BY <2>1, <3>1, <3>2 DEF UpdateStepper
  <2>2. ASSUME NEW vm \in VMs, Call(vm)
        PROVE  /\ SteppingStackDepth' = depth'[origin'.vm] - origin'.base
               /\ SteppingStackDepth' >= 0
    BY <2>1, <2>2 DEF Call, DepthAfter, Events
  <2>3. ASSUME NEW vm \in VMs, Return(vm)
        PROVE  /\ SteppingStackDepth' = depth'[origin'.vm] - origin'.base
               /\ SteppingStackDepth' >= 0
    BY <2>1, <2>3 DEF Return, DepthAfter, CallsStepComplete, StepOver, Events
  <2>4. ASSUME NEW vm \in VMs, Line(vm)
        PROVE  /\ SteppingStackDepth' = depth'[origin'.vm] - origin'.base
               /\ SteppingStackDepth' >= 0
    BY <2>1, <2>4 DEF Line, DepthAfter, Events
  <2>5. ASSUME NEW vm \in VMs, BreakpointLine(vm)
        PROVE  /\ SteppingStackDepth' = depth'[origin'.vm] - origin'.base
               /\ SteppingStackDepth' >= 0
    BY <2>5, WitnessTyped DEF BreakpointLine, stepper
  <2>6. CASE UNCHANGED <<depth, stepper, origin>>
    BY <2>6 DEF stepper
  <2>7. ASSUME NEW vm \in VMs, EnterNative(vm)
        PROVE  UNCHANGED <<depth, stepper, origin>>
    BY <2>7 DEF EnterNative, OnStepFallthrough, ClearStepperData, stepper
  <2>8. ASSUME NEW kind \in Kinds, NEW vm \in VMs, Step(kind, vm)
        PROVE  /\ SteppingStackDepth' = depth'[origin'.vm] - origin'.base
               /\ SteppingStackDepth' >= 0
    BY <2>8 DEF Step, target
  <2>9. QED
    BY <2>2, <2>3, <2>4, <2>5, <2>6, <2>7, <2>8
       DEF Next, Interpreter, Engine, CallNative, RejectNative, StopStep, ClearStepperData,
           TryInterceptTransitionStep, Continue, AsyncBreak, vars, target
<1>3. QED
  BY <1>1, <1>2, TypeCorrect, Armed, PTL DEF Spec

-----------------------------------------------------------------------------
(* Stepper implements StepContract.                                        *)

StepInv == TypeOK /\ ArmedTogether /\ CounterMeasuresFrames

LEMMA StepIsNone == TypeOK => (CurrentStep = NoStep <=> ActiveStepper = "null")
<1> SUFFICES ASSUME TypeOK
             PROVE  CurrentStep = NoStep <=> ActiveStepper = "null"
  OBVIOUS
<1>1. CASE ActiveStepper = "null"
  BY <1>1 DEF CurrentStep
<1>2. CASE ActiveStepper # "null"
  <2>1. CurrentStep.kind = ActiveStepper /\ ActiveStepper # "none"
    BY <1>2 DEF CurrentStep, TypeOK, Kinds
  <2>2. NoStep.kind = "none"
    BY DEF NoStep
  <2>3. QED
    BY <1>2, <2>1, <2>2
<1>3. QED
  BY <1>1, <1>2

(* A step that the event does not end keeps its request and loses its      *)
(* solitude to the event of another VM.                                    *)
LEMMA StepPasses ==
  ASSUME TypeOK, NEW vm \in VMs, Witness(vm), UNCHANGED ActiveStepper
  PROVE  CurrentStep' = IF CurrentStep = NoStep THEN NoStep
                        ELSE [CurrentStep EXCEPT !.alone = @ /\ vm = CurrentStep.vm]
<1>1. CASE ActiveStepper = "null"
  BY <1>1 DEF CurrentStep
<1>2. CASE ActiveStepper # "null"
  <2>1. CurrentStep # NoStep
    BY <1>2, StepIsNone
  <2>2. CurrentStep' = [kind |-> ActiveStepper, vm |-> origin.vm,
                        base |-> origin.base,
                        alone |-> (origin.alone /\ vm = origin.vm)]
    BY <1>2, WitnessTyped DEF CurrentStep, TypeOK
  <2>3. CurrentStep = [kind |-> ActiveStepper, vm |-> origin.vm,
                       base |-> origin.base,
                       alone |-> origin.alone]
    BY <1>2 DEF CurrentStep
  <2>4. QED
    BY <2>1, <2>2, <2>3
<1>3. QED
  BY <1>1, <1>2

(* The helper ends a step of an undisturbed VM exactly when it is due.     *)
LEMMA DueWhenCounted ==
  ASSUME StepInv, CallNativeFound, ActiveStepper # "null", origin.alone,
         NEW event \in Events
  PROVE  CallsStepComplete(event) <=> Contract!Due(event)
<1>1. /\ CurrentStep.kind = ActiveStepper
      /\ CurrentStep.vm = origin.vm /\ CurrentStep.base = origin.base
      /\ StepKind = ActiveStepper
  BY DEF CurrentStep, StepInv, ArmedTogether
<1>2. /\ ActiveStepper \in Kinds /\ SteppingStackDepth \in Int
      /\ depth[origin.vm] \in Nat /\ origin.base \in Nat
  BY StepperAssumption DEF StepInv, TypeOK
<1>3. CASE ActiveStepper = "Into"
  BY <1>1, <1>3 DEF CallsStepComplete, Contract!Due
<1>4. CASE ActiveStepper \in {"Over", "Out"}
  <2>1. SteppingStackDepth = depth[origin.vm] - origin.base /\ SteppingStackDepth >= 0
    BY <1>4 DEF StepInv, CounterMeasuresFrames
  <2>2. CASE ActiveStepper = "Over"
    <3>1. CallsStepComplete(event) <=> event # "c" /\ SteppingStackDepth = 0
      BY <1>1, <1>2, <2>1, <2>2 DEF CallsStepComplete, StepOver, Events
    <3>2. Contract!Due(event) <=> event # "c" /\ depth[origin.vm] <= origin.base
      BY <1>1, <2>2 DEF Contract!Due
    <3>3. SteppingStackDepth = 0 <=> depth[origin.vm] <= origin.base
      BY <1>2, <2>1
    <3>4. QED
      BY <3>1, <3>2, <3>3
  <2>3. CASE ActiveStepper = "Out"
    <3>1. CallsStepComplete(event) <=> event = "r" /\ SteppingStackDepth = 0
      BY <1>1, <2>3 DEF CallsStepComplete
    <3>2. Contract!Due(event) <=> event = "r" /\ depth[origin.vm] <= origin.base
      BY <1>1, <2>3 DEF Contract!Due
    <3>3. SteppingStackDepth = 0 <=> depth[origin.vm] <= origin.base
      BY <1>2, <2>1
    <3>4. QED
      BY <3>1, <3>2, <3>3
  <2>4. QED
    BY <1>4, <2>2, <2>3
<1>5. QED
  BY <1>2, <1>3, <1>4 DEF Kinds

LEMMA ReportImplemented ==
  ASSUME StepInv, CallNativeFound, NEW vm \in VMs, NEW event \in Events,
         UpdateStepper(event), Witness(vm)
  PROVE  Contract!Report(vm, event)
<1> USE DEF StepInv
<1>1. CASE UNCHANGED <<ActiveStepper, process>> /\ (ActiveStepper # "null" => ~CallsStepComplete(event))
  <2>1. Contract!Pass(vm)
    BY <1>1, StepPasses DEF Contract!Pass
  <2>2. CurrentStep # NoStep /\ CurrentStep.alone => ~Contract!Due(event)
    BY <1>1, DueWhenCounted, StepIsNone DEF CurrentStep
  <2>3. QED
    BY <2>1, <2>2 DEF Contract!Report
<1>2. CASE ActiveStepper # "null" /\ CallsStepComplete(event)
  <2>1. ActiveStepper' = "null" /\ process' = "stopped"
    BY <1>2 DEF UpdateStepper, OnStepCompleted, ArmedTogether, TypeOK, Kinds
  <2>2. Contract!Complete /\ CurrentStep # NoStep
    BY <1>2, <2>1, StepIsNone DEF Contract!Complete, CurrentStep
  <2>3. CurrentStep.alone => Contract!Due(event)
    BY <1>2, DueWhenCounted DEF CurrentStep
  <2>4. QED
    BY <2>2, <2>3 DEF Contract!Report
<1>3. QED
  BY <1>1, <1>2 DEF UpdateStepper, OnStepCompleted, ArmedTogether, CallsStepComplete

(* Without an event the step is kept, cancelled or requested.              *)
LEMMA StepUnchanged ==
  ASSUME UNCHANGED <<ActiveStepper, origin>>
  PROVE  UNCHANGED CurrentStep
BY DEF CurrentStep

LEMMA Abandoned ==
  ASSUME UNCHANGED <<process, depth>>, ClearStepperData
  PROVE  Contract!Abandon
BY DEF ClearStepperData, Contract!Abandon, CurrentStep

LEMMA Requested ==
  ASSUME process = "stopped", UNCHANGED <<process, depth>>,
         NEW kind \in Kinds, NEW vm \in VMs, ActiveStepper' = kind,
         origin' = [vm |-> vm, base |-> depth[vm], alone |-> TRUE]
  PROVE  Contract!Request(kind, vm)
<1>1. ActiveStepper' # "null"
  BY DEF Kinds
<1>2. CurrentStep' = [kind |-> kind, vm |-> vm, base |-> depth[vm], alone |-> TRUE]
  BY <1>1 DEF CurrentStep
<1>3. QED
  BY <1>2 DEF Contract!Request

(* Every step of Stepper is one of the contract, or leaves its state.      *)
LEMMA StepImplements ==
  ASSUME StepInv, CallNativeFound, [Next]_vars
  PROVE  [Contract!Next]_(Contract!vars)
<1> USE DEF StepInv, target, stepper, breakpoints
<1>1. ASSUME NEW vm \in VMs, Call(vm)
      PROVE  Contract!Call(vm)
  BY <1>1, ReportImplemented DEF Call, Executing, Contract!Call, Events
<1>2. ASSUME NEW vm \in VMs, Return(vm)
      PROVE  Contract!Return(vm)
  BY <1>2, ReportImplemented DEF Return, Executing, Contract!Return, Events
<1>3. ASSUME NEW vm \in VMs, Line(vm)
      PROVE  Contract!Line(vm)
  BY <1>3, ReportImplemented DEF Line, Executing, Contract!Line, Events
<1>4. ASSUME NEW vm \in VMs, BreakpointLine(vm)
      PROVE  Contract!BreakpointLine(vm)
  BY <1>4, StepPasses DEF BreakpointLine, Executing, Contract!BreakpointLine
<1>5. ASSUME NEW vm \in VMs, NEW fn \in Natives, CallNative(vm, fn)
      PROVE  UNCHANGED Contract!vars
  BY <1>5, StepUnchanged DEF CallNative, Contract!vars
<1>6. ASSUME NEW vm \in VMs, RejectNative(vm)
      PROVE  UNCHANGED Contract!vars
  BY <1>6, StepUnchanged DEF RejectNative, Contract!vars
<1>7. ASSUME NEW vm \in VMs, EnterNative(vm)
      PROVE  Contract!Abandon \/ UNCHANGED Contract!vars
  BY <1>7, StepUnchanged, Abandoned DEF EnterNative, OnStepFallthrough, Contract!vars
<1>8. ASSUME NEW kind \in Kinds, NEW vm \in VMs, Step(kind, vm)
      PROVE  Contract!Request(kind, vm)
  BY <1>8, Requested DEF Step
<1>9. CASE StopStep
  BY <1>9, Abandoned DEF StopStep, Contract!Next
<1>10. ASSUME NEW vm \in VMs, TryInterceptTransitionStep(vm)
       PROVE  Contract!Request("Into", vm)
  BY <1>10, Requested DEF TryInterceptTransitionStep, Kinds
<1>11. CASE Continue \/ AsyncBreak
  <2>1. Contract!Toggle
    BY <1>11, StepUnchanged DEF Continue, AsyncBreak, Contract!Toggle
  <2>2. QED
    BY <2>1 DEF Contract!Next
<1>12. CASE UNCHANGED vars
  BY <1>12, StepUnchanged DEF vars, Contract!vars
<1>13. CASE \E vm \in VMs : Interpreter(vm)
  BY <1>13, <1>1, <1>2, <1>3, <1>4, <1>5, <1>6, <1>7 DEF Interpreter, Contract!Next
<1>14. CASE Engine
  BY <1>14, <1>8, <1>9, <1>10, <1>11 DEF Engine, Contract!Next, Kinds
<1>15. QED
  BY <1>12, <1>13, <1>14 DEF Next

(* When the symbols name SQVM::CallNative, every Step In, Over and Out     *)
(* ends where the contract says, for any number of VMs and any depth.      *)
THEOREM ContractKept ==
  ASSUME CallNativeFound
  PROVE  Spec => KeepsContract
<1>1. Init => Contract!Init
  BY DEF Init, Contract!Init, CurrentStep
<1>2. StepInv /\ [Next]_vars => [Contract!Next]_(Contract!vars)
  BY StepImplements
<1>3. Spec => []StepInv
  BY TypeCorrect, Armed, CounterMeasures, PTL DEF StepInv
<1>4. QED
  BY <1>1, <1>2, <1>3, PTL DEF Spec, KeepsContract, Contract!Spec

=============================================================================
