---------------------------- MODULE HookSetupProofs ----------------------------
(***************************************************************************)
(* Proofs about HookSetup: type correctness for any number of threads, and *)
(* for a single thread that opens any number of VMs, that it is resumed    *)
(* only with the hook in place.                                            *)
(***************************************************************************)
EXTENDS HookSetup, TLAPS

OneThread == \E t \in Threads : Threads = {t}

(* Where every thread is: suspended, with this VM.                         *)
AllWaitWith(vm) ==
  \A t \in Threads : thread[t].pc = "suspended" /\ thread[t].vm = vm

(* Before the helper is initialized it serves nothing, and what will be    *)
(* requested is for the thread that waits.                                 *)
BeforeInitialized ==
  dll # "initialized" =>
    /\ HelperLoop = "poll"
    /\ HelperHandle = Null
    /\ SquirrelHandle # Null => AllWaitWith(SquirrelHandle)

(* Outside of the clearing, a request is that of the thread that waits.    *)
(* While the globals are cleared nothing is promised: the thread may have  *)
(* opened another VM, whose request is partly erased.                      *)
Serving == {"newclosure", "setdebughook", "created"}

RequestOfWaiting ==
  HelperLoop \in Serving \cup {"poll"} /\ HelperHandle # Null =>
    AllWaitWith(HelperHandle)

HookedWhenCreated == HelperLoop = "created" => HelperHandle \in hooked

(* What type correctness rests on, with any number of threads: the helper  *)
(* is there only after it was injected, and serves a VM, not nothing.      *)
TypeInv ==
  /\ TypeOK
  /\ ~HookDataHolder => dll = "absent"
  /\ HelperLoop \in Serving => HelperHandle # Null

(* The inductive invariant for one thread.                                 *)
IInv ==
  /\ TypeInv
  /\ BeforeInitialized
  /\ RequestOfWaiting
  /\ RequestIsStable
  /\ HookedWhenCreated
  /\ ResumedHooked

-----------------------------------------------------------------------------
(* Type correctness.                                                       *)

ThreadState == [pc : {"run", "suspended", "resumed"}, vm : VMs \cup {Null}]

(* A thread that opened a VM is suspended with it, or goes on.             *)
LEMMA OpenTyped ==
  ASSUME TypeOK, NEW t \in Threads, NEW vm \in VMs,
         RegisterSquirrelState(t, vm) \/ RegistrationFails(t, vm)
  PROVE  /\ thread' \in [Threads -> ThreadState]
         /\ \A u \in Threads \ {t} : thread'[u] = thread[u]
         /\ thread'[t].vm = vm
         /\ thread'[t].pc \in {"suspended", "run"}
<1>1. PICK h \in ThreadState :
        /\ thread' = [thread EXCEPT ![t] = h]
        /\ h.vm = vm
        /\ h.pc \in {"suspended", "run"}
  <2>1. CASE RegisterSquirrelState(t, vm)
    <3> DEFINE h == [pc |-> "suspended", vm |-> vm]
    <3>1. h \in ThreadState /\ h.vm = vm /\ h.pc = "suspended"
      BY DEF ThreadState
    <3>2. thread' = [thread EXCEPT ![t] = h]
      BY <2>1 DEF RegisterSquirrelState
    <3> HIDE DEF h
    <3>3. QED
      BY <3>1, <3>2
  <2>2. CASE RegistrationFails(t, vm)
    <3> DEFINE h == [pc |-> "run", vm |-> vm]
    <3>1. h \in ThreadState /\ h.vm = vm /\ h.pc = "run"
      BY DEF ThreadState
    <3>2. thread' = [thread EXCEPT ![t] = h]
      BY <2>2 DEF RegistrationFails
    <3> HIDE DEF h
    <3>3. QED
      BY <3>1, <3>2
  <2>3. QED
    BY <2>1, <2>2
<1>2. QED
  BY <1>1 DEF TypeOK, ThreadState

(* A thread that is resumed keeps its VM.                                  *)
LEMMA ResumeTyped ==
  ASSUME TypeOK, OnCreatedDebugHookNativeClosure
  PROVE  /\ thread' \in [Threads -> ThreadState]
         /\ \A t \in Threads :
              \/ thread'[t] = thread[t]
              \/ /\ thread[t].pc = "suspended"
                 /\ thread'[t].vm = thread[t].vm
<1> DEFINE wakes(t) == t = SuspendThread /\ thread[t].pc = "suspended"
           h(t) == IF wakes(t) THEN [thread[t] EXCEPT !.pc = "resumed"] ELSE thread[t]
<1>1. ASSUME NEW t \in Threads
      PROVE  /\ h(t) \in ThreadState
             /\ \/ h(t) = thread[t]
                \/ /\ thread[t].pc = "suspended"
                   /\ h(t).vm = thread[t].vm
  <2>1. thread[t] \in ThreadState
    BY DEF TypeOK, ThreadState
  <2>2. CASE wakes(t)
    BY <2>1, <2>2 DEF ThreadState
  <2>3. CASE ~wakes(t)
    BY <2>1, <2>3
  <2>4. QED
    BY <2>2, <2>3
<1>2. thread' = [t \in Threads |-> h(t)]
  BY DEF OnCreatedDebugHookNativeClosure
<1> HIDE DEF h
<1>3. QED
  BY <1>1, <1>2

LEMMA NextTypeInv == TypeInv /\ [Next]_vars => TypeInv'
<1> SUFFICES ASSUME TypeInv, [Next]_vars PROVE TypeInv'
  OBVIOUS
<1> USE HookSetupAssumption
    DEF TypeInv, TypeOK, Serving, localData, request, loop, helperIdle
<1>1. ASSUME NEW module \in {"kernel32", "squirrel"}, OnModuleInstanceLoad(module)
      PROVE  TypeInv'
  <2>1. /\ modules' = modules \cup {module}
        /\ UNCHANGED <<HelperState, SquirrelHandle, SuspendThread, request, loop,
                       opened, thread>>
    BY <1>1 DEF OnModuleInstanceLoad
  <2>2. \/ HookDataHolder' = TRUE /\ dll' \in {"absent", "mapping"} /\ ~HookDataHolder
        \/ UNCHANGED <<HookDataHolder, dll>>
    BY <1>1 DEF OnModuleInstanceLoad, InjectDebugHelper
  <2>3. modules' \subseteq {"kernel32", "squirrel"}
    BY <2>1
  <2>4. CASE UNCHANGED <<HookDataHolder, dll>>
    BY <2>1, <2>3, <2>4
  <2>5. CASE HookDataHolder' = TRUE /\ dll' \in {"absent", "mapping"} /\ ~HookDataHolder
    BY <2>1, <2>3, <2>5
  <2>6. QED
    BY <2>2, <2>4, <2>5
<1>2. ASSUME NEW t \in Threads, SquirrelOpen(t)
      PROVE  TypeInv'
  <2> DEFINE vm == opened + 1
  <2>1. /\ RegisterSquirrelState(t, vm) \/ RegistrationFails(t, vm)
        /\ opened' = opened + 1
        /\ UNCHANGED <<modules, HookDataHolder, HelperState, dll, loop>>
    BY <1>2 DEF SquirrelOpen
  <2>2. vm \in VMs /\ vm # Null /\ opened + 1 \in 0 .. MaxVMs
    BY <1>2 DEF SquirrelOpen, VMs, Null
  <2> HIDE DEF vm
  <2>3. thread' \in [Threads -> ThreadState]
    BY <2>1, <2>2, OpenTyped
  <2>4. /\ SquirrelHandle' \in VMs \cup {Null}
        /\ SuspendThread' \in Threads \cup {NoThread}
        /\ sq_newclosure' \in BOOLEAN /\ sq_setdebughook' \in BOOLEAN
        /\ HelperHandle' \in VMs \cup {Null}
        /\ HelperHandle # Null => HelperHandle' # Null
    BY <2>1, <2>2 DEF RegisterSquirrelState, RegistrationFails, TrySetupDebugHooks
  <2>5. QED
    BY <2>1, <2>2, <2>3, <2>4 DEF ThreadState
<1>3. CASE InitalizeDebugHelper
  BY <1>3 DEF InitalizeDebugHelper
<1>4. CASE OnSquirrelHelperInitialized
  BY <1>4 DEF OnSquirrelHelperInitialized, TrySetupDebugHooks
<1>5. CASE OnCreatedDebugHookNativeClosure
  BY <1>5, ResumeTyped DEF OnCreatedDebugHookNativeClosure, ThreadState
<1>6. CASE Poll \/ CallNewClosure \/ CallSetDebugHook
  BY <1>6 DEF Poll, CallNewClosure, CallSetDebugHook, RequestMade
<1>7. CASE ClearSetDebugHook \/ ClearNewClosure \/ ClearHandle
  BY <1>7 DEF ClearSetDebugHook, ClearNewClosure, ClearHandle
<1>8. CASE UNCHANGED vars
  BY <1>8 DEF vars
<1>9. QED
  BY <1>1, <1>2, <1>3, <1>4, <1>5, <1>6, <1>7, <1>8
    DEF Next, StartHelper, RunHelperLoop

LEMMA InitTypeInv == Init => TypeInv
<1> SUFFICES ASSUME Init PROVE TypeInv
  OBVIOUS
<1> DEFINE start == [pc |-> "run", vm |-> Null]
<1>1. start \in ThreadState
  BY DEF ThreadState
<1>2. thread = [t \in Threads |-> start]
  BY DEF Init
<1> HIDE DEF start
<1>3. thread \in [Threads -> ThreadState]
  BY <1>1, <1>2
<1>4. opened \in 0 .. MaxVMs
  BY HookSetupAssumption DEF Init
<1>5. QED
  BY <1>3, <1>4 DEF Init, TypeInv, TypeOK, ThreadState, Serving

(* Type correctness for any number of threads: among others, the component *)
(* takes the helper for initialized exactly when its thread is there to    *)
(* serve requests, and no hook is installed in a null VM.                  *)
THEOREM TypeCorrect == Spec => []TypeOK
<1>1. TypeInv => TypeOK
  BY DEF TypeInv
<1>2. QED
  BY <1>1, InitTypeInv, NextTypeInv, PTL DEF Spec

-----------------------------------------------------------------------------
(* One thread.                                                             *)

(* The thread that opens a VM did not wait, so nothing was requested for   *)
(* it, unless the globals are just being cleared; now it waits with the    *)
(* new VM, and is the only one.                                            *)
LEMMA SquirrelOpenStep ==
  ASSUME IInv, TypeInv', OneThread, NEW t \in Threads, SquirrelOpen(t)
  PROVE  IInv'
<1> DEFINE vm == opened + 1
<1>1. /\ thread[t].pc # "suspended"
      /\ RegisterSquirrelState(t, vm) \/ RegistrationFails(t, vm)
      /\ HelperState' = HelperState /\ dll' = dll /\ HelperLoop' = HelperLoop
      /\ closureOf' = closureOf /\ hooked' = hooked
  BY DEF SquirrelOpen, loop
<1>2. vm \in VMs /\ vm # Null
  BY HookSetupAssumption DEF SquirrelOpen, IInv, TypeInv, TypeOK, VMs, Null
<1> HIDE DEF vm
<1>3. Threads = {t}
  BY DEF OneThread
<1>4. /\ thread' \in [Threads -> ThreadState]
      /\ thread'[t].vm = vm
      /\ thread'[t].pc \in {"suspended", "run"}
  BY <1>1, <1>2, OpenTyped DEF IInv, TypeInv
<1>5. ASSUME NEW other, AllWaitWith(other)  PROVE FALSE
  BY <1>1, <1>5 DEF AllWaitWith
<1>6. HelperLoop \notin Serving
  BY <1>5 DEF IInv, TypeInv, RequestOfWaiting
<1>7. HelperLoop = "poll" => HelperHandle = Null
  BY <1>5 DEF IInv, RequestOfWaiting
<1>8. dll # "initialized" => SquirrelHandle = Null /\ HelperHandle = Null
  BY <1>5 DEF IInv, BeforeInitialized
<1>9. HelperState = "Initialized" <=> dll = "initialized"
  BY DEF IInv, TypeInv, TypeOK
<1>10. BeforeInitialized' /\ RequestOfWaiting'
  <2>1. CASE RegisterSquirrelState(t, vm)
    <3>1. thread'[t].pc = "suspended"
      <4> DEFINE h == [pc |-> "suspended", vm |-> vm]
      <4>1. h.pc = "suspended"
        OBVIOUS
      <4>2. thread' = [thread EXCEPT ![t] = h]
        BY <2>1 DEF RegisterSquirrelState
      <4> HIDE DEF h
      <4>3. QED
        BY <4>1, <4>2 DEF IInv, TypeInv, TypeOK
    <3>2. \A u \in Threads : thread'[u].pc = "suspended" /\ thread'[u].vm = vm
      BY <1>3, <1>4, <3>1
    <3>3. SquirrelHandle' = vm
      BY <2>1 DEF RegisterSquirrelState
    <3>4. BeforeInitialized'
      <4>1. dll # "initialized" => HelperHandle' = HelperHandle
        BY <1>9, <2>1 DEF RegisterSquirrelState, TrySetupDebugHooks, request
      <4>2. dll # "initialized" => HelperLoop = "poll"
        BY DEF IInv, BeforeInitialized
      <4>3. AllWaitWith(SquirrelHandle)'
        BY <3>2, <3>3 DEF AllWaitWith
      <4>4. QED
        BY <1>1, <1>8, <4>1, <4>2, <4>3 DEF BeforeInitialized
    <3>5. RequestOfWaiting'
      <4>1. \/ HelperHandle' = vm
            \/ HelperHandle' = HelperHandle
        BY <2>1 DEF RegisterSquirrelState, TrySetupDebugHooks, request
      <4>2. CASE HelperHandle' = vm
        <5>1. AllWaitWith(HelperHandle)'
          BY <3>2, <4>2 DEF AllWaitWith
        <5>2. QED
          BY <5>1 DEF RequestOfWaiting
      <4>3. CASE HelperHandle' = HelperHandle
        BY <1>1, <1>6, <1>7, <4>3 DEF RequestOfWaiting, Serving
      <4>4. QED
        BY <4>1, <4>2, <4>3
    <3>6. QED
      BY <3>4, <3>5
  <2>2. CASE RegistrationFails(t, vm)
    BY <1>1, <1>6, <1>7, <1>8, <2>2
      DEF RegistrationFails, request, IInv, BeforeInitialized, RequestOfWaiting, Serving
  <2>3. QED
    BY <1>1, <2>1, <2>2
<1>11. ResumedHooked'
  BY <1>3, <1>4 DEF ResumedHooked
<1>12. RequestIsStable' /\ HookedWhenCreated'
  BY <1>1, <1>6 DEF RequestIsStable, HookedWhenCreated, Serving
<1>13. QED
  BY <1>10, <1>11, <1>12 DEF IInv

(* The thread resumed waited with the VM whose hook was just set.          *)
LEMMA ResumeStep ==
  ASSUME IInv, TypeInv', OnCreatedDebugHookNativeClosure
  PROVE  IInv'
<1>1. /\ HelperLoop = "created"
      /\ HelperLoop' = "clear_setdebughook"
      /\ dll' = dll /\ hooked' = hooked
  BY DEF OnCreatedDebugHookNativeClosure, localData
<1>2. AllWaitWith(HelperHandle) /\ HelperHandle \in hooked
  BY <1>1 DEF IInv, TypeInv, RequestOfWaiting, HookedWhenCreated, Serving
<1>3. dll = "initialized"
  BY <1>1 DEF IInv, BeforeInitialized
<1>4. \A t \in Threads : thread'[t].vm = thread[t].vm
  BY ResumeTyped DEF IInv, TypeInv
<1>5. ResumedHooked'
  BY <1>1, <1>2, <1>4 DEF ResumedHooked, AllWaitWith
<1>6. BeforeInitialized' /\ RequestOfWaiting' /\ RequestIsStable' /\ HookedWhenCreated'
  BY <1>1, <1>3
    DEF BeforeInitialized, RequestOfWaiting, RequestIsStable, HookedWhenCreated, Serving
<1>7. QED
  BY <1>5, <1>6 DEF IInv

(* The other steps move no thread.                                         *)
LEMMA OtherSteps ==
  ASSUME IInv, TypeInv',
         \/ \E module \in {"kernel32", "squirrel"} : OnModuleInstanceLoad(module)
         \/ StartHelper
         \/ Poll \/ CallNewClosure \/ CallSetDebugHook
         \/ ClearSetDebugHook \/ ClearNewClosure \/ ClearHandle
         \/ UNCHANGED vars
  PROVE  IInv'
<1> USE DEF IInv, BeforeInitialized, RequestOfWaiting, RequestIsStable,
            HookedWhenCreated, ResumedHooked, AllWaitWith, Serving,
            localData, request, loop, helperIdle
<1>1. ASSUME NEW module \in {"kernel32", "squirrel"}, OnModuleInstanceLoad(module)
      PROVE  IInv'
  <2>1. UNCHANGED <<HelperState, SquirrelHandle, SuspendThread, request, loop,
                    opened, thread>>
    BY <1>1 DEF OnModuleInstanceLoad
  <2>2. dll' = dll \/ dll = "absent"
    BY <1>1 DEF OnModuleInstanceLoad, InjectDebugHelper, TypeInv
  <2>3. QED
    BY <2>1, <2>2
<1>2. CASE InitalizeDebugHelper
  BY <1>2 DEF InitalizeDebugHelper
<1>3. CASE OnSquirrelHelperInitialized
  BY <1>3 DEF OnSquirrelHelperInitialized, TrySetupDebugHooks
<1>4. CASE Poll
  BY <1>4 DEF Poll, RequestMade
<1>5. CASE CallNewClosure
  BY <1>5 DEF CallNewClosure
<1>6. CASE CallSetDebugHook
  BY <1>6 DEF CallSetDebugHook
<1>7. CASE ClearSetDebugHook \/ ClearNewClosure \/ ClearHandle
  BY <1>7 DEF ClearSetDebugHook, ClearNewClosure, ClearHandle
<1>8. CASE UNCHANGED vars
  BY <1>8 DEF vars
<1>9. QED
  BY <1>1, <1>2, <1>3, <1>4, <1>5, <1>6, <1>7, <1>8 DEF StartHelper

LEMMA NextIInv == OneThread /\ IInv /\ [Next]_vars => IInv'
<1> SUFFICES ASSUME OneThread, IInv, [Next]_vars PROVE IInv'
  OBVIOUS
<1>1. TypeInv'
  BY NextTypeInv DEF IInv
<1>2. QED
  BY <1>1, SquirrelOpenStep, ResumeStep, OtherSteps DEF Next, RunHelperLoop

LEMMA InitIInv == Init => IInv
<1> SUFFICES ASSUME Init PROVE IInv
  OBVIOUS
<1>1. TypeInv
  BY InitTypeInv
<1>2. \A t \in Threads : thread[t].pc = "run"
  BY DEF Init
<1>3. QED
  BY <1>1, <1>2
    DEF Init, IInv, BeforeInitialized, RequestOfWaiting, RequestIsStable,
        HookedWhenCreated, ResumedHooked, Serving, Null

(* A single thread, whatever VMs it opens while the helper is injected,    *)
(* serves it or clears its request, is resumed in sq_open only after the   *)
(* hook was set in the VM it opened, so that no line of its scripts runs   *)
(* unseen.                                                                 *)
THEOREM OneThreadResumedHooked ==
  ASSUME OneThread
  PROVE  Spec => []ResumedHooked
<1>1. IInv /\ [Next]_vars => IInv'
  BY NextIInv
<1>2. IInv => ResumedHooked
  BY DEF IInv
<1>3. QED
  BY <1>1, <1>2, InitIInv, PTL DEF Spec

(* And the closure HelperLoop made is taken as the hook by that same VM.   *)
THEOREM OneThreadRequestStable ==
  ASSUME OneThread
  PROVE  Spec => []RequestIsStable
<1>1. IInv /\ [Next]_vars => IInv'
  BY NextIInv
<1>2. IInv => RequestIsStable
  BY DEF IInv
<1>3. QED
  BY <1>1, <1>2, InitIInv, PTL DEF Spec

=============================================================================
