------------------------------ MODULE HookSetup ------------------------------
(***************************************************************************)
(* How a Squirrel VM gets its debug hook.  LocalComponent watches modules  *)
(* being loaded, injects the helper DLL by means of the attacher program   *)
(* and breaks at the end of sq_open.  There it suspends the thread that    *)
(* opened the VM and leaves a request in three globals of the helper.  A   *)
(* thread of the helper (HelperLoop) polls them, installs the hook, runs   *)
(* into a breakpoint that lets the component resume the suspended thread,  *)
(* and clears the globals one by one.                                      *)
(*                                                                         *)
(* An event of the debuggee and the handler it runs are one action.  VMs   *)
(* are numbered in the order in which they are opened.                     *)
(***************************************************************************)
EXTENDS Integers

CONSTANTS
  Threads,   (* threads of the debuggee that open VMs                      *)
  MaxVMs,    (* bound: VMs ever opened                                     *)
  NoThread

ASSUME HookSetupAssumption == MaxVMs \in Nat /\ NoThread \notin Threads

VMs == 1 .. MaxVMs
Null == 0

VARIABLES
  modules,              (* modules whose load was reported                 *)
  HookDataHolder,       (* local: injection was tried                      *)
  HelperState,          (* local: HelperState                              *)
  SquirrelHandle,       (* local: the VM registered last                   *)
  SuspendThread,        (* local: the thread to resume                     *)
  dll,                  (* the helper: absent, being mapped by the thread  *)
                        (* the attacher created, mapped, or initialized    *)
  sq_newclosure,        (* helper: is the request's function set?          *)
  sq_setdebughook,      (* helper: is the request's function set?          *)
  HelperHandle,         (* helper: SquirrelHandle of the request           *)
  HelperLoop,           (* helper: next step of its thread                 *)
  closureOf,            (* VM whose stack has the hook's closure on top    *)
  opened,               (* number of VMs opened                            *)
  thread,               (* what each thread does, and the VM it opened     *)
  hooked                (* VMs with the debug hook                         *)

localData == <<modules, HookDataHolder, HelperState, SquirrelHandle, SuspendThread>>
request == <<sq_newclosure, sq_setdebughook, HelperHandle>>
loop == <<HelperLoop, closureOf, hooked>>
vars == <<localData, dll, request, loop, opened, thread>>

Init ==
  /\ modules = {}
  /\ HookDataHolder = FALSE
  /\ HelperState = "NotInitialized"
  /\ SquirrelHandle = Null
  /\ SuspendThread = NoThread
  /\ dll = "absent"
  /\ sq_newclosure = FALSE
  /\ sq_setdebughook = FALSE
  /\ HelperHandle = Null
  /\ HelperLoop = "poll"
  /\ closureOf = Null
  /\ opened = 0
  /\ thread = [t \in Threads |-> [pc |-> "run", vm |-> Null]]
  /\ hooked = {}

-----------------------------------------------------------------------------
(* Module loads.                                                           *)

(* The attempt is made once: the holder stays when it fails, and so do the *)
(* breakpoints.  The attacher does not wait for the DLL to be loaded.      *)
InjectDebugHelper(loaded) ==
  IF {"kernel32", "squirrel"} \subseteq loaded /\ ~HookDataHolder
    THEN /\ HookDataHolder' = TRUE
         /\ dll' \in {"absent", "mapping"}
    ELSE UNCHANGED <<HookDataHolder, dll>>

(* kernel32, or the module with the symbols of Squirrel.                   *)
OnModuleInstanceLoad(module) ==
  /\ module \notin modules
  /\ modules' = modules \cup {module}
  /\ InjectDebugHelper(modules')
  /\ UNCHANGED <<HelperState, SquirrelHandle, SuspendThread, request, loop, opened, thread>>

(* Faulty: the helper counts as initialized as soon as it is there.        *)
InitalizeDebugHelperReady ==
  /\ dll = "mapping"
  /\ dll' = "mapped"
  /\ HelperState' = "Initialized"
  /\ UNCHANGED <<modules, HookDataHolder, SquirrelHandle, SuspendThread,
                 request, loop, opened, thread>>

(* The load of the helper is reported before its DllMain runs.             *)
InitalizeDebugHelper ==
  /\ dll = "mapping"
  /\ dll' = "mapped"
  /\ HelperState' = "WaitingForInitialization"
  /\ UNCHANGED <<modules, HookDataHolder, SquirrelHandle, SuspendThread,
                 request, loop, opened, thread>>

-----------------------------------------------------------------------------
(* Breakpoints in the debuggee.                                            *)

TrySetupDebugHooks(handle, state) ==
  IF handle # Null /\ state = "Initialized"
    THEN /\ sq_setdebughook' = TRUE
         /\ sq_newclosure' = TRUE
         /\ HelperHandle' = handle
    ELSE UNCHANGED request

(* Faulty: a VM that was opened in the meantime is forgotten.              *)
OnSquirrelHelperInitializedOnly ==
  /\ dll = "mapped"
  /\ dll' = "initialized"
  /\ HelperState' = "Initialized"
  /\ UNCHANGED <<modules, HookDataHolder, SquirrelHandle, SuspendThread,
                 request, loop, opened, thread>>

(* DllMain has started the helper's thread.                                *)
OnSquirrelHelperInitialized ==
  /\ dll = "mapped"
  /\ dll' = "initialized"
  /\ HelperState' = "Initialized"
  /\ TrySetupDebugHooks(SquirrelHandle, "Initialized")
  /\ UNCHANGED <<modules, HookDataHolder, SquirrelHandle, SuspendThread,
                 loop, opened, thread>>

(* Faulty: the thread only waits for a helper that is not ready yet.       *)
RegisterWithoutSuspend(t, vm) ==
  /\ SquirrelHandle' = vm
  /\ TrySetupDebugHooks(vm, HelperState)
  /\ IF HelperState # "Initialized"
       THEN /\ SuspendThread' = t
            /\ thread' = [thread EXCEPT ![t] = [pc |-> "suspended", vm |-> vm]]
       ELSE /\ thread' = [thread EXCEPT ![t] = [pc |-> "run", vm |-> vm]]
            /\ UNCHANGED SuspendThread

(* Whatever the state of the helper is, t is suspended: the hooks are set  *)
(* up now, or the helper is not initialized.                               *)
RegisterSquirrelState(t, vm) ==
  /\ SquirrelHandle' = vm
  /\ TrySetupDebugHooks(vm, HelperState)
  /\ SuspendThread' = t
  /\ thread' = [thread EXCEPT ![t] = [pc |-> "suspended", vm |-> vm]]

(* The size of SQChar was evaluated, but the helper's module, and with it  *)
(* IsSquirrelUnicode, is not there: the handler throws on a null reference *)
(* and t goes on.                                                          *)
RegistrationFails(t, vm) ==
  /\ dll \in {"absent", "mapping"}
  /\ thread' = [thread EXCEPT ![t] = [pc |-> "run", vm |-> vm]]
  /\ UNCHANGED <<SquirrelHandle, SuspendThread, request>>

(* t reaches the end of sq_open, where the injection put a breakpoint.     *)
SquirrelOpen(t) ==
  /\ thread[t].pc # "suspended"
  /\ HookDataHolder
  /\ opened < MaxVMs
  /\ opened' = opened + 1
  /\ RegisterSquirrelState(t, opened + 1) \/ RegistrationFails(t, opened + 1)
  /\ UNCHANGED <<modules, HookDataHolder, HelperState, dll, loop>>

(* The slot keeps the thread.                                              *)
OnCreatedDebugHookNativeClosure ==
  /\ HelperLoop = "created"
  /\ HelperLoop' = "clear_setdebughook"
  /\ thread' = [t \in Threads |->
                  IF t = SuspendThread /\ thread[t].pc = "suspended"
                    THEN [thread[t] EXCEPT !.pc = "resumed"] ELSE thread[t]]
  /\ UNCHANGED <<localData, dll, request, closureOf, opened, hooked>>

-----------------------------------------------------------------------------
(* HelperLoop.                                                             *)

helperIdle == <<localData, dll, opened, thread>>

RequestMade == sq_setdebughook /\ sq_newclosure /\ HelperHandle # Null

Poll ==
  /\ dll = "initialized"
  /\ HelperLoop = "poll"
  /\ RequestMade
  /\ HelperLoop' = "newclosure"
  /\ UNCHANGED <<helperIdle, request, closureOf, hooked>>

(* Faulty: the closure is announced before it is set as the hook.          *)
AnnounceNewClosure ==
  /\ HelperLoop = "newclosure"
  /\ closureOf' = HelperHandle
  /\ HelperLoop' = "created"
  /\ UNCHANGED <<helperIdle, request, hooked>>

CallNewClosure ==
  /\ HelperLoop = "newclosure"
  /\ closureOf' = HelperHandle
  /\ HelperLoop' = "setdebughook"
  /\ UNCHANGED <<helperIdle, request, hooked>>

(* The handle is read again, and the top of that VM's stack is the hook.   *)
CallSetDebugHook ==
  /\ HelperLoop = "setdebughook"
  /\ hooked' = IF HelperHandle = closureOf THEN hooked \cup {HelperHandle} ELSE hooked
  /\ HelperLoop' = "created"
  /\ UNCHANGED <<helperIdle, request, closureOf>>

ClearSetDebugHook ==
  /\ HelperLoop = "clear_setdebughook"
  /\ sq_setdebughook' = FALSE
  /\ HelperLoop' = "clear_newclosure"
  /\ UNCHANGED <<helperIdle, sq_newclosure, HelperHandle, closureOf, hooked>>

ClearNewClosure ==
  /\ HelperLoop = "clear_newclosure"
  /\ sq_newclosure' = FALSE
  /\ HelperLoop' = "clear_handle"
  /\ UNCHANGED <<helperIdle, sq_setdebughook, HelperHandle, closureOf, hooked>>

ClearHandle ==
  /\ HelperLoop = "clear_handle"
  /\ HelperHandle' = Null
  /\ HelperLoop' = "poll"
  /\ UNCHANGED <<helperIdle, sq_setdebughook, sq_newclosure, closureOf, hooked>>

-----------------------------------------------------------------------------
StartHelper == InitalizeDebugHelper \/ OnSquirrelHelperInitialized

RunHelperLoop ==
  \/ Poll \/ CallNewClosure \/ CallSetDebugHook \/ OnCreatedDebugHookNativeClosure
  \/ ClearSetDebugHook \/ ClearNewClosure \/ ClearHandle

Next ==
  \/ \E module \in {"kernel32", "squirrel"} : OnModuleInstanceLoad(module)
  \/ \E t \in Threads : SquirrelOpen(t)
  \/ StartHelper
  \/ RunHelperLoop

Spec == Init /\ [][Next]_vars

(* The remote thread loads the helper, and the helper's thread keeps       *)
(* polling every 10 ms.                                                    *)
FairSpec == Spec /\ WF_vars(StartHelper) /\ WF_vars(RunHelperLoop)

-----------------------------------------------------------------------------
(* Properties.                                                             *)

(* Every variable stays in its type, and the component takes the helper    *)
(* for initialized exactly when its thread is there to serve requests.     *)
TypeOK ==
  /\ HelperState = "Initialized" <=> dll = "initialized"
  /\ modules \subseteq {"kernel32", "squirrel"}
  /\ HookDataHolder \in BOOLEAN
  /\ HelperState \in {"NotInitialized", "WaitingForInitialization", "Initialized"}
  /\ SquirrelHandle \in VMs \cup {Null}
  /\ SuspendThread \in Threads \cup {NoThread}
  /\ dll \in {"absent", "mapping", "mapped", "initialized"}
  /\ sq_newclosure \in BOOLEAN
  /\ sq_setdebughook \in BOOLEAN
  /\ HelperHandle \in VMs \cup {Null}
  /\ HelperLoop \in {"poll", "newclosure", "setdebughook", "created",
                     "clear_setdebughook", "clear_newclosure", "clear_handle"}
  /\ closureOf \in VMs \cup {Null}
  /\ opened \in 0 .. MaxVMs
  /\ thread \in [Threads -> [pc : {"run", "suspended", "resumed"}, vm : VMs \cup {Null}]]
  /\ hooked \subseteq VMs

(* A thread that was suspended in sq_open goes on only when the VM it      *)
(* opened has its hook, so no line of its scripts is missed.               *)
ResumedHooked ==
  \A t \in Threads : thread[t].pc = "resumed" => thread[t].vm \in hooked

(* Between the two calls into the VM the request stays as it is: the       *)
(* closure is taken as the hook by the VM on whose stack it was pushed.    *)
RequestIsStable ==
  HelperLoop \in {"setdebughook", "created"} => HelperHandle = closureOf

(* A request made while the helper polls, or before it is initialized, is  *)
(* served: its thread is resumed, unless another VM is opened first.  A    *)
(* request made while the globals are being cleared has no such promise.   *)
Requested(t) ==
  /\ thread[t].pc = "suspended"
  /\ SuspendThread = t
  /\ HelperLoop = "poll"
  /\ dll \in {"mapping", "mapped"} \/ RequestMade
RequestIsServed ==
  \A t \in Threads :
    Requested(t) ~> (thread[t].pc = "resumed" \/ SuspendThread # t)

=============================================================================
