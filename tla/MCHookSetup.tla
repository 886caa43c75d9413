----------------------------- MODULE MCHookSetup -----------------------------
(* Instances of HookSetup for TLC.                                         *)
EXTENDS HookSetup

=============================================================================
