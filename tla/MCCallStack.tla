----------------------------- MODULE MCCallStack -----------------------------
(* Model checking of CallStack. *)
EXTENDS CallStack, TLC

Symmetry == Permutations(VMs)

==============================================================================
