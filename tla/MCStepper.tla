------------------------------ MODULE MCStepper ------------------------------
(* Instances of Stepper for TLC.                                           *)
EXTENDS Stepper, TLC

(* VMs are interchangeable, and so are the addresses of native closures.   *)
Symmetry == Permutations(VMs) \cup Permutations(Natives)

=============================================================================
