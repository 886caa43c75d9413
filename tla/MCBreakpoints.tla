---------------------------- MODULE MCBreakpoints ----------------------------
(* Instances of Breakpoints for TLC.                                       *)
EXTENDS Breakpoints, TLC

(* Threads, breakpoints and scripts are interchangeable.                   *)
Symmetry == Permutations(Threads) \cup Permutations(Breakpoints)
              \cup Permutations(Sources)

=============================================================================
