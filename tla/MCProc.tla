------------------------------- MODULE MCProc -------------------------------
(* Instances of Proc for TLC. *)
EXTENDS Proc, TLC

(* CPUs are interchangeable. *)
Symmetry == Permutations(CPUs)
=============================================================================
