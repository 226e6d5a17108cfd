------------------------------- MODULE MCLog -------------------------------
(* Instances of Log for TLC. *)
EXTENDS Log, TLC

(* Processes and home blocks are interchangeable. *)
Symmetry == Permutations(Ops) \cup Permutations(Blocks)
=============================================================================
