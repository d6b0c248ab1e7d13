---------------------------- MODULE MCDmmControl ----------------------------
(* Instance of DmmControl for TLC. *)
EXTENDS DmmControl, TLC

Symmetry == Permutations(Node) \cup Permutations(Thread)
=============================================================================
