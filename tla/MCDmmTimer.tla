----------------------------- MODULE MCDmmTimer -----------------------------
(* Instance of DmmTimer for TLC. *)
EXTENDS DmmTimer, TLC

Symmetry == Permutations(Node) \cup Permutations(Event)
===========================================================================
