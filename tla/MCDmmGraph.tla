---------------------------- MODULE MCDmmGraph ----------------------------
(* Instance of DmmGraph for TLC. *)
EXTENDS DmmGraph, TLC

Symmetry == Permutations(Node \ Sink) \cup Permutations(Sink) \cup Permutations(Hook)
===========================================================================
