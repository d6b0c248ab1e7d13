---------------------------- MODULE MCDmmSensor ----------------------------
(* Instance of DmmSensor for TLC. *)
EXTENDS DmmSensor, TLC

\* One of three cores, two, or all.
SomeCores == {<<0>>, <<0, 1>>, <<0, 2>>, <<0, 1, 2>>}

Symmetry == Permutations(CpuLoad)
===========================================================================
