---------------------------- MODULE MCDmmStarter ----------------------------
(* Instance of DmmStarter for TLC. *)
EXTENDS DmmStarter

\* One of three cores, two, or all.
SomeCores == {<<0>>, <<0, 1>>, <<0, 2>>, <<0, 1, 2>>}
===========================================================================
