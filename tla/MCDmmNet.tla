------------------------------ MODULE MCDmmNet ------------------------------
(* Instance of DmmNet for TLC. *)
EXTENDS DmmNet
===========================================================================
