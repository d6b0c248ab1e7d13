---------------------------- MODULE MCDmmStream -----------------------------
(* Instance of DmmStream for TLC: two hosts whose sensors send blocks of    *)
(* one to three data nodes, with vectors of one and of two cells, values     *)
(* that wrap and a sensor that is in its block twice.                        *)
EXTENDS DmmStream
CONSTANTS h1, h2, s1, s2

\* The hosts are alike.
Symmetry == Permutations({h1, h2})

Dn(s, v) == [sensor |-> s, data |-> v]
ThreeBlocks == {<<Dn(s1, <<3>>), Dn(s2, <<0, 1>>), Dn(s2, <<3, 2>>)>>,
                <<Dn(s1, <<0>>), Dn(s2, <<2, 0>>)>>, <<Dn(s1, <<1, 3>>)>>}
===========================================================================
