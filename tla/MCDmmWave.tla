----------------------------- MODULE MCDmmWave ------------------------------
(* Instance of DmmWave for TLC: three wavebufs, the first feeding the second *)
(* and the second the third, each also feeding other receivers.              *)
EXTENDS DmmWave
CONSTANTS w1, w2, w3

ThreeNodes == {w1, w2, w3}
Chain == {<<w1, w2>>, <<w2, w3>>, <<w2, Other>>, <<w3, Other>>}
===========================================================================
