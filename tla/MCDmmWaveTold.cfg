\* The chain again: is everyone told of the end of the wave?
SPECIFICATION Spec
CONSTANTS
  w1 = w1
  w2 = w2
  w3 = w3
  Node <- ThreeNodes
  Other = Other
  Wiring <- Chain
  MaxBuf = 2
INVARIANT AllTold
CHECK_DEADLOCK FALSE
