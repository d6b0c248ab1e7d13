\* A chain of three wavebufs that is wired and unwired as they work.
SPECIFICATION Spec
CONSTANTS
  w1 = w1
  w2 = w2
  w3 = w3
  Node <- ThreeNodes
  Other = Other
  Wiring <- Chain
  MaxBuf = 2
INVARIANTS
  TypeOK
  SubscriptionsExact
  HookPointerSafe
PROPERTY DataSentOn
CHECK_DEADLOCK FALSE
