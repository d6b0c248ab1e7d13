\* The same: does a thread learn that its command has failed?
SPECIFICATION Spec
CONSTANTS
  Node = {c1, c2}
  Thread = {t1, t2, t3}
  Module = Module
  Nowhere = Nowhere
  MaxToken = 2
  NoThread = NoThread
  NoMsg = NoMsg
SYMMETRY Symmetry
INVARIANT ErrorsAreTold
CHECK_DEADLOCK FALSE
