\* Two Lua nodes, three threads, two commands from each node.
SPECIFICATION Spec
CONSTANTS
  Node = {c1, c2}
  Thread = {t1, t2, t3}
  Module = Module
  Nowhere = Nowhere
  MaxToken = 2
  NoThread = NoThread
  NoMsg = NoMsg
SYMMETRY Symmetry
INVARIANTS
  TypeOK
  WaitingSound
  MainStackExact
  StateOutlivesCalls
PROPERTY ResumedByOwn
CHECK_DEADLOCK FALSE
