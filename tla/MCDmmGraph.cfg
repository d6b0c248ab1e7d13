\* Three nodes, two of them with handlers, four hook blocks, calls nested
\* six deep.
SPECIFICATION Spec
CONSTANTS
  Node = {n1, n2, n3}
  Sink = {n1, n2}
  Hook = {h1, h2, h3, h4}
  Name = {data}
  NoNode = NoNode
  NoHook = NoHook
  NoKey = NoKey
  MaxDepth = 6
  CutActive = FALSE
SYMMETRY Symmetry
INVARIANTS
  TypeOK
  HookRefsExact
  NodeRefsExact
  NoDangling
  ConnectionsSound
  HookNamesUnique
  NoLeakWhenIdle
PROPERTY ImplementsTopology
CHECK_DEADLOCK FALSE
