\* Two timers, two nodes, periodic and one-shot.
SPECIFICATION Spec
CONSTANTS
  Node = {n1, n2}
  Event = {t1, t2}
  NoNode = NoNode
  NoEvent = NoEvent
  RemoveNext = FALSE
  Interval = {0, 2}
  Delay = {0, 1}
  AbsTime = {2}
  Coalesce = 2
  MaxTime = 3
SYMMETRY Symmetry
INVARIANTS
  TypeOK
  SubscriptionsSound
  RefsExact
  QueueSorted
  RegisteredAsSet
PROPERTY NeverEarly
CHECK_DEADLOCK FALSE
