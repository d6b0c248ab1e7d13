\* Two timers, one node; no symmetry, for liveness.
SPECIFICATION Spec
CONSTANTS
  Node = {n1}
  Event = {t1, t2}
  NoNode = NoNode
  NoEvent = NoEvent
  RemoveNext = FALSE
  Interval = {0, 2}
  Delay = {0, 1}
  AbsTime = {1}
  Coalesce = 2
  MaxTime = 3
PROPERTIES
  DueTriggers
CHECK_DEADLOCK FALSE
