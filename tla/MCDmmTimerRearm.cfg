\* One timer, one node that sets it.
SPECIFICATION Spec
CONSTANTS
  Node = {n1}
  Event = {t1}
  NoNode = NoNode
  NoEvent = NoEvent
  RemoveNext = FALSE
  Interval = {0, 2}
  Delay = {0, 1}
  AbsTime = {1}
  Coalesce = 2
  MaxTime = 3
INVARIANT SetIsKept
CHECK_DEADLOCK FALSE
