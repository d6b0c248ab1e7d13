\* A recv node and a script's node, two descriptors, two socket events in
\* the life of the system, one sender.
SPECIFICATION NetSpec
CONSTANTS
  Node = {n1, r1}
  Recv = {r1}
  Sender = {s1}
  Addr = {a1}
  Event = {e1, e2}
  Fd = {fd1, fd2}
  Mask = {in, out}
  In = in
  MaxArrivals = 2
  NoNode = NoNode
  NoEvent = NoEvent
  NoFd = NoFd
  NoMask = NoMask
  NoAddr = NoAddr
  RemoveNext = FALSE
INVARIANTS
  NetTypeOK
  SockRefsExact
  EpollExact
  FlagsTell
PROPERTY HeardOrGone
CHECK_DEADLOCK FALSE
