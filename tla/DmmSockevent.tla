---------------------------- MODULE DmmSockevent ----------------------------
(***************************************************************************)
(* Socket events (dmm_sockevent.c): the events of file descriptors, their  *)
(* subscribers (DmmEvent) and what epoll knows of them.                    *)
(*                                                                         *)
(* A socket event exists as long as it has subscribers.  The epoll set     *)
(* holds its address: dmm_sockevent_process follows whatever epoll_wait    *)
(* returns.  The kernel, outside of the program, drops a descriptor from   *)
(* the set when it is closed.                                              *)
(***************************************************************************)
EXTENDS DmmEvent

CONSTANTS
  Fd,   \* file descriptors
  Mask, \* what can be waited for: sets of DMM_SOCKEVENT_IN and _OUT
  NoFd, NoMask

ASSUME SockeventAssumption ==
  IsFiniteSet(Fd) /\ NoFd \notin Fd /\ NoMask \notin Mask

VARIABLES
  se_fd,     \* the descriptor of each socket event
  se_events, \* se_sockevents: what it waits for
  selist,    \* sockeventlist, newest first
  open,      \* the open descriptors
  epoll,     \* the epoll set: the address registered for each descriptor,
  waits      \*   and what is waited for

sockets == <<se_fd, se_events, selist>>
kernel == <<open, epoll, waits>>
vars == <<eventVars, sockets, kernel>>

TypeOK ==
  /\ EventTypeOK
  /\ se_fd \in [Event -> Fd \cup {NoFd}] /\ se_events \in [Event -> Mask \cup {NoMask}]
  /\ selist \in Seq(Event)
  /\ open \subseteq Fd
  /\ epoll \in [Fd -> Event \cup {NoEvent}] /\ waits \in [Fd -> Mask \cup {NoMask}]

InEpoll(fd) == epoll[fd] # NoEvent
-----------------------------------------------------------------------------
(* The end of a socket event.                                              *)

\* A variant of sockevent_destructor without EPOLL_CTL_DEL.
DeletedNone(dead) == {}

\* EPOLL_CTL_DEL of the destroyed events' descriptors, by number: whatever
\* the number now stands for leaves the epoll set.
Deleted(dead) == {se_fd[e] : e \in dead}

\* References are released; events without any are destroyed
\* (sockevent_destructor).
ReleaseSockets(er, nr, ns) ==
  LET dead == {e \in Event : ev_state[e] = "valid" /\ er[e] = 0}
      fds  == Deleted(dead)
  IN  /\ Release(er, nr, ev_state, ns)
      /\ selist' = Kept(selist, dead)
      /\ epoll' = [fd \in Fd |-> IF fd \in fds THEN NoEvent ELSE epoll[fd]]
      /\ waits' = [fd \in Fd |-> IF fd \in fds THEN NoMask ELSE waits[fd]]
      /\ UNCHANGED <<se_fd, se_events, open>>
-----------------------------------------------------------------------------
(* Commands of the handlers.                                               *)

\* A variant of dmm_sockevent_subscribe without the DMM_SOCKEVENT_UNREF.
RefsOfNewKept(e) == [ev_refs EXCEPT ![e] = 2]

\* dmm_event_init, the subscriber's reference, and DMM_SOCKEVENT_UNREF.
RefsOfNew(e) == [ev_refs EXCEPT ![e] = 1]

\* DMM_MSG_SOCKEVENTSUBSCRIBE of a descriptor that epoll does not know:
\* EPOLL_CTL_ADD succeeds with a new event e.
SubscribeNew(fd, mask, n, e) ==
  /\ InHandler /\ nd_state[n] = "valid" /\ fd \in open /\ ~InEpoll(fd)
  /\ ev_state[e] = "unborn" /\ ev_state' = [ev_state EXCEPT ![e] = "valid"]
  /\ se_fd' = [se_fd EXCEPT ![e] = fd] /\ se_events' = [se_events EXCEPT ![e] = mask]
  /\ selist' = <<e>> \o selist
  /\ epoll' = [epoll EXCEPT ![fd] = e] /\ waits' = [waits EXCEPT ![fd] = mask]
  /\ Subscribe(e, n)
  /\ ev_refs' = RefsOfNew(e)
  /\ UNCHANGED <<nd_state, delivery, open>>

\* dmm_sockevent_fd2ref: the newest event of the descriptor.
EventsOf(fd) == Kept(selist, {e \in Event : se_fd[e] # fd})
EventOf(fd) == FirstOf(EventsOf(fd), NoEvent)

\* A variant that leaves the address of the freed, unused event in ev.data.
AddressOfFreed(fd, e) == NoEvent

\* "Previous se was free'ed, so fill in the right one".
AddressFor(fd, e) == e

\* The same when epoll knows the descriptor (EEXIST): its event waits for
\* what was asked for last, and the node is subscribed if it is not yet.
SubscribeExisting(fd, mask, n) ==
  LET e == EventOf(fd)
      new == ~Subscribed(e, n)
  IN  /\ InHandler /\ nd_state[n] = "valid" /\ fd \in open /\ InEpoll(fd)
      /\ IF se_events[e] # mask
         THEN /\ se_events' = [se_events EXCEPT ![e] = mask]
              /\ epoll' = [epoll EXCEPT ![fd] = AddressFor(fd, e)]
              /\ waits' = [waits EXCEPT ![fd] = mask]
         ELSE UNCHANGED <<se_events, epoll, waits>>
      /\ IF new THEN Subscribe(e, n) ELSE UNCHANGED <<subscriptions, nd_refs>>
      /\ ev_refs' = IF new THEN [ev_refs EXCEPT ![e] = @ + 1] ELSE ev_refs
      /\ UNCHANGED <<nd_state, ev_state, delivery, se_fd, selist, open>>

\* DMM_MSG_SOCKEVENTUNSUBSCRIBE.
Unsubscribe(fd, n) ==
  LET e == EventOf(fd)
      pairs == {<<e, n>>}
  IN  /\ InHandler /\ nd_state[n] = "valid"
      /\ e # NoEvent /\ Subscribed(e, n) /\ MayRemove(pairs)
      /\ CellsRemoved(pairs)
      /\ ReleaseSockets(EventRefsWithout(pairs), NodeRefsWithout(pairs), nd_state)
      /\ UNCHANGED delivery

\* DMM_MSG_NODERM, for a node that has subscriptions or none.
NodeRm(n) ==
  LET pairs == SubscriptionsOf(n)
      refs  == NodeRefsWithout(pairs)
  IN  /\ InHandler /\ nd_state[n] = "valid" /\ MayRemove(pairs)
      /\ CellsRemoved(pairs)
      /\ ReleaseSockets(EventRefsWithout(pairs), [refs EXCEPT ![n] = @ - 1],
                        [nd_state EXCEPT ![n] = "invalid"])
      /\ UNCHANGED delivery

\* A module opens a descriptor, or closes it after its last subscriber has
\* gone, as the destructor's EPOLL_CTL_DEL demands.
Open(fd) ==
  /\ InHandler /\ fd \notin open /\ open' = open \cup {fd}
  /\ UNCHANGED <<eventVars, sockets, epoll, waits>>

Close(fd) ==
  /\ InHandler /\ fd \in open /\ EventOf(fd) = NoEvent
  /\ open' = open \ {fd}
  /\ epoll' = [epoll EXCEPT ![fd] = NoEvent] /\ waits' = [waits EXCEPT ![fd] = NoMask]
  /\ UNCHANGED <<eventVars, sockets>>
-----------------------------------------------------------------------------
(* The main loop: epoll_wait and dmm_sockevent_process.                    *)

\* A descriptor is ready: the event at its address is sent.
Process(fd) ==
  /\ sending = NoEvent /\ InEpoll(fd)
  /\ SendStart(epoll[fd])
  /\ UNCHANGED <<subscriptions, objects, sockets, kernel>>

ProcessEnd ==
  /\ SendDone /\ sending' = NoEvent
  /\ UNCHANGED <<running, next, subscriptions, objects, sockets, kernel>>

Send    == SendStep /\ UNCHANGED <<sockets, kernel>>
Returns == HandlerReturns /\ UNCHANGED <<sockets, kernel>>
-----------------------------------------------------------------------------
Init ==
  /\ EventInit
  /\ se_fd = [e \in Event |-> NoFd] /\ se_events = [e \in Event |-> NoMask]
  /\ selist = <<>> /\ open = {}
  /\ epoll = [fd \in Fd |-> NoEvent] /\ waits = [fd \in Fd |-> NoMask]

Command ==
  \/ \E n \in Node : NodeRm(n)
  \/ \E fd \in Fd :
       \/ Open(fd) \/ Close(fd)
       \/ \E n \in Node :
            \/ Unsubscribe(fd, n)
            \/ \E mask \in Mask :
                 \/ SubscribeExisting(fd, mask, n)
                 \/ \E e \in Event : SubscribeNew(fd, mask, n, e)

Loop == ProcessEnd \/ Send \/ Returns \/ \E fd \in Fd : Process(fd)

Next == Command \/ Loop

Spec == Init /\ [][Next]_vars
-----------------------------------------------------------------------------
\* "We UNREF se not to count sockeventlist membership as reference, so last
\* unsubscribe will launch sockevent destructor": subscribers are all there
\* is, known to node and event alike, and an event without any is gone.
SockRefsExact ==
  /\ SubscriptionsMutual
  /\ \A e \in Event : /\ ev_refs[e] = Len(ev_nodes[e])
                      /\ ev_state[e] = "valid" <=> ev_nodes[e] # <<>>

\* The epoll set holds exactly the addresses of the living socket events,
\* each under its own descriptor and waiting for what the event waits for:
\* no trigger is lost and none is delivered to freed memory.
EpollExact ==
  /\ \A fd \in Fd : InEpoll(fd) =>
       ev_state[epoll[fd]] = "valid" /\ se_fd[epoll[fd]] = fd
  /\ \A e \in Event : ev_state[e] = "valid" =>
       epoll[se_fd[e]] = e /\ waits[se_fd[e]] = se_events[e]
  /\ Members(selist) = {e \in Event : ev_state[e] = "valid"}
=============================================================================
