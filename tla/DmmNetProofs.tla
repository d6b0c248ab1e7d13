---------------------------- MODULE DmmNetProofs ----------------------------
(***************************************************************************)
(* Socket events, for any number of nodes, descriptors and events: the     *)
(* subscribers are all that keeps an event, and epoll knows the living     *)
(* ones and no others, under the condition that no handler removes the     *)
(* subscription the loop has saved (RemoveNext = FALSE).  Recv nodes and   *)
(* scripts, any number of them too, use socket events as DmmSockevent has  *)
(* it, and the flags of recv nodes agree with socket and subscription.     *)
(***************************************************************************)
EXTENDS DmmNet, DmmEventProofs

\* Subscriptions are all there is to an event: references, and its life.
EventsCountedExactly ==
  \A e \in Event : /\ ev_refs[e] = Cardinality(NodesOf(nd_events, e))
                   /\ ev_state[e] = "valid" <=> NodesOf(nd_events, e) # {}

\* Inductive: with it, EventOf finds just what epoll has for the descriptor.
SockInv ==
  /\ SubsInv /\ TypeOK
  /\ EventsCountedExactly /\ EpollExact
  /\ \A e \in Event : ev_state[e] = "valid" => se_fd[e] \in Fd

\* Both halves of SockInv that say what the runs check.
LEMMA SockInvGives == SockInv => TypeOK /\ SockRefsExact /\ EpollExact
<1> SUFFICES ASSUME SockInv PROVE SockRefsExact
  BY DEF SockInv
<1>1. SubsInv /\ EventsCountedExactly
  BY DEF SockInv
<1>2. \A e \in Event : /\ ev_refs[e] = Len(ev_nodes[e])
                       /\ ev_state[e] = "valid" <=> ev_nodes[e] # <<>>
  BY <1>1, SubscribersCounted DEF EventsCountedExactly
<1>3. QED
  BY <1>1, <1>2, SubsInvGives DEF SockRefsExact

\* dmm_sockevent_fd2ref finds the event whose address epoll has.
LEMMA EventOfIs ==
  ASSUME SockInv, NEW fd \in Fd
  PROVE  EventOf(fd) = epoll[fd]
<1> DEFINE other == {e \in Event : se_fd[e] # fd}
<1>1. /\ selist \in Seq(Event) /\ epoll[fd] \in Event \cup {NoEvent} /\ EpollExact
      /\ NoEvent \notin Event
  BY EventAssumption DEF SockInv, TypeOK
<1>2. EventsOf(fd) \in Seq(Event) /\ Members(EventsOf(fd)) = Members(selist) \ other
  BY <1>1, KeptIs DEF EventsOf
<1>3. \A e \in Members(EventsOf(fd)) : e \in Event /\ ev_state[e] = "valid" /\ se_fd[e] = fd
  BY <1>1, <1>2 DEF EpollExact
<1>4. \A e \in Members(EventsOf(fd)) : e = epoll[fd] /\ e # NoEvent
  BY <1>1, <1>3 DEF EpollExact
<1>5. InEpoll(fd) => epoll[fd] \in Members(EventsOf(fd))
  BY <1>1, <1>2 DEF EpollExact, InEpoll
<1>6. CASE EventsOf(fd) = <<>>
  <2>1. Members(EventsOf(fd)) = {}
    BY <1>6 DEF Members
  <2>2. QED
    BY <1>5, <1>6, <2>1 DEF EventOf, FirstOf, InEpoll
<1>7. CASE EventsOf(fd) # <<>>
  <2>1. EventsOf(fd)[1] \in Members(EventsOf(fd))
    BY <1>2, <1>7 DEF Members
  <2>2. QED
    BY <1>4, <1>7, <2>1 DEF EventOf, FirstOf
<1>8. QED
  BY <1>6, <1>7

\* The last subscriber's reference is the event's last: dead events have lost
\* all their subscribers, and leave the list and the epoll set.
LEMMA ReleaseSocketsInv ==
  ASSUME SockInv, RemoveNext = FALSE, NEW pairs, Removable(pairs), CellsRemoved(pairs),
         NEW rm, \A n \in rm : nd_state[n] = "valid" /\ \A e \in nd_events[n] : <<e, n>> \in pairs,
         NEW nr, nr = [n \in Node |-> nr[n]],
         \A n \in Node : nr[n] = NodeRefsWithout(pairs)[n] - (IF n \in rm THEN 1 ELSE 0),
         NEW ns, \A n \in Node : ns[n] = IF n \in rm THEN "invalid" ELSE nd_state[n],
         ReleaseSockets(EventRefsWithout(pairs), nr, ns), UNCHANGED delivery
  PROVE  SockInv'
<1> DEFINE er == EventRefsWithout(pairs)
           dead == {e \in Event : ev_state[e] = "valid" /\ er[e] = 0}
           fds == {se_fd[e] : e \in dead}
<1>1. /\ Release(er, nr, ev_state, ns) /\ selist' = Kept(selist, dead)
      /\ epoll' = [fd \in Fd |-> IF fd \in fds THEN NoEvent ELSE epoll[fd]]
      /\ waits' = [fd \in Fd |-> IF fd \in fds THEN NoMask ELSE waits[fd]]
      /\ UNCHANGED <<se_fd, se_events, open>>
  BY DEF ReleaseSockets, Deleted
<1>2. SubsInv /\ TypeOK /\ EventsCountedExactly /\ EpollExact
      /\ (\A e \in Event : ev_state[e] = "valid" => se_fd[e] \in Fd)
  BY DEF SockInv
<1>3. /\ SubsInv'
      /\ \A e \in Event :
           /\ NodesOf(nd_events', e) = NodesOf(nd_events, e) \ LeaversOf(pairs, e)
           /\ er[e] = ev_refs[e] - Cardinality(LeaversOf(pairs, e))
           /\ LeaversOf(pairs, e) \subseteq NodesOf(nd_events, e)
  BY <1>1, <1>2, CellsRemovedInv
<1>4. /\ ev_refs' = er
      /\ ev_state' = [e \in Event |->
           IF ev_state[e] \in {"valid", "invalid"} /\ er[e] = 0 THEN "freed" ELSE ev_state[e]]
  BY <1>1 DEF Release
<1>5. er = [e \in Event |-> er[e]]
  BY DEF EventRefsWithout
<1> HIDE DEF er, dead, fds
<1>6. ASSUME NEW e \in Event
      PROVE  /\ er[e] = Cardinality(NodesOf(nd_events', e)) /\ er[e] \in Nat
             /\ er[e] = 0 <=> NodesOf(nd_events', e) = {}
             /\ NodesOf(nd_events', e) \subseteq NodesOf(nd_events, e)
  <2> DEFINE gone == LeaversOf(pairs, e)
  <2>1. /\ NodesOf(nd_events', e) = NodesOf(nd_events, e) \ gone
        /\ er[e] = ev_refs[e] - Cardinality(gone) /\ gone \subseteq NodesOf(nd_events, e)
    BY <1>3
  <2> HIDE DEF gone
  <2>2. /\ IsFiniteSet(NodesOf(nd_events, e)) /\ ev_refs[e] = Cardinality(NodesOf(nd_events, e))
    BY <1>2, SubscribersCounted DEF EventsCountedExactly
  <2>3. er[e] = Cardinality(NodesOf(nd_events', e)) /\ er[e] \in Nat
        /\ IsFiniteSet(NodesOf(nd_events', e))
    BY <2>1, <2>2, CardSplit
  <2>4. QED
    BY <2>1, <2>3, FS_EmptySet
<1>7. EventsCountedExactly' /\ \A e \in Event : ev_state'[e] = "valid" <=>
                                               ev_state[e] = "valid" /\ e \notin dead
  <2>1. ASSUME NEW e \in Event
        PROVE  /\ ev_state'[e] = "valid" <=> ev_state[e] = "valid" /\ er[e] # 0
               /\ ev_state'[e] = "valid" <=> NodesOf(nd_events', e) # {}
    <3>1. ev_state[e] = "valid" <=> NodesOf(nd_events, e) # {}
      BY <1>2 DEF EventsCountedExactly
    <3>2. ev_state'[e] = "valid" <=> ev_state[e] = "valid" /\ er[e] # 0
      BY <1>4
    <3>3. QED
      BY <1>6, <3>1, <3>2
  <2>2. \A e \in Event : e \in dead <=> ev_state[e] = "valid" /\ er[e] = 0
    BY DEF dead
  <2>3. QED
    BY <1>4, <1>6, <2>1, <2>2 DEF EventsCountedExactly
<1>8. /\ selist' \in Seq(Event) /\ Members(selist') = Members(selist) \ dead
  BY <1>1, <1>2, KeptIs DEF TypeOK
<1>9. TypeOK'
  <2>1. ev_refs' \in [Event -> Nat]
    BY <1>4, <1>5, <1>6
  <2>2. ev_state' \in [Event -> {"unborn", "valid", "invalid", "freed"}]
    BY <1>2, <1>4 DEF TypeOK, EventTypeOK
  <2>3. epoll' \in [Fd -> Event \cup {NoEvent}] /\ waits' \in [Fd -> Mask \cup {NoMask}]
    BY <1>1, <1>2 DEF TypeOK
  <2>4. /\ se_fd' \in [Event -> Fd \cup {NoFd}] /\ se_events' \in [Event -> Mask \cup {NoMask}]
        /\ open' \subseteq Fd
    BY <1>1, <1>2 DEF TypeOK
  <2>5. EventTypeOK'
    BY <1>3, <2>1, <2>2 DEF SubsInv, SubsTypeOK, EventTypeOK
  <2>6. QED
    BY <1>8, <2>3, <2>4, <2>5 DEF TypeOK
<1>10. \A e \in Event : ev_state[e] = "valid" /\ e \notin dead => se_fd[e] \notin fds
  BY <1>2 DEF EpollExact, fds, dead
<1>11. \A e \in dead : se_fd[e] \in fds
  BY DEF fds
<1>12. EpollExact'
  <2>1. ASSUME NEW fd \in Fd, epoll'[fd] # NoEvent
        PROVE  ev_state'[epoll'[fd]] = "valid" /\ se_fd'[epoll'[fd]] = fd
    <3>1. fd \notin fds /\ epoll'[fd] = epoll[fd] /\ epoll[fd] # NoEvent
      BY <1>1, <2>1
    <3>2. epoll[fd] \in Event /\ ev_state[epoll[fd]] = "valid" /\ se_fd[epoll[fd]] = fd
      BY <1>2, <3>1 DEF EpollExact, InEpoll, TypeOK
    <3>3. QED
      BY <1>1, <1>7, <1>11, <3>1, <3>2
  <2>2. ASSUME NEW e \in Event, ev_state'[e] = "valid"
        PROVE  epoll'[se_fd'[e]] = e /\ waits'[se_fd'[e]] = se_events'[e]
    <3>1. ev_state[e] = "valid" /\ e \notin dead
      BY <1>7, <2>2
    <3>2. QED
      BY <1>1, <1>2, <1>10, <3>1 DEF EpollExact
  <2>3. Members(selist') = {e \in Event : ev_state'[e] = "valid"}
    BY <1>2, <1>7, <1>8 DEF EpollExact
  <2>4. QED
    BY <2>1, <2>2, <2>3 DEF EpollExact, InEpoll
<1>13. \A e \in Event : ev_state'[e] = "valid" => se_fd'[e] \in Fd
  BY <1>1, <1>2, <1>7
<1>14. QED
  BY <1>3, <1>7, <1>9, <1>12, <1>13 DEF SockInv
-----------------------------------------------------------------------------
(* Commands.                                                               *)

\* DMM_MSG_SOCKEVENTUNSUBSCRIBE.
LEMMA UnsubscribeInv ==
  ASSUME SockInv, RemoveNext = FALSE, NEW fd \in Fd, NEW n \in Node, Unsubscribe(fd, n)
  PROVE  SockInv'
<1> DEFINE e == EventOf(fd)
           pairs == {<<e, n>>}
           nr == NodeRefsWithout(pairs)
           none == {}
<1>1. /\ e # NoEvent /\ Subscribed(e, n) /\ MayRemove(pairs) /\ CellsRemoved(pairs)
      /\ ReleaseSockets(EventRefsWithout(pairs), nr, nd_state) /\ UNCHANGED delivery
  BY DEF Unsubscribe
<1>2. e \in Event
  BY <1>1, EventOfIs DEF SockInv, TypeOK
<1>3. Removable(pairs)
  BY <1>1, <1>2 DEF Removable, Subscribed
<1>4. nr = [m \in Node |-> nr[m]]
  BY DEF NodeRefsWithout
<1>5. \A m \in Node : nr[m] \in Int
  <2>1. ASSUME NEW m \in Node PROVE nr[m] \in Int
    <3>1. {f \in Event : <<f, m>> \in pairs} \in SUBSET Event
      OBVIOUS
    <3>2. Cardinality({f \in Event : <<f, m>> \in pairs}) \in Nat
      BY <3>1, EventAssumption, FS_Subset, FS_CardinalityType
    <3>3. QED
      BY <3>2 DEF NodeRefsWithout, SockInv, SubsInv, SubsTypeOK
  <2>2. QED
    BY <2>1
<1>6. \A m \in Node : nr[m] = NodeRefsWithout(pairs)[m] - (IF m \in none THEN 1 ELSE 0)
  BY <1>5
<1>7. \A m \in Node : nd_state[m] = IF m \in none THEN "invalid" ELSE nd_state[m]
  OBVIOUS
<1>8. \A m \in none : nd_state[m] = "valid" /\ \A f \in nd_events[m] : <<f, m>> \in pairs
  OBVIOUS
<1> HIDE DEF e, pairs, nr, none
<1>9. QED
  BY <1>1, <1>3, <1>4, <1>6, <1>7, <1>8, ReleaseSocketsInv DEF nr

\* DMM_MSG_NODERM.
LEMMA NodeRmInv ==
  ASSUME SockInv, RemoveNext = FALSE, NEW n \in Node, NodeRm(n)
  PROVE  SockInv'
<1> DEFINE pairs == SubscriptionsOf(n)
           refs == NodeRefsWithout(pairs)
           nr == [refs EXCEPT ![n] = @ - 1]
           ns == [nd_state EXCEPT ![n] = "invalid"]
<1>1. /\ nd_state[n] = "valid" /\ MayRemove(pairs) /\ CellsRemoved(pairs)
      /\ ReleaseSockets(EventRefsWithout(pairs), nr, ns) /\ UNCHANGED delivery
  BY DEF NodeRm
<1>2. Removable(pairs)
  BY <1>1 DEF Removable, SubscriptionsOf, SockInv, SubsInv, SubsTypeOK
<1>3. \A m \in {n} : nd_state[m] = "valid" /\ \A f \in nd_events[m] : <<f, m>> \in pairs
  BY <1>1 DEF SubscriptionsOf
<1>4. ASSUME NEW m \in Node PROVE refs[m] \in Int
  <2>1. {f \in Event : <<f, m>> \in pairs} \in SUBSET Event
    OBVIOUS
  <2>2. Cardinality({f \in Event : <<f, m>> \in pairs}) \in Nat
    BY <2>1, EventAssumption, FS_Subset, FS_CardinalityType
  <2>3. QED
    BY <2>2 DEF NodeRefsWithout, SockInv, SubsInv, SubsTypeOK
<1>5. DOMAIN refs = Node
  BY DEF NodeRefsWithout
<1> HIDE DEF pairs, refs
<1>6. nr = [m \in Node |-> nr[m]]
  BY <1>5
<1>7. \A m \in Node : nr[m] = refs[m] - (IF m \in {n} THEN 1 ELSE 0)
  BY <1>4, <1>5
<1>8. \A m \in Node : ns[m] = IF m \in {n} THEN "invalid" ELSE nd_state[m]
  BY DEF SockInv, SubsInv, SubsTypeOK
<1> HIDE DEF nr, ns
<1>9. QED
  BY <1>1, <1>2, <1>3, <1>6, <1>7, <1>8, ReleaseSocketsInv DEF refs

\* EPOLL_CTL_ADD succeeds: the new event has one subscriber and is what epoll
\* has for the descriptor.
LEMMA SubscribeNewInv ==
  ASSUME SockInv, NEW fd \in Fd, NEW mask \in Mask, NEW n \in Node, NEW e \in Event,
         SubscribeNew(fd, mask, n, e)
  PROVE  SockInv'
<1>1. /\ nd_state[n] = "valid" /\ epoll[fd] = NoEvent /\ ev_state[e] = "unborn"
      /\ ev_state' = [ev_state EXCEPT ![e] = "valid"]
      /\ se_fd' = [se_fd EXCEPT ![e] = fd] /\ se_events' = [se_events EXCEPT ![e] = mask]
      /\ selist' = <<e>> \o selist
      /\ epoll' = [epoll EXCEPT ![fd] = e] /\ waits' = [waits EXCEPT ![fd] = mask]
      /\ Subscribe(e, n) /\ ev_refs' = [ev_refs EXCEPT ![e] = 1]
      /\ UNCHANGED <<nd_state, delivery, open>>
  BY DEF SubscribeNew, InEpoll, RefsOfNew
<1>2. /\ SubsInv /\ TypeOK /\ EventsCountedExactly /\ EpollExact
      /\ \A f \in Event : ev_state[f] = "valid" => se_fd[f] \in Fd
      /\ NoEvent \notin Event
  BY EventAssumption DEF SockInv
<1>3. /\ ev_state \in [Event -> {"unborn", "valid", "invalid", "freed"}]
      /\ ev_refs \in [Event -> Nat] /\ selist \in Seq(Event)
      /\ se_fd \in [Event -> Fd \cup {NoFd}] /\ se_events \in [Event -> Mask \cup {NoMask}]
      /\ epoll \in [Fd -> Event \cup {NoEvent}] /\ waits \in [Fd -> Mask \cup {NoMask}]
  BY <1>2 DEF TypeOK, EventTypeOK
<1>4. NodesOf(nd_events, e) = {}
  BY <1>1, <1>2 DEF EventsCountedExactly
<1>5. ~Subscribed(e, n)
  BY <1>4 DEF Subscribed, NodesOf
<1>6. /\ SubsInv' /\ NodesOf(nd_events', e) = {n}
      /\ \A f \in Event \ {e} : NodesOf(nd_events', f) = NodesOf(nd_events, f)
  BY <1>1, <1>2, <1>4, <1>5, SubscribeInv
<1>7. \A f \in Event : ev_state'[f] = IF f = e THEN "valid" ELSE ev_state[f]
  BY <1>1, <1>3
<1>8. EventsCountedExactly'
  <2>1. ASSUME NEW f \in Event
        PROVE  /\ ev_refs'[f] = Cardinality(NodesOf(nd_events', f))
               /\ ev_state'[f] = "valid" <=> NodesOf(nd_events', f) # {}
    <3>1. CASE f = e
      BY <1>1, <1>3, <1>6, <1>7, <3>1, FS_Singleton
    <3>2. CASE f # e
      <4>1. NodesOf(nd_events', f) = NodesOf(nd_events, f)
        BY <1>6, <3>2
      <4>2. ev_refs'[f] = ev_refs[f] /\ ev_state'[f] = ev_state[f]
        BY <1>1, <1>3, <3>2
      <4>3. QED
        BY <1>2, <4>1, <4>2 DEF EventsCountedExactly
    <3>3. QED
      BY <3>1, <3>2
  <2>2. QED
    BY <2>1 DEF EventsCountedExactly
<1>9. selist' \in Seq(Event) /\ Members(selist') = Members(selist) \cup {e}
  <2>1. /\ <<e>> \o selist \in Seq(Event) /\ Len(selist) \in Nat
        /\ DOMAIN (<<e>> \o selist) = 1..(Len(selist) + 1) /\ DOMAIN selist = 1..Len(selist)
        /\ (<<e>> \o selist)[1] = e
        /\ \A i \in 1..Len(selist) : (<<e>> \o selist)[i + 1] = selist[i]
    BY <1>3
  <2>2. Members(<<e>> \o selist) \subseteq Members(selist) \cup {e}
    <3>1. ASSUME NEW i \in 1..(Len(selist) + 1), i # 1
          PROVE  (<<e>> \o selist)[i] \in Members(selist)
      <4>1. i - 1 \in 1..Len(selist) /\ (i - 1) + 1 = i
        BY <2>1, <3>1
      <4>2. (<<e>> \o selist)[i] = selist[i - 1]
        BY <2>1, <4>1
      <4>3. QED
        BY <2>1, <4>1, <4>2 DEF Members
    <3>2. QED
      BY <2>1, <3>1 DEF Members
  <2>3. \A i \in 1..Len(selist) : i + 1 \in 1..(Len(selist) + 1)
    BY <2>1
  <2>4. Members(selist) \subseteq Members(<<e>> \o selist)
    <3>1. ASSUME NEW i \in 1..Len(selist) PROVE selist[i] \in Members(<<e>> \o selist)
      <4>1. i + 1 \in DOMAIN (<<e>> \o selist) /\ (<<e>> \o selist)[i + 1] = selist[i]
        BY <2>1, <2>3
      <4>2. QED
        BY <4>1 DEF Members
    <3>2. QED
      BY <2>1, <3>1 DEF Members
  <2>5. e \in Members(<<e>> \o selist)
    BY <2>1 DEF Members
  <2>6. QED
    BY <1>1, <2>1, <2>2, <2>4, <2>5
<1>10. TypeOK'
  <2>1. ev_refs' \in [Event -> Nat] /\ ev_state' \in [Event -> {"unborn", "valid", "invalid", "freed"}]
    BY <1>1, <1>3
  <2>2. EventTypeOK'
    BY <1>6, <2>1 DEF SubsInv, SubsTypeOK, EventTypeOK
  <2>3. open' \subseteq Fd
    BY <1>1, <1>2 DEF TypeOK
  <2>4. /\ se_fd' \in [Event -> Fd \cup {NoFd}] /\ se_events' \in [Event -> Mask \cup {NoMask}]
        /\ epoll' \in [Fd -> Event \cup {NoEvent}] /\ waits' \in [Fd -> Mask \cup {NoMask}]
    BY <1>1, <1>3
  <2>5. QED
    BY <1>9, <2>2, <2>3, <2>4 DEF TypeOK
<1>11. \A f \in Event : ev_state[f] = "valid" => f # e /\ se_fd[f] # fd /\ se_fd[f] \in Fd
  BY <1>1, <1>2 DEF EpollExact
<1>12. \A f \in Event : /\ se_fd'[f] = IF f = e THEN fd ELSE se_fd[f]
                        /\ se_events'[f] = IF f = e THEN mask ELSE se_events[f]
  BY <1>1, <1>3
<1>13. \A d \in Fd : /\ epoll'[d] = IF d = fd THEN e ELSE epoll[d]
                     /\ waits'[d] = IF d = fd THEN mask ELSE waits[d]
  BY <1>1, <1>3
<1>14. EpollExact'
  <2>1. ASSUME NEW d \in Fd, epoll'[d] # NoEvent
        PROVE  ev_state'[epoll'[d]] = "valid" /\ se_fd'[epoll'[d]] = d
    <3>1. CASE d = fd
      BY <1>7, <1>12, <1>13, <3>1
    <3>2. CASE d # fd
      <4>1. epoll'[d] = epoll[d] /\ epoll[d] \in Event
        BY <1>3, <1>13, <2>1, <3>2
      <4>2. ev_state[epoll[d]] = "valid" /\ se_fd[epoll[d]] = d
        BY <1>2, <1>3, <2>1, <4>1 DEF EpollExact, InEpoll
      <4>3. QED
        BY <1>7, <1>11, <1>12, <4>1, <4>2
    <3>3. QED
      BY <3>1, <3>2
  <2>2. ASSUME NEW f \in Event, ev_state'[f] = "valid"
        PROVE  epoll'[se_fd'[f]] = f /\ waits'[se_fd'[f]] = se_events'[f]
    <3>1. CASE f = e
      BY <1>12, <1>13, <3>1
    <3>2. CASE f # e
      <4>1. ev_state[f] = "valid" /\ se_fd[f] # fd /\ se_fd[f] \in Fd
        BY <1>7, <1>11, <2>2, <3>2
      <4>2. QED
        BY <1>2, <1>12, <1>13, <3>2, <4>1 DEF EpollExact
    <3>3. QED
      BY <3>1, <3>2
  <2>3. Members(selist') = {f \in Event : ev_state'[f] = "valid"}
    BY <1>2, <1>7, <1>9 DEF EpollExact
  <2>4. QED
    BY <2>1, <2>2, <2>3 DEF EpollExact, InEpoll
<1>15. \A f \in Event : ev_state'[f] = "valid" => se_fd'[f] \in Fd
  BY <1>7, <1>11, <1>12
<1>16. QED
  BY <1>6, <1>8, <1>10, <1>14, <1>15 DEF SockInv

\* EEXIST: epoll waits for what was asked for last, on behalf of the event it
\* had before.
LEMMA SubscribeExistingInv ==
  ASSUME SockInv, NEW fd \in Fd, NEW mask \in Mask, NEW n \in Node,
         SubscribeExisting(fd, mask, n)
  PROVE  SockInv'
<1> DEFINE e == EventOf(fd)
           new == ~Subscribed(e, n)
<1>1. /\ nd_state[n] = "valid" /\ epoll[fd] # NoEvent
      /\ IF se_events[e] # mask
         THEN /\ se_events' = [se_events EXCEPT ![e] = mask]
              /\ epoll' = [epoll EXCEPT ![fd] = e]
              /\ waits' = [waits EXCEPT ![fd] = mask]
         ELSE UNCHANGED <<se_events, epoll, waits>>
      /\ IF new THEN Subscribe(e, n) ELSE UNCHANGED <<subscriptions, nd_refs>>
      /\ ev_refs' = IF new THEN [ev_refs EXCEPT ![e] = @ + 1] ELSE ev_refs
      /\ UNCHANGED <<nd_state, ev_state, delivery, se_fd, selist, open>>
  BY DEF SubscribeExisting, InEpoll, AddressFor
<1>2. e = epoll[fd]
  BY EventOfIs
<1>3. /\ SubsInv /\ TypeOK /\ EventsCountedExactly /\ EpollExact
      /\ \A f \in Event : ev_state[f] = "valid" => se_fd[f] \in Fd
  BY DEF SockInv
<1>4. /\ ev_state \in [Event -> {"unborn", "valid", "invalid", "freed"}]
      /\ ev_refs \in [Event -> Nat] /\ selist \in Seq(Event)
      /\ se_fd \in [Event -> Fd \cup {NoFd}] /\ se_events \in [Event -> Mask \cup {NoMask}]
      /\ epoll \in [Fd -> Event \cup {NoEvent}] /\ waits \in [Fd -> Mask \cup {NoMask}]
  BY <1>3 DEF TypeOK, EventTypeOK
<1> HIDE DEF e
<1>5. e \in Event /\ ev_state[e] = "valid" /\ se_fd[e] = fd /\ waits[fd] = se_events[e]
  <2>1. e \in Event /\ ev_state[e] = "valid" /\ se_fd[e] = fd
    BY <1>1, <1>2, <1>3, <1>4 DEF EpollExact, InEpoll
  <2>2. QED
    BY <1>3, <2>1 DEF EpollExact
<1>6. /\ epoll' = epoll
      /\ \A f \in Event : se_events'[f] = IF f = e THEN mask ELSE se_events[f]
      /\ \A d \in Fd : waits'[d] = IF d = fd THEN mask ELSE waits[d]
      /\ se_events' \in [Event -> Mask \cup {NoMask}] /\ waits' \in [Fd -> Mask \cup {NoMask}]
  <2>1. CASE se_events[e] # mask
    BY <1>1, <1>2, <1>4, <2>1
  <2>2. CASE se_events[e] = mask
    BY <1>1, <1>4, <1>5, <2>2
  <2>3. QED
    BY <2>1, <2>2
<1>7. EpollExact'
  BY <1>1, <1>3, <1>4, <1>5, <1>6 DEF EpollExact, InEpoll
<1>8. SubsInv' /\ EventsCountedExactly' /\ ev_refs' \in [Event -> Nat]
  <2>1. CASE new
    <3>1. /\ SubsInv' /\ n \notin NodesOf(nd_events, e)
          /\ NodesOf(nd_events', e) = NodesOf(nd_events, e) \cup {n}
          /\ \A f \in Event \ {e} : NodesOf(nd_events', f) = NodesOf(nd_events, f)
      BY <1>1, <1>3, <1>5, <2>1, SubscribeInv
    <3>2. Cardinality(NodesOf(nd_events', e)) = Cardinality(NodesOf(nd_events, e)) + 1
      BY <1>3, <1>5, <3>1, SubscribersCounted, CardAdd
    <3>0. ev_refs' = [ev_refs EXCEPT ![e] = @ + 1]
      BY <1>1, <2>1
    <3>3. \A f \in Event : ev_refs'[f] = IF f = e THEN ev_refs[e] + 1 ELSE ev_refs[f]
      BY <1>4, <1>5, <3>0
    <3>4. ev_refs' \in [Event -> Nat]
      BY <1>4, <1>5, <3>0
    <3>5. EventsCountedExactly'
      BY <1>1, <1>3, <1>5, <3>1, <3>2, <3>3 DEF EventsCountedExactly
    <3>6. QED
      BY <3>1, <3>4, <3>5
  <2>2. CASE ~new
    <3>1. UNCHANGED subsVars /\ UNCHANGED <<nd_events, ev_refs, ev_state>>
      BY <1>1, <2>2 DEF subsVars, subscriptions, delivery
    <3>2. QED
      BY <1>3, <1>4, <3>1, SubsInvStutter DEF EventsCountedExactly, NodesOf
  <2>3. QED
    BY <2>1, <2>2
<1>9. TypeOK'
  <2>1. EventTypeOK'
    BY <1>1, <1>4, <1>8 DEF SubsInv, SubsTypeOK, EventTypeOK
  <2>2. QED
    BY <1>1, <1>3, <1>4, <1>6, <2>1 DEF TypeOK
<1>10. QED
  BY <1>1, <1>3, <1>7, <1>8, <1>9 DEF SockInv

\* A descriptor is opened or, when there is no event for it, closed.
LEMMA OpenCloseInv ==
  ASSUME SockInv, NEW fd \in Fd, Open(fd) \/ Close(fd)
  PROVE  SockInv'
<1>1. UNCHANGED <<eventVars, sockets>> /\ open' \subseteq Fd
  BY DEF Open, Close, SockInv, TypeOK
<1>2. UNCHANGED <<epoll, waits>> \/ /\ EventOf(fd) = NoEvent
                                    /\ epoll' = [epoll EXCEPT ![fd] = NoEvent]
                                    /\ waits' = [waits EXCEPT ![fd] = NoMask]
  BY DEF Open, Close
<1>3. /\ epoll \in [Fd -> Event \cup {NoEvent}] /\ waits \in [Fd -> Mask \cup {NoMask}]
      /\ NoEvent \notin Event /\ EpollExact
      /\ \A f \in Event : ev_state[f] = "valid" => se_fd[f] \in Fd
  BY EventAssumption DEF SockInv, TypeOK
<1>4. epoll' = epoll /\ waits' \in [Fd -> Mask \cup {NoMask}]
      /\ \A f \in Event : ev_state[f] = "valid" => waits'[se_fd[f]] = waits[se_fd[f]]
  <2>1. CASE UNCHANGED <<epoll, waits>>
    BY <1>3, <2>1
  <2>2. CASE /\ EventOf(fd) = NoEvent
             /\ epoll' = [epoll EXCEPT ![fd] = NoEvent]
             /\ waits' = [waits EXCEPT ![fd] = NoMask]
    <3>1. epoll[fd] = NoEvent
      BY <2>2, EventOfIs
    <3>2. \A f \in Event : ev_state[f] = "valid" => se_fd[f] # fd
      BY <1>3, <3>1 DEF EpollExact
    <3>3. QED
      BY <1>3, <2>2, <3>1, <3>2
  <2>3. QED
    BY <1>2, <2>1, <2>2
<1>5. EpollExact'
  <2>1. UNCHANGED <<ev_state, se_fd, se_events, selist, epoll>>
    BY <1>1, <1>4 DEF eventVars, objects, sockets
  <2>2. QED
    BY <1>3, <1>4, <2>1 DEF EpollExact, InEpoll
<1>6. UNCHANGED subsVars
  BY <1>1 DEF eventVars, subscriptions, objects, delivery, subsVars
<1>7. SubsInv'
  BY <1>6, SubsInvStutter DEF SockInv
<1>8. TypeOK' /\ EventsCountedExactly'
  <2>1. UNCHANGED <<ev_state, ev_refs, se_fd, se_events, selist, epoll, nd_events>>
    BY <1>1, <1>4 DEF eventVars, objects, sockets, subscriptions
  <2>2. EventTypeOK'
    BY <1>7, <2>1 DEF SockInv, TypeOK, EventTypeOK, SubsInv, SubsTypeOK
  <2>3. QED
    BY <1>1, <1>3, <1>4, <2>1, <2>2 DEF SockInv, TypeOK, EventsCountedExactly, NodesOf
<1>9. QED
  BY <1>1, <1>3, <1>5, <1>7, <1>8 DEF SockInv, eventVars, objects, sockets
-----------------------------------------------------------------------------
(* The loop.                                                               *)

\* The loop and its handlers' returns release no event: the subscriptions
\* that it is sent by keep it.
LEMMA LoopKeeps ==
  ASSUME SockInv, SubsInv', UNCHANGED <<nd_events, ev_refs, sockets, kernel>>,
         \/ UNCHANGED ev_state
         \/ ev_state' = [e \in Event |->
              IF ev_state[e] \in {"valid", "invalid"} /\ ev_refs[e] = 0 THEN "freed"
              ELSE ev_state[e]]
  PROVE  SockInv'
<1>1. /\ SubsInv /\ TypeOK /\ EventsCountedExactly /\ EpollExact
      /\ \A e \in Event : ev_state[e] = "valid" => se_fd[e] \in Fd
  BY DEF SockInv
<1>2. \A e \in Event : ev_state[e] = "valid" => ev_refs[e] # 0
  BY <1>1, SubscribersCounted DEF EventsCountedExactly
<1>3. ev_state \in [Event -> {"unborn", "valid", "invalid", "freed"}]
  BY <1>1 DEF TypeOK, EventTypeOK
<1>4. /\ ev_state' \in [Event -> {"unborn", "valid", "invalid", "freed"}]
      /\ \A e \in Event : ev_state'[e] = "valid" <=> ev_state[e] = "valid"
  BY <1>2, <1>3
<1>5. EventTypeOK'
  BY <1>1, <1>4 DEF SubsInv, SubsTypeOK, EventTypeOK, TypeOK
<1>6. TypeOK'
  BY <1>1, <1>5 DEF TypeOK, sockets, kernel
<1>7. EventsCountedExactly'
  BY <1>1, <1>4 DEF EventsCountedExactly, NodesOf
<1>8. EpollExact'
  <2>1. ASSUME NEW fd \in Fd, epoll[fd] # NoEvent
        PROVE  ev_state'[epoll[fd]] = "valid" /\ se_fd[epoll[fd]] = fd
    BY <1>1, <1>4, <2>1 DEF EpollExact, InEpoll, TypeOK
  <2>2. UNCHANGED <<se_fd, se_events, selist, epoll, waits>>
    BY DEF sockets, kernel
  <2>3. QED
    BY <1>1, <1>4, <2>1, <2>2 DEF EpollExact, InEpoll
<1>9. QED
  BY <1>1, <1>4, <1>6, <1>7, <1>8 DEF SockInv, sockets

\* epoll_wait returns a descriptor, and its event is sent.
LEMMA LoopInv ==
  ASSUME SockInv, Loop
  PROVE  SockInv'
<1>1. SubsInv /\ TypeOK
  BY DEF SockInv
<1>2. CASE ProcessEnd
  <2>1. SendDone /\ sending' = NoEvent
        /\ UNCHANGED <<running, next, subscriptions, objects, sockets, kernel>>
    BY <1>2 DEF ProcessEnd
  <2>2. SubsInv'
    BY <1>1, <2>1, SendDoneInv DEF objects
  <2>3. QED
    BY <2>1, <2>2, LoopKeeps DEF objects, subscriptions
<1>3. CASE Send
  <2>1. SubsInv'
    BY <1>1, <1>3, SendStepInv DEF Send
  <2>2. QED
    BY <1>3, <2>1, LoopKeeps DEF Send, SendStep, subscriptions
<1>4. CASE Returns
  <2>1. SubsInv'
    BY <1>1, <1>4, HandlerReturnsInv DEF Returns
  <2>2. QED
    BY <1>4, <2>1, LoopKeeps DEF Returns, HandlerReturns, Release, subscriptions
<1>5. ASSUME NEW fd \in Fd, Process(fd) PROVE SockInv'
  <2>1. epoll[fd] \in Event /\ sending = NoEvent /\ SendStart(epoll[fd])
        /\ UNCHANGED <<subscriptions, objects, sockets, kernel>>
    BY <1>1, <1>5 DEF Process, InEpoll, TypeOK
  <2>2. SubsInv'
    BY <1>1, <2>1, SendStartInv DEF objects
  <2>3. QED
    BY <2>1, <2>2, LoopKeeps DEF objects, subscriptions
<1>6. QED
  BY <1>2, <1>3, <1>4, <1>5 DEF Loop
-----------------------------------------------------------------------------
\* No descriptor is known at first.
LEMMA SockInvInit == Init => SockInv
<1> SUFFICES ASSUME Init PROVE SockInv
  OBVIOUS
<1>1. SubsInv
  BY SubsInvInit DEF Init
<1>2. TypeOK
  BY DEF Init, EventInit, TypeOK, EventTypeOK
<1>3. EventsCountedExactly
  <2>1. \A e \in Event : NodesOf(nd_events, e) = {}
    BY DEF Init, EventInit, NodesOf
  <2>2. QED
    BY <2>1, FS_EmptySet DEF Init, EventInit, EventsCountedExactly
<1>4. EpollExact /\ \A e \in Event : ev_state[e] # "valid"
  BY DEF Init, EventInit, EpollExact, InEpoll, Members
<1>5. QED
  BY <1>1, <1>2, <1>3, <1>4 DEF SockInv

\* SockInv is inductive: one case for each command, and the loop.
LEMMA SockInvStep ==
  ASSUME RemoveNext = FALSE, SockInv, [Next]_vars
  PROVE  SockInv'
<1>1. CASE Command
  BY <1>1, NodeRmInv, OpenCloseInv, UnsubscribeInv, SubscribeExistingInv, SubscribeNewInv
     DEF Command
<1>2. CASE Loop
  BY <1>2, LoopInv
<1>3. CASE UNCHANGED vars
  <2>1. UNCHANGED subsVars /\ UNCHANGED <<nd_events, ev_refs, ev_state, sockets, kernel>>
    BY <1>3 DEF vars, eventVars, subscriptions, objects, delivery, subsVars
  <2>2. SubsInv'
    BY <2>1, SubsInvStutter DEF SockInv
  <2>3. QED
    BY <2>1, <2>2, LoopKeeps
<1>4. QED
  BY <1>1, <1>2, <1>3 DEF Next

\* dmm_sockevent.c: the invariant holds, as long as no handler removes the
\* subscription that the loop has saved.
THEOREM SockInvHolds == ASSUME RemoveNext = FALSE PROVE Spec => []SockInv
BY SockInvInit, SockInvStep, PTL DEF Spec

\* Types, counts of cells and references included, never leave their range.
THEOREM SocketTypes == ASSUME RemoveNext = FALSE PROVE Spec => []TypeOK
BY SockInvHolds, SockInvGives, PTL

\* DMM_SOCKEVENT_UNREF in dmm_sockevent_subscribe: the references to a socket
\* event are those of its subscribers, and it lives as long as it has any.
THEOREM SocketRefsAreExact == ASSUME RemoveNext = FALSE PROVE Spec => []SockRefsExact
BY SockInvHolds, SockInvGives, PTL

\* sockevent_destructor and the ev.data that dmm_sockevent_subscribe fills in:
\* epoll has the addresses of the living socket events and no others.
THEOREM EpollIsExact == ASSUME RemoveNext = FALSE PROVE Spec => []EpollExact
BY SockInvHolds, SockInvGives, PTL
-----------------------------------------------------------------------------
\* Inductive: SocketFlags with the types it needs, and no address without a
\* node, as a socket has none when it is created.
NetInv ==
  /\ sockfd \in [Recv -> Fd \cup {NoFd}]
  /\ flags \in [Recv -> SUBSET Flag]
  /\ bound \in [Fd -> Addr \cup {NoAddr}]
  /\ \A fd \in Fd : ~OfRecv(fd) => bound[fd] = NoAddr
  /\ SocketFlags

\* What the invariant is about, when no recv node is configured.
sockState == <<sockfd, flags, bound, open>>
-----------------------------------------------------------------------------
(* The steps that leave the sockets alone.                                 *)

\* NetInv is a statement about sockState.
LEMMA Untouched == NetInv /\ UNCHANGED sockState => NetInv'
BY DEF NetInv, sockState, SocketFlags, OfRecv

\* The other process and the network configure no recv node.
LEMMA ElsewhereUntouched == Elsewhere => UNCHANGED vars /\ UNCHANGED sockState
BY DEF Elsewhere, ConnectTo, SendData, Arrive, sockState, recvNodes, vars, kernel

\* Nor does the main loop, which reads from sockets.
LEMMA MainLoopUntouched ==
  MainLoop \/ (\E fd \in Fd : Epoll(fd)) => UNCHANGED sockState
<1>1. Sending => UNCHANGED sockState
  BY DEF Sending, Send, ProcessEnd, sockState, recvNodes, transport, kernel
<1>2. Return => UNCHANGED sockState
  BY DEF Return, Returns, sockState, recvNodes, transport, kernel
<1>3. ASSUME NEW r \in Recv, Read(r) PROVE UNCHANGED sockState
  BY <1>3 DEF Read, sockState, recvNodes, vars, kernel
<1>4. ASSUME NEW fd \in Fd, Epoll(fd) PROVE UNCHANGED sockState
  BY <1>4 DEF Epoll, Process, sockState, recvNodes, transport, kernel
<1> QED BY <1>1, <1>2, <1>3, <1>4 DEF MainLoop

\* Removing a node or a subscription closes no descriptor.
LEMMA ReleaseKeepsOpen ==
  (\E n \in Node : NodeRm(n) \/ \E fd \in Fd : Unsubscribe(fd, n)) => UNCHANGED open
BY DEF NodeRm, Unsubscribe, ReleaseSockets
-----------------------------------------------------------------------------
(* The steps that do not.                                                  *)

\* CREATESOCK: the descriptor was not open, so it is nobody's yet.
LEMMA CreateSockStep ==
  ASSUME NetInv, NEW r \in Recv, NEW fd \in Fd, CreateSock(r, fd)
  PROVE  NetInv'
<1>1. /\ sockfd[r] = NoFd /\ fd \notin open /\ open' = open \cup {fd}
      /\ sockfd' = [sockfd EXCEPT ![r] = fd]
      /\ flags' = [flags EXCEPT ![r] = @ \cup {"HASSOCK"}]
      /\ bound' = bound
  BY DEF CreateSock, Open, transport
<1>2. fd # NoFd
  BY SockeventAssumption
<1>3. \A q \in Recv : sockfd[q] # fd
  BY <1>1, <1>2 DEF NetInv, SocketFlags
<1>4. bound[fd] = NoAddr
  BY <1>3 DEF NetInv, OfRecv
<1>5. \A q \in Recv : sockfd'[q] = IF q = r THEN fd ELSE sockfd[q]
  BY <1>1 DEF NetInv
<1>6. \A q \in Recv : flags'[q] = IF q = r THEN flags[q] \cup {"HASSOCK"} ELSE flags[q]
  BY <1>1 DEF NetInv
<1>7. SocketFlags'
  BY <1>1, <1>2, <1>3, <1>4, <1>5, <1>6 DEF NetInv, SocketFlags
<1>8. \A f \in Fd : ~OfRecv(f)' => bound'[f] = NoAddr
  BY <1>1, <1>5, SockeventAssumption DEF NetInv, OfRecv
<1>9. flags' \in [Recv -> SUBSET Flag] /\ sockfd' \in [Recv -> Fd \cup {NoFd}]
  BY <1>1 DEF NetInv, Flag
<1> QED BY <1>1, <1>7, <1>8, <1>9 DEF NetInv

\* BIND: the address goes to the node's own descriptor, and to no other node's.
LEMMA BindStep ==
  ASSUME NetInv, NEW r \in Recv, NEW a \in Addr, NEW e \in Event, Bind(r, a, e)
  PROVE  NetInv'
<1>1. /\ sockfd[r] # NoFd /\ bound' = [bound EXCEPT ![sockfd[r]] = a]
      /\ flags' = [flags EXCEPT ![r] = @ \cup {"BOUND"}]
      /\ sockfd' = sockfd /\ open' = open
  BY DEF Bind, SubscribeNew
<1>2. sockfd[r] \in Fd /\ a # NoAddr
  BY <1>1, NetAssumption DEF NetInv
<1>3. \A fd \in Fd : bound'[fd] = IF fd = sockfd[r] THEN a ELSE bound[fd]
  BY <1>1, <1>2 DEF NetInv
<1>4. \A q \in Recv : flags'[q] = IF q = r THEN flags[q] \cup {"BOUND"} ELSE flags[q]
  BY <1>1 DEF NetInv
<1>5. \A q \in Recv : sockfd[q] \in Fd \cup {NoFd}
  BY DEF NetInv
<1>6. SocketFlags'
  BY <1>1, <1>2, <1>3, <1>4, <1>5 DEF NetInv, SocketFlags
<1>7. \A f \in Fd : ~OfRecv(f)' => bound'[f] = NoAddr
  BY <1>1, <1>3 DEF NetInv, OfRecv
<1>8. flags' \in [Recv -> SUBSET Flag] /\ bound' \in [Fd -> Addr \cup {NoAddr}]
  BY <1>1 DEF NetInv, Flag
<1> QED BY <1>1, <1>6, <1>7, <1>8 DEF NetInv

\* SETFLAGS keeps the auxiliary flags.
LEMMA SetFlagsStep ==
  ASSUME NetInv, NEW r \in Recv, NEW new \in SUBSET Settable, SetFlags(r, new)
  PROVE  NetInv'
<1>1. /\ flags' = [flags EXCEPT ![r] = (@ \ Settable) \cup new]
      /\ sockfd' = sockfd /\ bound' = bound /\ open' = open
  BY DEF SetFlags, FlagsSet, vars, kernel, transport
<1>2. \A q \in Recv : {"HASSOCK", "BOUND"} \cap flags'[q] = {"HASSOCK", "BOUND"} \cap flags[q]
  BY <1>1 DEF NetInv, Settable
<1>3. flags' \in [Recv -> SUBSET Flag]
  BY <1>1 DEF NetInv, Flag
<1>4. SocketFlags'
  BY <1>1, <1>2 DEF NetInv, SocketFlags
<1> QED BY <1>1, <1>3, <1>4 DEF NetInv, OfRecv

\* Scripts open and close descriptors that are no recv node's.
LEMMA ScriptStep ==
  ASSUME NetInv, NEW fd \in Fd, Script(fd)
  PROVE  NetInv'
<1>1. /\ sockfd' = sockfd /\ flags' = flags /\ bound' = bound
      /\ \A q \in Recv : sockfd[q] # fd
  BY DEF Script, recvNodes, transport, OfRecv
<1>2. open \ {fd} \subseteq open'
  <2>1. CASE Open(fd)
    BY <2>1 DEF Open
  <2>2. CASE Close(fd)
    BY <2>2 DEF Close
  <2>3. ASSUME NEW n \in Node, Unsubscribe(fd, n) PROVE open' = open
    BY <2>3, ReleaseKeepsOpen
  <2>4. ASSUME NEW n \in Node, NEW mask \in Mask, SubscribeExisting(fd, mask, n)
        PROVE  open' = open
    BY <2>4 DEF SubscribeExisting
  <2>5. ASSUME NEW n \in Node, NEW mask \in Mask, NEW e \in Event,
               SubscribeNew(fd, mask, n, e)
        PROVE  open' = open
    BY <2>5 DEF SubscribeNew
  <2> QED BY <2>1, <2>2, <2>3, <2>4, <2>5 DEF Script
<1>3. SocketFlags'
  BY <1>1, <1>2 DEF NetInv, SocketFlags
<1> QED BY <1>1, <1>3 DEF NetInv, OfRecv
-----------------------------------------------------------------------------
\* There are no sockets at first.
LEMMA NetInvInit == NetInit => NetInv
<1> SUFFICES ASSUME NetInit PROVE NetInv
  OBVIOUS
<1>1. \A r \in Recv : sockfd[r] = NoFd /\ flags[r] = {}
  BY DEF NetInit
<1>2. SocketFlags
  BY <1>1 DEF SocketFlags
<1> QED BY <1>2 DEF NetInit, NetInv, OfRecv

\* NetInv is inductive: one case for each command of a recv node and for the
\* scripts, the rest leaves the sockets alone.
LEMMA NetInvStep == NetInv /\ [NetNext]_netVars => NetInv'
<1> SUFFICES ASSUME NetInv, [NetNext]_netVars PROVE NetInv'
  OBVIOUS
<1>1. CASE Elsewhere
  BY <1>1, ElsewhereUntouched, Untouched
<1>2. CASE MainLoop \/ \E fd \in Fd : Epoll(fd)
  BY <1>2, MainLoopUntouched, Untouched
<1>3. ASSUME NEW n \in Node, Remove(n) PROVE NetInv'
  <2>1. UNCHANGED open
    BY <1>3, ReleaseKeepsOpen DEF Remove
  <2>2. UNCHANGED sockState
    BY <1>3, <2>1 DEF Remove, sockState, transport
  <2> QED BY <2>2, Untouched
<1>4. ASSUME NEW r \in Recv, Connect(r) PROVE NetInv'
  <2>1. UNCHANGED sockState
    BY <1>4 DEF Connect, sockState, vars, kernel, transport
  <2> QED BY <2>1, Untouched
<1>5. CASE UNCHANGED netVars
  <2>1. UNCHANGED sockState
    BY <1>5 DEF netVars, sockState, vars, kernel, recvNodes, transport
  <2> QED BY <2>1, Untouched
<1> QED
  BY <1>1, <1>2, <1>3, <1>4, <1>5, CreateSockStep, BindStep, SetFlagsStep, ScriptStep
     DEF NetNext, Commands

\* recv.c: HASSOCK and BOUND, which only the module sets, agree with the
\* descriptor, whatever SETFLAGS, scripts and removals.
THEOREM FlagsAgree == NetSpec => []SocketFlags
<1>1. NetInv => SocketFlags
  BY DEF NetInv
<1> QED BY <1>1, NetInvInit, NetInvStep, PTL DEF NetSpec
-----------------------------------------------------------------------------
(* DmmNet implements DmmSockevent.                                         *)

\* A command of DmmNet is one command of DmmSockevent or none: CREATESOCK opens
\* a descriptor, BIND subscribes to it, SETFLAGS and hooks leave it alone.
LEMMA CommandsAreCommands == NetInv /\ Commands => [Command]_vars
<1> SUFFICES ASSUME NetInv, Commands PROVE [Command]_vars
  OBVIOUS
<1>1. ASSUME NEW n \in Node, Remove(n) PROVE Command
  BY <1>1 DEF Remove, Command
<1>2. ASSUME NEW fd \in Fd, Script(fd) PROVE Command
  BY <1>2 DEF Script, Command
<1>3. ASSUME NEW r \in Recv, Connect(r) \/ \E new \in SUBSET Settable : SetFlags(r, new)
      PROVE  UNCHANGED vars
  BY <1>3 DEF Connect, SetFlags
<1>4. ASSUME NEW r \in Recv, NEW fd \in Fd, CreateSock(r, fd) PROVE Command
  BY <1>4 DEF CreateSock, Command
<1>5. ASSUME NEW r \in Recv, NEW a \in Addr, NEW e \in Event, Bind(r, a, e)
      PROVE  Command
  <2>1. r \in Node /\ In \in Mask
    BY NetAssumption
  <2>2. sockfd[r] \in Fd /\ SubscribeNew(sockfd[r], In, r, e)
    BY <1>5 DEF Bind, BindMask, NetInv
  <2> QED BY <2>1, <2>2 DEF Command
<1> QED BY <1>1, <1>2, <1>3, <1>4, <1>5 DEF Commands

\* A step of the main loop is one of DmmSockevent's, or reads a datagram.
LEMMA LoopIsLoop == MainLoop \/ (\E fd \in Fd : Epoll(fd)) => [Loop]_vars
BY DEF MainLoop, Epoll, Sending, Return, Read, Loop

\* recv nodes and scripts, with datagrams and their readers, use socket events
\* only through the commands and the main loop of dmm_sockevent.c: what holds
\* of every behaviour of DmmSockevent holds of theirs.
THEOREM SocketsUsedAsProvided == NetSpec => Spec
<1>1. NetInit => Init
  BY DEF NetInit
<1>2. NetInv /\ [NetNext]_netVars => [Next]_vars
  <2> SUFFICES ASSUME NetInv, [NetNext]_netVars PROVE [Next]_vars
    OBVIOUS
  <2>1. CASE Elsewhere
    BY <2>1, ElsewhereUntouched
  <2>2. CASE Commands
    BY <2>2, CommandsAreCommands DEF Next
  <2>3. CASE MainLoop \/ \E fd \in Fd : Epoll(fd)
    BY <2>3, LoopIsLoop DEF Next
  <2>4. CASE UNCHANGED netVars
    BY <2>4 DEF netVars
  <2> QED BY <2>1, <2>2, <2>3, <2>4 DEF NetNext
<1> QED BY <1>1, <1>2, NetInvInit, NetInvStep, PTL DEF NetSpec, Spec
-----------------------------------------------------------------------------
(* What holds of socket events holds of recv nodes'.                       *)

\* dmm_sockevent.c keeps its promises to recv nodes and scripts.
THEOREM NetSocketsAreExact ==
  ASSUME RemoveNext = FALSE PROVE NetSpec => [](SockRefsExact /\ EpollExact)
BY SocketsUsedAsProvided, SocketRefsAreExact, EpollIsExact, PTL

\* A valid node that is bound is heard: epoll waits for its socket on its
\* behalf alone.
Heard(r) ==
  "BOUND" \in flags[r] /\ nd_state[r] = "valid" =>
    /\ epoll[sockfd[r]] # NoEvent /\ waits[sockfd[r]] = In
    /\ NodesOf(nd_events, epoll[sockfd[r]]) = {r}

AllHeard == \A r \in Recv : Heard(r)

\* What a step does to the event of this descriptor and its subscribers: nothing.
EventStays(fd) ==
  /\ epoll'[fd] = epoll[fd] /\ waits'[fd] = waits[fd]
  /\ epoll[fd] # NoEvent =>
       NodesOf(nd_events', epoll[fd]) = NodesOf(nd_events, epoll[fd])

\* A node that was heard still is, when its event stays as it is.
LEMMA StillHeard ==
  ASSUME AllHeard, NEW r \in Recv,
         "BOUND" \in flags'[r] => "BOUND" \in flags[r] /\ sockfd'[r] = sockfd[r],
         nd_state'[r] = "valid" => nd_state[r] = "valid",
         Heard(r) /\ "BOUND" \in flags[r] /\ nd_state'[r] = "valid" => EventStays(sockfd[r])
  PROVE  Heard(r)'
<1> SUFFICES ASSUME "BOUND" \in flags'[r], nd_state'[r] = "valid"
             PROVE  /\ epoll'[sockfd'[r]] # NoEvent /\ waits'[sockfd'[r]] = In
                    /\ NodesOf(nd_events', epoll'[sockfd'[r]]) = {r}
  BY DEF Heard, NodesOf
<1>1. Heard(r)
  BY DEF AllHeard
<1>2. /\ epoll[sockfd[r]] # NoEvent /\ waits[sockfd[r]] = In
      /\ NodesOf(nd_events, epoll[sockfd[r]]) = {r}
  BY <1>1 DEF Heard
<1>3. EventStays(sockfd[r]) /\ sockfd'[r] = sockfd[r]
  BY <1>1
<1>4. QED
  BY <1>2, <1>3 DEF EventStays

\* Subscriptions of other events go: this one's stay, and so does the event.
LEMMA ReleaseSparesOthers ==
  ASSUME SockInv, NEW pairs, CellsRemoved(pairs), NEW nr, NEW ns,
         ReleaseSockets(EventRefsWithout(pairs), nr, ns), NEW fd \in Fd,
         \A n \in Node : <<epoll[fd], n>> \notin pairs
  PROVE  EventStays(fd)
<1> DEFINE e == epoll[fd]
           er == EventRefsWithout(pairs)
           dead == {f \in Event : ev_state[f] = "valid" /\ er[f] = 0}
           fds == {se_fd[f] : f \in dead}
<1>1. /\ epoll' = [d \in Fd |-> IF d \in fds THEN NoEvent ELSE epoll[d]]
      /\ waits' = [d \in Fd |-> IF d \in fds THEN NoMask ELSE waits[d]]
  BY DEF ReleaseSockets, Deleted
<1>2. /\ e \in Event \cup {NoEvent} /\ EpollExact /\ EventsCountedExactly /\ SubsInv
      /\ NoEvent \notin Event
  BY EventAssumption DEF SockInv, TypeOK
<1>3. e # NoEvent => er[e] = ev_refs[e] /\ ev_refs[e] # 0
  <2> SUFFICES ASSUME e # NoEvent PROVE er[e] = ev_refs[e] /\ ev_refs[e] # 0
    OBVIOUS
  <2>1. e \in Event /\ ev_state[e] = "valid"
    BY <1>2 DEF EpollExact, InEpoll
  <2>2. {n \in Node : <<e, n>> \in pairs} = {}
    OBVIOUS
  <2>3. er[e] = ev_refs[e] - Cardinality({n \in Node : <<e, n>> \in pairs})
    BY <2>1 DEF EventRefsWithout
  <2>4. /\ ev_refs[e] = Cardinality(NodesOf(nd_events, e)) /\ NodesOf(nd_events, e) # {}
        /\ ev_refs[e] \in Nat
    BY <1>2, <2>1, SubscribersCounted DEF EventsCountedExactly
  <2>5. ev_refs[e] # 0
    BY <1>2, <2>1, <2>4, SubscribersCounted
  <2>6. er[e] = ev_refs[e] - 0
    BY <2>2, <2>3, FS_EmptySet
  <2> HIDE DEF e, er
  <2>7. QED
    BY <2>4, <2>5, <2>6
<1>4. fd \in fds => e # NoEvent /\ er[e] = 0
  BY <1>2 DEF EpollExact
<1>5. fd \notin fds
  BY <1>3, <1>4
<1>6. e # NoEvent => NodesOf(nd_events', e) = NodesOf(nd_events, e)
  <2> SUFFICES ASSUME e # NoEvent PROVE NodesOf(nd_events', e) = NodesOf(nd_events, e)
    OBVIOUS
  <2>1. \A n \in Node : e \in nd_events'[n] <=> e \in nd_events[n]
    BY DEF CellsRemoved
  <2>2. QED
    BY <2>1 DEF NodesOf
<1>7. QED
  BY <1>1, <1>5, <1>6 DEF EventStays

\* A command that scripts and recv nodes give for a descriptor.
CommandFor(fd, n) ==
  \/ Open(fd) \/ Close(fd) \/ Unsubscribe(fd, n)
  \/ \E mask \in Mask : \/ SubscribeExisting(fd, mask, n)
                        \/ \E e \in Event : SubscribeNew(fd, mask, n, e)

\* None makes a node valid.
LEMMA CommandRevivesNone ==
  ASSUME NEW fd, NEW n, CommandFor(fd, n), NEW m \in Node, nd_state'[m] = "valid"
  PROVE  nd_state[m] = "valid"
BY DEF CommandFor, Open, Close, Unsubscribe, ReleaseSockets, Release, SubscribeExisting,
       SubscribeNew, eventVars, objects

\* None touches the event of another descriptor.
LEMMA CommandSparesOthers ==
  ASSUME SockInv, NEW fd \in Fd, NEW d \in Fd, d # fd, NEW n \in Node, CommandFor(fd, n)
  PROVE  EventStays(d)
<1>1. /\ EventOf(fd) = epoll[fd] /\ epoll[fd] \in Event \cup {NoEvent}
      /\ epoll[d] \in Event \cup {NoEvent} /\ NoEvent \notin Event
      /\ epoll \in [Fd -> Event \cup {NoEvent}] /\ waits \in [Fd -> Mask \cup {NoMask}]
      /\ nd_events \in [Node -> SUBSET Event]
  BY EventAssumption, EventOfIs DEF SockInv, TypeOK, EventTypeOK
<1>2. epoll[d] # NoEvent => ev_state[epoll[d]] = "valid" /\ epoll[d] # epoll[fd]
  BY <1>1 DEF SockInv, EpollExact, InEpoll
<1>3. CASE Open(fd) \/ Close(fd)
  <2>1. UNCHANGED <<nd_events, nd_state>>
    BY <1>3 DEF Open, Close, eventVars, subscriptions, objects
  <2>2. epoll'[d] = epoll[d] /\ waits'[d] = waits[d]
    BY <1>1, <1>3 DEF Open, Close
  <2>3. QED
    BY <2>1, <2>2 DEF EventStays, NodesOf
<1>4. CASE Unsubscribe(fd, n)
  <2> DEFINE pairs == {<<EventOf(fd), n>>}
             nr == NodeRefsWithout(pairs)
  <2>1. /\ CellsRemoved(pairs) /\ EventOf(fd) # NoEvent
        /\ ReleaseSockets(EventRefsWithout(pairs), nr, nd_state)
    BY <1>4 DEF Unsubscribe
  <2>2. \A k \in Node : <<epoll[d], k>> \notin pairs
    BY <1>1, <1>2, <2>1
  <2> HIDE DEF pairs, nr
  <2>3. QED
    BY <2>1, <2>2, ReleaseSparesOthers
<1>5. ASSUME NEW e \in Event, e # epoll[d], Subscribe(e, n)
      PROVE  epoll[d] # NoEvent => NodesOf(nd_events', epoll[d]) = NodesOf(nd_events, epoll[d])
  BY <1>1, <1>5 DEF Subscribe, NodesOf
<1>6. ASSUME NEW mask \in Mask, SubscribeExisting(fd, mask, n)
      PROVE  EventStays(d)
  <2>1. EventOf(fd) \in Event /\ EventOf(fd) # epoll[d]
    BY <1>1, <1>2, <1>6 DEF SubscribeExisting, InEpoll
  <2>2. Subscribe(EventOf(fd), n) \/ UNCHANGED nd_events
    BY <1>6 DEF SubscribeExisting, subscriptions
  <2>3. epoll'[d] = epoll[d] /\ waits'[d] = waits[d]
    BY <1>1, <1>6 DEF SubscribeExisting
  <2>4. CASE UNCHANGED nd_events
    BY <2>3, <2>4 DEF EventStays, NodesOf
  <2>5. CASE Subscribe(EventOf(fd), n)
    BY <1>5, <2>1, <2>3, <2>5 DEF EventStays
  <2>6. QED
    BY <2>2, <2>3, <2>4, <2>5
<1>7. ASSUME NEW mask \in Mask, NEW e \in Event, SubscribeNew(fd, mask, n, e)
      PROVE  EventStays(d)
  <2>1. ev_state[e] = "unborn" /\ Subscribe(e, n)
    BY <1>7 DEF SubscribeNew
  <2>2. e # epoll[d]
    BY <1>1, <1>2, <2>1
  <2>3. epoll'[d] = epoll[d] /\ waits'[d] = waits[d]
    BY <1>1, <1>7 DEF SubscribeNew
  <2>4. QED
    BY <1>5, <2>1, <2>2, <2>3 DEF EventStays
<1>8. QED
  BY <1>3, <1>4, <1>6, <1>7 DEF CommandFor

\* NODERM of another node leaves the event of a node that is heard alone.
LEMMA RemoveStep ==
  ASSUME SockInv, NetInv, AllHeard, NEW n \in Node, Remove(n)
  PROVE  AllHeard'
<1> DEFINE pairs == SubscriptionsOf(n)
           refs == NodeRefsWithout(pairs)
           nr == [refs EXCEPT ![n] = @ - 1]
           ns == [nd_state EXCEPT ![n] = "invalid"]
<1>1. /\ nd_state[n] = "valid" /\ CellsRemoved(pairs) /\ UNCHANGED <<sockfd, flags>>
      /\ ReleaseSockets(EventRefsWithout(pairs), nr, ns)
  BY DEF Remove, NodeRm
<1>2. \A m \in Node : nd_state'[m] = "valid" => nd_state[m] = "valid" /\ m # n
  BY <1>1 DEF ReleaseSockets, Release, SockInv, TypeOK, EventTypeOK
<1> HIDE DEF nr, ns
<1>3. ASSUME NEW r \in Recv, Heard(r), "BOUND" \in flags[r], nd_state'[r] = "valid"
      PROVE  EventStays(sockfd[r])
  <2>1. r \in Node /\ nd_state[r] = "valid" /\ r # n
    BY <1>2, <1>3, NetAssumption
  <2>2. NodesOf(nd_events, epoll[sockfd[r]]) = {r}
    BY <1>3, <2>1 DEF Heard
  <2>3. \A m \in Node : <<epoll[sockfd[r]], m>> \notin pairs
    BY <2>1, <2>2 DEF NodesOf, SubscriptionsOf
  <2>4. sockfd[r] \in Fd
    BY <1>3 DEF NetInv, SocketFlags
  <2> HIDE DEF pairs
  <2>5. QED
    BY <1>1, <2>3, <2>4, ReleaseSparesOthers
<1>4. ASSUME NEW r \in Recv PROVE Heard(r)'
  <2>1. r \in Node
    BY NetAssumption
  <2>2. QED
    BY <1>1, <1>2, <1>3, <2>1, StillHeard
<1>5. QED
  BY <1>4 DEF AllHeard

\* Scripts and CREATESOCK have descriptors that are no bound node's.
LEMMA OtherStep ==
  ASSUME SockInv, NetInv, AllHeard, NEW fd \in Fd,
         Script(fd) \/ \E r \in Recv : CreateSock(r, fd)
  PROVE  AllHeard'
<1> SUFFICES ASSUME NEW r \in Recv PROVE Heard(r)'
  BY DEF AllHeard
<1>1. r \in Node
  BY NetAssumption
<1>2. PICK n \in Node : CommandFor(fd, n)
  <2>1. CASE Script(fd)
    BY <1>1, <2>1 DEF Script, CommandFor
  <2>2. CASE \E q \in Recv : CreateSock(q, fd)
    BY <1>1, <2>2 DEF CreateSock, CommandFor
  <2>3. QED
    BY <2>1, <2>2
<1>3. /\ nd_state'[r] = "valid" => nd_state[r] = "valid"
      /\ \A d \in Fd : d # fd => EventStays(d)
  BY <1>1, <1>2, CommandRevivesNone, CommandSparesOthers
<1>4. /\ "BOUND" \in flags'[r] => "BOUND" \in flags[r] /\ sockfd'[r] = sockfd[r]
      /\ "BOUND" \in flags[r] => sockfd[r] \in Fd /\ sockfd[r] # fd
  <2>1. CASE Script(fd)
    BY <2>1 DEF Script, recvNodes, OfRecv, NetInv, SocketFlags
  <2>2. ASSUME NEW q \in Recv, CreateSock(q, fd)
        PROVE  /\ "BOUND" \in flags'[r] => "BOUND" \in flags[r] /\ sockfd'[r] = sockfd[r]
               /\ "BOUND" \in flags[r] => sockfd[r] \in Fd /\ sockfd[r] # fd
    <3>1. /\ sockfd[q] = NoFd /\ fd \notin open
          /\ sockfd' = [sockfd EXCEPT ![q] = fd]
          /\ flags' = [flags EXCEPT ![q] = @ \cup {"HASSOCK"}]
      BY <2>2 DEF CreateSock, Open
    <3>2. "BOUND" \in flags'[r] => "BOUND" \in flags[r]
      BY <3>1 DEF NetInv
    <3>3. "BOUND" \in flags[r] => r # q /\ sockfd[r] \in Fd /\ sockfd[r] # fd
      BY <3>1, SockeventAssumption DEF NetInv, SocketFlags
    <3>4. QED
      BY <3>1, <3>2, <3>3 DEF NetInv
  <2>3. QED
    BY <2>1, <2>2
<1>5. Heard(r) /\ "BOUND" \in flags[r] /\ nd_state'[r] = "valid" => EventStays(sockfd[r])
  BY <1>3, <1>4
<1>6. QED
  BY <1>3, <1>4, <1>5, StillHeard

\* BIND: the node is alone with its new event.
LEMMA BindHeard ==
  ASSUME SockInv, NetInv, AllHeard, NEW r \in Recv, NEW a \in Addr, NEW e \in Event,
         Bind(r, a, e)
  PROVE  AllHeard'
<1> DEFINE fd == sockfd[r]
<1>1. /\ fd \in Fd /\ r \in Node /\ In \in Mask /\ SubscribeNew(fd, In, r, e)
      /\ flags' = [flags EXCEPT ![r] = @ \cup {"BOUND"}] /\ sockfd' = sockfd
  BY NetAssumption DEF Bind, BindMask, NetInv
<1>2. Heard(r)'
  <2>1. /\ ev_state[e] = "unborn" /\ Subscribe(e, r)
        /\ epoll' = [epoll EXCEPT ![fd] = e] /\ waits' = [waits EXCEPT ![fd] = In]
    BY <1>1 DEF SubscribeNew
  <2>2. epoll'[fd] = e /\ waits'[fd] = In /\ e # NoEvent
    BY <1>1, <2>1, EventAssumption DEF SockInv, TypeOK
  <2>3. NodesOf(nd_events, e) = {}
    BY <2>1 DEF SockInv, EventsCountedExactly
  <2>4. NodesOf(nd_events', e) = {r}
    BY <1>1, <2>1, <2>3 DEF Subscribe, NodesOf, SockInv, TypeOK, EventTypeOK
  <2>5. QED
    BY <1>1, <2>2, <2>4 DEF Heard, NodesOf
<1>3. ASSUME NEW q \in Recv, q # r PROVE Heard(q)'
  <2>1. q \in Node /\ flags'[q] = flags[q] /\ sockfd'[q] = sockfd[q]
    BY <1>1, <1>3, NetAssumption DEF NetInv
  <2>2. "BOUND" \in flags[q] => sockfd[q] \in Fd /\ sockfd[q] # fd
    BY <1>1, <1>3, SockeventAssumption DEF NetInv, SocketFlags
  <2> HIDE DEF fd
  <2>3. CommandFor(fd, r)
    BY <1>1 DEF CommandFor
  <2>4. /\ nd_state'[q] = "valid" => nd_state[q] = "valid"
        /\ \A d \in Fd : d # fd => EventStays(d)
    BY <1>1, <2>1, <2>3, CommandRevivesNone, CommandSparesOthers
  <2>5. Heard(q) /\ "BOUND" \in flags[q] /\ nd_state'[q] = "valid" => EventStays(sockfd[q])
    BY <2>2, <2>4
  <2>6. QED
    BY <2>1, <2>4, <2>5, StillHeard
<1>4. QED
  BY <1>2, <1>3 DEF AllHeard

\* What AllHeard is about, besides the flags of bound nodes.
LEMMA AllHeardStays ==
  ASSUME AllHeard, UNCHANGED <<sockfd, nd_events, epoll, waits>>,
         \A r \in Recv : /\ "BOUND" \in flags'[r] => "BOUND" \in flags[r]
                         /\ nd_state'[r] = "valid" => nd_state[r] = "valid"
  PROVE  AllHeard'
<1>1. \A r \in Recv : EventStays(sockfd[r])
  BY DEF EventStays, NodesOf
<1>2. ASSUME NEW r \in Recv PROVE Heard(r)'
  BY <1>1, StillHeard
<1>3. QED
  BY <1>2 DEF AllHeard

\* AllHeard is inductive, given the others.
LEMMA AllHeardStep ==
  ASSUME SockInv, NetInv, AllHeard, [NetNext]_netVars
  PROVE  AllHeard'
<1>1. CASE Elsewhere \/ UNCHANGED netVars
  <2>1. UNCHANGED <<sockfd, flags>> /\ UNCHANGED vars
    BY <1>1, ElsewhereUntouched DEF netVars, recvNodes, sockState
  <2>2. QED
    BY <2>1, AllHeardStays DEF vars, eventVars, subscriptions, objects, kernel
<1>2. CASE MainLoop \/ \E fd \in Fd : Epoll(fd)
  <2>1. UNCHANGED <<sockfd, flags>> /\ [Loop]_vars
    BY <1>2, MainLoopUntouched, LoopIsLoop DEF sockState
  <2>2. /\ UNCHANGED <<nd_events, epoll, waits>>
        /\ \A n \in Node : nd_state'[n] = "valid" => nd_state[n] = "valid"
    <3>1. CASE Send
      BY <3>1 DEF Send, SendStep, subscriptions, kernel
    <3>2. CASE Returns
      BY <3>2 DEF Returns, HandlerReturns, Release, subscriptions, kernel
    <3>3. CASE ProcessEnd \/ \E fd \in Fd : Process(fd)
      BY <3>3 DEF ProcessEnd, Process, subscriptions, objects, kernel
    <3>4. CASE UNCHANGED vars
      BY <3>4 DEF vars, eventVars, subscriptions, objects, kernel
    <3>5. QED
      BY <2>1, <3>1, <3>2, <3>3, <3>4 DEF Loop
  <2>3. QED
    BY <2>1, <2>2, AllHeardStays, NetAssumption
<1>3. ASSUME NEW r \in Recv, Connect(r) PROVE AllHeard'
  <2>1. UNCHANGED <<sockfd, flags>> /\ UNCHANGED vars
    BY <1>3 DEF Connect
  <2>2. QED
    BY <2>1, AllHeardStays DEF vars, eventVars, subscriptions, objects, kernel
<1>4. ASSUME NEW r \in Recv, NEW new \in SUBSET Settable, SetFlags(r, new) PROVE AllHeard'
  <2>1. UNCHANGED sockfd /\ UNCHANGED vars
        /\ flags' = [flags EXCEPT ![r] = (@ \ Settable) \cup new]
    BY <1>4 DEF SetFlags, FlagsSet
  <2>2. \A q \in Recv : "BOUND" \in flags'[q] => "BOUND" \in flags[q]
    BY <2>1 DEF NetInv, Settable
  <2>3. QED
    BY <2>1, <2>2, AllHeardStays DEF vars, eventVars, subscriptions, objects, kernel
<1>5. CASE Commands
  BY <1>3, <1>4, <1>5, RemoveStep, OtherStep, BindHeard DEF Commands
<1>6. QED
  BY <1>1, <1>2, <1>5 DEF NetNext
-----------------------------------------------------------------------------
\* recv.c: through whatever SETFLAGS, scripts and removals, the flags agree with
\* the socket, and a valid node that is bound is subscribed to it, alone.
THEOREM FlagsAreTrue == ASSUME RemoveNext = FALSE PROVE NetSpec => []FlagsTell
<1>1. NetInit => AllHeard
  BY DEF NetInit, AllHeard, Heard
<1>2. NetInv /\ SockInv /\ AllHeard => FlagsTell
  <2> SUFFICES ASSUME NetInv, SockInv, AllHeard, NEW r \in Recv,
                      "BOUND" \in flags[r], nd_state[r] = "valid"
               PROVE  LET e == epoll[sockfd[r]]
                      IN  e # NoEvent /\ waits[sockfd[r]] = In /\ ev_nodes[e] = <<r>>
    BY DEF FlagsTell, NetInv
  <2> DEFINE e == epoll[sockfd[r]]
             s == ev_nodes[e]
  <2>1. e # NoEvent /\ waits[sockfd[r]] = In /\ NodesOf(nd_events, e) = {r}
    BY DEF AllHeard, Heard
  <2>2. e \in Event
    BY <2>1 DEF NetInv, SocketFlags, SockInv, TypeOK
  <2>3. SubsInv
    BY DEF SockInv
  <2> HIDE DEF e
  <2>4. s \in Seq(Node) /\ NoTwice(s) /\ Members(s) = {r}
    BY <2>1, <2>2, <2>3, SubscribersCounted
  <2>5. s = <<r>>
    BY <2>4, ListOfOne
  <2>6. QED
    BY <2>1, <2>5 DEF e
<1>3. NetSpec => []NetInv
  BY NetInvInit, NetInvStep, PTL DEF NetSpec
<1>4. RemoveNext = FALSE => (NetSpec => []SockInv)
  BY SocketsUsedAsProvided, SockInvHolds, PTL
<1>5. QED
  BY <1>1, <1>2, <1>3, <1>4, AllHeardStep, PTL DEF NetSpec
-----------------------------------------------------------------------------
(* Types.                                                                  *)

\* The rest of NetTypeOK.
DataTypeOK ==
  /\ outhook \in [Recv -> BOOLEAN]
  /\ peer \in [Sender -> Addr \cup {NoAddr}] /\ network \subseteq Datagram
  /\ rcvq \in [Fd -> Seq(Datagram)]
  /\ arrivals \in 0..MaxArrivals /\ progress \in {"called", "sending", "done"}

\* A datagram joins a buffer when it arrives, and leaves it when it is read;
\* the steps of DmmSockevent know nothing of them.
LEMMA DataTypeStep ==
  ASSUME DataTypeOK, [NetNext]_netVars
  PROVE  DataTypeOK'
<1> DEFINE dataVars == <<outhook, transport, progress>>
<1>1. UNCHANGED dataVars => DataTypeOK'
  BY DEF DataTypeOK, transport
<1>2. ASSUME NEW n \in Node, Remove(n) PROVE DataTypeOK'
  BY <1>2 DEF Remove, DataTypeOK, transport
<1>3. ASSUME NEW fd \in Fd, Script(fd) \/ Epoll(fd) PROVE DataTypeOK'
  BY <1>1, <1>3 DEF Script, Epoll, recvNodes
<1>4. ASSUME NEW r \in Recv, NEW fd \in Fd, CreateSock(r, fd) PROVE DataTypeOK'
  BY <1>1, <1>4 DEF CreateSock
<1>5. ASSUME NEW r \in Recv, NEW a \in Addr, NEW e \in Event, Bind(r, a, e) PROVE DataTypeOK'
  BY <1>5 DEF Bind, DataTypeOK
<1>6. ASSUME NEW r \in Recv, NEW new \in SUBSET Settable, SetFlags(r, new) PROVE DataTypeOK'
  BY <1>1, <1>6 DEF SetFlags
<1>7. ASSUME NEW r \in Recv, Connect(r) PROVE DataTypeOK'
  BY <1>7 DEF Connect, DataTypeOK, transport
<1>8. CASE Sending
  BY <1>1, <1>8 DEF Sending, recvNodes
<1>9. CASE Return
  BY <1>9 DEF Return, recvNodes, transport, DataTypeOK
<1>10. ASSUME NEW r \in Recv, Read(r) PROVE DataTypeOK'
  <2> DEFINE fd == sockfd[r]
  <2>1. /\ progress' \in {"called", "sending", "done"}
        /\ UNCHANGED <<outhook, peer, network, arrivals>>
        /\ \/ rcvq' = rcvq
           \/ rcvq[fd] # <<>> /\ rcvq' = [rcvq EXCEPT ![fd] = Tail(@)]
    <3>1. UNCHANGED <<outhook, peer, network, arrivals>>
      BY <1>10 DEF Read, recvNodes
    <3>2. CASE /\ se_fd[sending] = fd /\ waits[fd] = In /\ rcvq[fd] # <<>>
               /\ rcvq' = [rcvq EXCEPT ![fd] = Tail(@)]
               /\ progress' = IF Passes(r, Head(rcvq[fd])) THEN "sending" ELSE "done"
      <4>1. progress' = "sending" \/ progress' = "done"
        BY <3>2
      <4>2. QED
        BY <3>1, <3>2, <4>1
    <3>3. CASE progress' = "done" /\ rcvq' = rcvq
      BY <3>1, <3>3
    <3>4. QED
      BY <1>10, <3>2, <3>3 DEF Read
  <2>2. rcvq' \in [Fd -> Seq(Datagram)]
    <3> HIDE DEF fd
    <3>1. CASE fd \in Fd
      <4>1. rcvq[fd] \in Seq(Datagram)
        BY <3>1 DEF DataTypeOK
      <4>2. rcvq[fd] # <<>> => Tail(rcvq[fd]) \in Seq(Datagram)
        BY <4>1
      <4>3. QED
        BY <2>1, <4>2 DEF DataTypeOK
    <3>2. CASE fd \notin Fd
      BY <2>1, <3>2 DEF DataTypeOK
    <3>3. QED
      BY <3>1, <3>2
  <2>3. QED
    BY <2>1, <2>2 DEF DataTypeOK
<1>11. ASSUME NEW s \in Sender, NEW a \in Addr, ConnectTo(s, a) PROVE DataTypeOK'
  BY <1>11 DEF ConnectTo, recvNodes, DataTypeOK
<1>12. ASSUME NEW s \in Sender, NEW whole \in BOOLEAN, SendData(s, whole) PROVE DataTypeOK'
  <2>1. peer[s] \in Addr
    BY <1>12 DEF SendData, DataTypeOK
  <2>2. [from |-> s, to |-> peer[s], whole |-> whole] \in Datagram
    BY <2>1 DEF Datagram
  <2>3. QED
    BY <1>12, <2>2 DEF SendData, recvNodes, DataTypeOK
<1>13. ASSUME NEW m \in network, NEW fd \in Fd, Arrive(m, fd) PROVE DataTypeOK'
  <2>1. m \in Datagram /\ rcvq[fd] \in Seq(Datagram)
    BY DEF DataTypeOK
  <2>2. rcvq' \in [Fd -> Seq(Datagram)]
    <3>1. Append(rcvq[fd], m) \in Seq(Datagram)
      BY <2>1
    <3>2. QED
      BY <1>13, <3>1 DEF Arrive, DataTypeOK
  <2>3. arrivals' \in 0..MaxArrivals
    BY <1>13, NetAssumption DEF Arrive, DataTypeOK
  <2>4. QED
    BY <1>13, <2>2, <2>3 DEF Arrive, recvNodes, DataTypeOK
<1>14. CASE UNCHANGED netVars
  BY <1>1, <1>14 DEF netVars, recvNodes
<1>15. QED
  BY <1>2, <1>3, <1>4, <1>5, <1>6, <1>7, <1>8, <1>9, <1>10, <1>11, <1>12, <1>13, <1>14
     DEF NetNext, Elsewhere, Commands, MainLoop

\* recv nodes, their sockets and the datagrams on their way have their types.
THEOREM NetTypes == ASSUME RemoveNext = FALSE PROVE NetSpec => []NetTypeOK
<1>1. NetInit => DataTypeOK
  BY NetAssumption DEF NetInit, DataTypeOK
<1>2. NetInv /\ DataTypeOK /\ TypeOK => NetTypeOK
  BY DEF NetInv, DataTypeOK, NetTypeOK
<1>3. NetSpec => []NetInv
  BY NetInvInit, NetInvStep, PTL DEF NetSpec
<1>4. RemoveNext = FALSE => (NetSpec => []TypeOK)
  BY SocketsUsedAsProvided, SocketTypes, PTL
<1>5. QED
  BY <1>1, <1>2, <1>3, <1>4, DataTypeStep, PTL DEF NetSpec
=============================================================================
