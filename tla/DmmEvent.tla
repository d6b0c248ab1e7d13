------------------------------ MODULE DmmEvent ------------------------------
(***************************************************************************)
(* Events and the nodes subscribed to them (dmm_event.c): what DmmTimer    *)
(* and DmmSockevent are built on.                                          *)
(*                                                                         *)
(* A subscription is two list cells, one in the event's ev_nodes and one   *)
(* in the node's nd_events, and a reference each way.  A trigger is sent   *)
(* to the subscribers one after the other by a loop that saves the next    *)
(* cell before it calls a handler; the handler may subscribe, unsubscribe  *)
(* and remove nodes and events before it returns.                          *)
(***************************************************************************)
EXTENDS Naturals, Sequences, FiniteSets, DmmLists

CONSTANTS
  Node, Event,
  RemoveNext, \* may a handler remove the subscriber or event to come next?
  NoNode, NoEvent

ASSUME EventAssumption ==
  /\ IsFiniteSet(Node) /\ IsFiniteSet(Event)
  /\ RemoveNext \in BOOLEAN
  /\ NoNode \notin Node /\ NoEvent \notin Event

VARIABLES
  nd_state,  \* "valid", "invalid" (still referenced), "freed"
  nd_refs,   \* reference counts of nodes
  nd_events, \* the events in each node's list; its order decides nothing
  ev_state,  \* "unborn", "valid", "invalid" (still referenced), "freed"
  ev_refs,   \* reference counts of events
  ev_nodes,  \* each event's list of subscribers, in order
  sending,   \* the event being sent by dmm_event_sendsubscribed
  running,   \* the node whose handler runs
  next       \* the cell saved as tmp_en: a subscriber, or NoNode for NULL

subscriptions == <<nd_events, ev_nodes>>
objects == <<nd_state, nd_refs, ev_state, ev_refs>>
delivery == <<sending, running, next>>
eventVars == <<subscriptions, objects, delivery>>

EventTypeOK ==
  /\ nd_state \in [Node -> {"valid", "invalid", "freed"}]
  /\ ev_state \in [Event -> {"unborn", "valid", "invalid", "freed"}]
  /\ nd_refs \in [Node -> Nat] /\ ev_refs \in [Event -> Nat]
  /\ nd_events \in [Node -> SUBSET Event] /\ ev_nodes \in [Event -> Seq(Node)]
  /\ sending \in Event \cup {NoEvent}
  /\ running \in Node \cup {NoNode} /\ next \in Node \cup {NoNode}
-----------------------------------------------------------------------------
(* References.  dmm_event_unref destroys an event and dmm_node_unref frees *)
(* a node when the last reference is gone.                                 *)

\* er, nr: the reference counts after the step; es, ns: the flags it sets.
Release(er, nr, es, ns) ==
  /\ ev_refs' = er /\ nd_refs' = nr
  /\ ev_state' = [e \in Event |->
       IF es[e] \in {"valid", "invalid"} /\ er[e] = 0 THEN "freed" ELSE es[e]]
  /\ nd_state' = [n \in Node |->
       IF ns[n] \in {"valid", "invalid"} /\ nr[n] = 0 THEN "freed" ELSE ns[n]]

\* Two variants of dmm_event_unsubscribe: without DMM_NODE_UNREF, and with two.
NodeRefsKept(pairs) == nd_refs
NodeRefsTwice(pairs) ==
  [n \in Node |-> nd_refs[n] - 2 * Cardinality({e \in Event : <<e, n>> \in pairs})]

\* Each subscription <<event, node>> held a reference to both.
EventRefsWithout(pairs) ==
  [e \in Event |-> ev_refs[e] - Cardinality({n \in Node : <<e, n>> \in pairs})]
NodeRefsWithout(pairs) ==
  [n \in Node |-> nd_refs[n] - Cardinality({e \in Event : <<e, n>> \in pairs})]
-----------------------------------------------------------------------------
(* Subscriptions.                                                          *)

Subscribed(e, n) == e \in nd_events[n]

\* Variants of dmm_node_rm and dmm_timer_rm that leave the subscriptions.
NodeKeepsAll(n) == {}
EventKeepsAll(e) == {}

\* The subscriptions, as <<event, node>>, that dmm_node_unsubscribeallevents
\* and dmm_event_unsubscribeall remove.
SubscriptionsOf(n) == {<<e, n>> : e \in nd_events[n]}
SubscribersOf(e) == {<<e, n>> : n \in Members(ev_nodes[e])}

\* dmm_event_subscribe: at the tail of the event's list, and references.
Subscribe(e, n) ==
  /\ ev_nodes' = [ev_nodes EXCEPT ![e] = Append(@, n)]
  /\ nd_events' = [nd_events EXCEPT ![n] = @ \cup {e}]
  /\ nd_refs' = [nd_refs EXCEPT ![n] = @ + 1]

\* A variant of dmm_event_unsubscribe that leaves the node's cell.
CellsKept(pairs) ==
  /\ ev_nodes' = [e \in Event |-> Kept(ev_nodes[e], {n \in Node : <<e, n>> \in pairs})]
  /\ UNCHANGED nd_events

\* dmm_event_unsubscribe of these subscriptions: both cells leave their lists.
CellsRemoved(pairs) ==
  /\ ev_nodes' = [e \in Event |-> Kept(ev_nodes[e], {n \in Node : <<e, n>> \in pairs})]
  /\ nd_events' = [n \in Node |-> {e \in nd_events[n] : <<e, n>> \notin pairs}]

\* The cell saved by dmm_event_sendsubscribed is not removed: DiMMon's own
\* modules remove no subscription but the last (the starter node's TIMERRM).
MayRemove(pairs) == RemoveNext \/ <<sending, next>> \notin pairs

\* A command comes from a handler: of the node that is sent a trigger, or of
\* any other node when no trigger is being sent.
InHandler == running # NoNode \/ sending = NoEvent

\* DMM_MSG_NODERM: dmm_node_rm invalidates the node and
\* dmm_node_unsubscribeallevents removes its subscriptions.
NodeRemove(n) ==
  LET pairs == SubscriptionsOf(n)
      refs  == NodeRefsWithout(pairs)
  IN  /\ InHandler /\ nd_state[n] = "valid" /\ MayRemove(pairs)
      /\ CellsRemoved(pairs)
      /\ Release(EventRefsWithout(pairs), [refs EXCEPT ![n] = @ - 1],
                 ev_state, [nd_state EXCEPT ![n] = "invalid"])
      /\ UNCHANGED delivery
-----------------------------------------------------------------------------
(* dmm_event_sendsubscribed.                                               *)

\* The loop starts: e is the event, its first cell the next one.
SendStart(e) == sending' = e /\ next' = FirstOf(ev_nodes[e], NoNode) /\ running' = NoNode

\* The loop moves to its next cell: saves the one after it, and sends a copy
\* of the message to its node, which is held, unless it is invalid.
SendStep ==
  /\ sending # NoEvent /\ running = NoNode /\ next # NoNode
  /\ next' = NextOf(ev_nodes[sending], next, NoNode)
  /\ IF nd_state[next] = "valid"
     THEN running' = next /\ nd_refs' = [nd_refs EXCEPT ![next] = @ + 1]
     ELSE UNCHANGED <<running, nd_refs>>
  /\ UNCHANGED <<subscriptions, nd_state, ev_state, ev_refs, sending>>

\* The handler returns: dmm_msg_apply releases the node.
HandlerReturns ==
  /\ running # NoNode
  /\ Release(ev_refs, [nd_refs EXCEPT ![running] = @ - 1], ev_state, nd_state)
  /\ running' = NoNode
  /\ UNCHANGED <<subscriptions, sending, next>>

\* Every cell has been visited.
SendDone == sending # NoEvent /\ running = NoNode /\ next = NoNode
-----------------------------------------------------------------------------
EventInit ==
  /\ nd_state = [n \in Node |-> "valid"] /\ nd_refs = [n \in Node |-> 1]
  /\ nd_events = [n \in Node |-> {}]
  /\ ev_state = [e \in Event |-> "unborn"] /\ ev_refs = [e \in Event |-> 0]
  /\ ev_nodes = [e \in Event |-> <<>>]
  /\ sending = NoEvent /\ running = NoNode /\ next = NoNode

\* Node and event know of each other, once: what the assertion of
\* dmm_event_unsubscribe and its removal of one cell of each rely on.
SubscriptionsMutual ==
  \A e \in Event :
    /\ Members(ev_nodes[e]) = {n \in Node : e \in nd_events[n]}
    /\ Cardinality(Members(ev_nodes[e])) = Len(ev_nodes[e])

\* A node is referenced by the node list until NODERM, by its subscriptions
\* and by the trigger it is handling.
NodeRefsExact ==
  \A n \in Node :
    nd_refs[n] = (IF nd_state[n] = "valid" THEN 1 ELSE 0)
                 + Cardinality(nd_events[n]) + (IF running = n THEN 1 ELSE 0)

\* Subscriptions join a node that is not freed to an event that is not
\* freed, and only valid nodes have any.
SubscriptionsAlive ==
  \A n \in Node : nd_events[n] # {} =>
    nd_state[n] = "valid" /\ \A e \in nd_events[n] : ev_state[e] = "valid"

\* The cell dmm_event_sendsubscribed has saved is still a cell of the list.
CursorSafe ==
  sending # NoEvent /\ next # NoNode => next \in Members(ev_nodes[sending])
=============================================================================
