------------------------------ MODULE DmmWave -------------------------------
(***************************************************************************)
(* Waves (dmm_wave.c) and the nodes that live by them (wavebuf.c).         *)
(*                                                                         *)
(* A wave is one round of the main loop: start, the handlers of a socket   *)
(* event and of the due timers, finish.  A wavebuf collects the data that  *)
(* arrives in a wave and sends it on as one block when the wave finishes:  *)
(* the first block it gets makes it subscribe to the end of the wave.      *)
(* Blocks are counted, not looked into.  All connections to a wavebuf use  *)
(* one in hook, and the wiring has no cycles.                              *)
(***************************************************************************)
EXTENDS Naturals, Sequences, FiniteSets, DmmLists

CONSTANTS
  Node,    \* the wavebufs
  Other,   \* a receiver of any other type
  Wiring,  \* the connections that may be made, as <<wavebuf, receiver>>
  MaxBuf   \* bound on the blocks in a buffer

ASSUME WaveAssumption ==
  /\ IsFiniteSet(Node) /\ Other \notin Node
  /\ Wiring \subseteq Node \X (Node \cup {Other})
  /\ MaxBuf \in Nat \ {0}

VARIABLES
  phase,    \* "idle" (in epoll_wait), "open" (handlers run), "finishing"
  wf_refs,  \* reference count of the wave's finish event, 0 if it has none
  ev_nodes, \* its list of subscribers
  seen,     \* how many of its cells dmm_event_sendsubscribed has visited
  next,     \* the cell it has saved as tmp_en, 0 for NULL
  alive,    \* the wavebufs that NODERM has not removed
  fed,      \* those connected to a sensor
  out,      \* the receivers that each out hook is connected to
  hook,     \* is pvt->hook not NULL?
  databuf,  \* the number of blocks in each buffer
  late,     \* history: the buffer was empty until the last subscriber was told
  sent      \* history: the wavebufs that have sent on all that they have got

event == <<wf_refs, ev_nodes, seen, next>>
wires == <<alive, fed, out, hook>>
history == <<late, sent>>
vars == <<phase, event, wires, databuf, history>>

TypeOK ==
  /\ phase \in {"idle", "open", "finishing"}
  /\ wf_refs \in Nat /\ ev_nodes \in Seq(Node)
  /\ seen \in 0..Len(ev_nodes) /\ next \in 0..Len(ev_nodes)
  /\ alive \subseteq Node /\ fed \subseteq alive
  /\ out \in [Node -> SUBSET (Node \cup {Other})]
  /\ hook \in [Node -> BOOLEAN]
  /\ databuf \in [Node -> 0..MaxBuf] /\ late \in [Node -> BOOLEAN]
  /\ sent \subseteq Node

Capped(k) == IF k > MaxBuf THEN MaxBuf ELSE k
Orders(S) == {s \in [1..Cardinality(S) -> S] : Members(s) = S}
-----------------------------------------------------------------------------
(* wavebuf's rcvdata, newhook and rmhook.                                  *)

\* Two variants: one that inserts the block before it looks whether the
\* buffer is empty, one that subscribes for each block.
FirstIfInserted(n) == FALSE
FirstAlways(n) == TRUE

\* The block is the first one: subscribe.
First(n) == databuf[n] = 0

\* A variant of dmm_wavefinish_subscribe that keeps its reference to a new event.
RefsKept(k) == IF wf_refs = 0 /\ k > 0 THEN k + 1 ELSE wf_refs + k

\* k more subscriptions (dmm_wavefinish_subscribe): the first creates the event.
RefsWith(k) == wf_refs + k

\* A block arrives at each of these nodes, in an order that only the list
\* of subscribers shows.
Receive(S) ==
  LET firsts == {n \in S : First(n)}
  IN  /\ \E order \in Orders(firsts) : ev_nodes' = ev_nodes \o order
      /\ wf_refs' = RefsWith(Cardinality(firsts))

Filled(S) == [n \in Node |-> IF n \in S THEN Capped(databuf[n] + 1) ELSE databuf[n]]

\* A node has an in hook as long as something is connected to it.
HasInHook(n, o, f) == n \in f \/ \E m \in Node : n \in o[m]
HasOutHook(n, o) == o[n] # {}

\* A variant in which rmhook does nothing.
PointerKept(n, o, f) == hook[n] \/ (HasOutHook(n, o) /\ ~HasOutHook(n, out))

\* pvt->hook after the connections have become o and f: newhook sets it for a
\* new out hook; rmhook clears it, for an in hook as for the out hook.
Pointer(n, o, f) ==
  IF \/ HasInHook(n, out, fed) /\ ~HasInHook(n, o, f)
     \/ ~HasOutHook(n, o)
  THEN FALSE
  ELSE hook[n] \/ ~HasOutHook(n, out)

\* The connections become o and f.
Rewire(o, f) ==
  /\ out' = o /\ fed' = f
  /\ hook' = [n \in Node |-> Pointer(n, o, f)]
-----------------------------------------------------------------------------
(* The handlers of a wave.                                                 *)

\* dmm_wave_start.
WaveStart ==
  /\ phase = "idle" /\ phase' = "open"
  /\ UNCHANGED <<event, wires, databuf, history>>

\* A sensor sends a block to wavebuf n.
Data(n) ==
  /\ phase = "open" /\ n \in fed
  /\ Receive({n}) /\ databuf' = Filled({n}) /\ sent' = sent \ {n}
  /\ UNCHANGED <<phase, seen, next, wires, late>>

\* NODECONNECT and NODEDISCONNECT of a sensor to n.
ConnectSensor(n) ==
  /\ phase = "open" /\ n \in alive \ fed
  /\ Rewire(out, fed \cup {n})
  /\ UNCHANGED <<phase, event, alive, databuf, history>>

DisconnectSensor(n) ==
  /\ phase = "open" /\ n \in fed
  /\ Rewire(out, fed \ {n})
  /\ UNCHANGED <<phase, event, alive, databuf, history>>

\* NODECONNECT and NODEDISCONNECT of wavebuf n to p.
Connect(n, p) ==
  /\ phase = "open" /\ n \in alive /\ p \in (alive \cup {Other}) \ out[n]
  /\ Rewire([out EXCEPT ![n] = @ \cup {p}], fed)
  /\ UNCHANGED <<phase, event, alive, databuf, history>>

Disconnect(n, p) ==
  /\ phase = "open" /\ p \in out[n]
  /\ Rewire([out EXCEPT ![n] = @ \ {p}], fed)
  /\ UNCHANGED <<phase, event, alive, databuf, history>>

\* NODERM of wavebuf n: its connections and subscriptions go, and dtor frees
\* what it has buffered.
NodeRm(n) ==
  /\ phase = "open" /\ n \in alive
  /\ alive' = alive \ {n}
  /\ Rewire([m \in Node |-> IF m = n THEN {} ELSE out[m] \ {n}], fed \ {n})
  /\ ev_nodes' = Without(ev_nodes, n)
  /\ wf_refs' = wf_refs - (Len(ev_nodes) - Len(ev_nodes'))
  /\ databuf' = [databuf EXCEPT ![n] = 0] /\ late' = [late EXCEPT ![n] = FALSE]
  /\ sent' = sent \ {n}
  /\ UNCHANGED <<phase, seen, next>>
-----------------------------------------------------------------------------
(* dmm_wave_finish.                                                        *)

\* Nobody has subscribed to the end of this wave.
FinishNone ==
  /\ phase = "open" /\ wf_refs = 0 /\ phase' = "idle"
  /\ UNCHANGED <<event, wires, databuf, history>>

\* The event is held and WAVEFINISH is sent to its first subscriber.
Finish ==
  /\ phase = "open" /\ wf_refs # 0 /\ phase' = "finishing"
  /\ wf_refs' = wf_refs + 1 /\ seen' = 0 /\ next' = 1
  /\ UNCHANGED <<ev_nodes, wires, databuf, history>>

\* A variant whose loop forgets to stop at the end of the list.
AfterAny(i) == i + 1

\* The cell after i, as dmm_event_sendsubscribed saves it before the handler.
After(i) == IF i < Len(ev_nodes) THEN i + 1 ELSE 0

\* WAVEFINISH to the next subscriber: wavebuf empties its buffer and sends
\* all of it as one block if pvt->hook is not NULL; otherwise the data is lost.
Flush ==
  /\ phase = "finishing" /\ next # 0
  /\ LET n == ev_nodes[next]
         receivers == IF hook[n] THEN out[n] \cap Node ELSE {}
     IN  /\ Receive(receivers)
         /\ databuf' = [Filled(receivers) EXCEPT ![n] = 0]
         /\ late' = [m \in Node |-> IF m = n THEN FALSE
                                    ELSE \/ late[m]
                                         \/ m \in receivers /\ databuf[m] = 0 /\ After(next) = 0]
         /\ sent' = (sent \ (receivers \cup {n})) \cup (IF hook[n] THEN {n} ELSE {})
  /\ seen' = next /\ next' = After(next)
  /\ UNCHANGED <<phase, wires>>

\* All is unsubscribed, and the event removed.
FinishEnd ==
  /\ phase = "finishing" /\ next = 0 /\ phase' = "idle"
  /\ wf_refs' = 0 /\ ev_nodes' = <<>> /\ seen' = 0
  /\ UNCHANGED <<next, wires, databuf, history>>
-----------------------------------------------------------------------------
Init ==
  /\ phase = "idle" /\ wf_refs = 0 /\ ev_nodes = <<>> /\ seen = 0 /\ next = 0
  /\ alive = Node /\ fed = {} /\ out = [n \in Node |-> {}]
  /\ hook = [n \in Node |-> FALSE]
  /\ databuf = [n \in Node |-> 0] /\ late = [n \in Node |-> FALSE]
  /\ sent = {}

Handlers ==
  \/ \E n \in Node : Data(n) \/ ConnectSensor(n) \/ DisconnectSensor(n) \/ NodeRm(n)
  \/ \E wire \in Wiring : Connect(wire[1], wire[2]) \/ Disconnect(wire[1], wire[2])

Finishing == FinishNone \/ Finish \/ Flush \/ FinishEnd

Next == WaveStart \/ Handlers \/ Finishing

\* A wave that has begun comes to its end: the main loop calls
\* dmm_wave_finish when the handlers have returned.
Spec == Init /\ [][Next]_vars /\ WF_vars(Finishing)
-----------------------------------------------------------------------------
\* The event is referenced by its subscribers and, while it is sent, by
\* dmm_wave_finish: the last reference is released when the wave ends.
WaveRefsExact == wf_refs = Len(ev_nodes) + (IF phase = "finishing" THEN 1 ELSE 0)

\* pvt->hook is only used after a check for NULL: it must not outlive the hook.
HookPointerSafe == \A n \in Node : hook[n] => HasOutHook(n, out)

\* "It is error to call dmm_event_subscribe if node is already subscribed":
\* wavebuf relies on its buffer for that.  A wavebuf is subscribed once if it
\* has data and not at all if it has none; only data that a wavebuf gets from
\* the last subscriber of a wave is without a subscription in later waves.
SubscribedOnce ==
  phase # "finishing" => \A n \in Node :
    Cardinality({i \in DOMAIN ev_nodes : ev_nodes[i] = n})
      = IF databuf[n] > 0 /\ ~late[n] THEN 1 ELSE 0

\* Wavebufs and the event they wait for agree, in number and by name.
SubscriptionsExact == WaveRefsExact /\ SubscribedOnce

\* What a wavebuf has got is sent on.  It is lost only if the node is removed,
\* or if the pointer is NULL when the buffer is emptied: the out hook is gone,
\* or the in hook went (rmhook forgets the out hook then, though it is still
\* connected).  What came from the last subscriber of a wave may stay for ever.
SentOn(n) == databuf[n] = 0 /\ n \in sent
Lost(n) == databuf[n] = 0 /\ (n \notin alive \/ ~hook[n])
DataSentOn == \A n \in Node : databuf[n] > 0 ~> SentOn(n) \/ Lost(n) \/ late[n]

\* dmm_event.c: "Send a copy of message msg to all nodes subscribed to event".
\* The code drops a node that subscribes while the last one is being told.
AllTold == phase = "finishing" /\ next = 0 => seen = Len(ev_nodes)
=============================================================================
