------------------------------ MODULE DmmGraph ------------------------------
(***************************************************************************)
(* Nodes, hooks and connections of DiMMon (dmm_base.c), with the reference *)
(* counts that keep them in memory and the call stack that uses them.      *)
(*                                                                         *)
(* DiMMon runs in one thread, but every message and every data block is    *)
(* delivered by a direct call, so the handler of a node runs in the middle *)
(* of the operation that called it and may create, connect, disconnect or  *)
(* remove anything, its caller included.  The model keeps the C call stack *)
(* as a sequence of frames, each holding the one reference that the C      *)
(* function acquired on entry:                                             *)
(*   "run"   the rcvmsg handler of a node           (a reference to node)  *)
(*   "hold"  dmm_msg_apply of a command, while the response it sent is     *)
(*           being handled                          (a reference to node)  *)
(*   "send"  dmm_data_send on an out hook           (a reference to hook)  *)
(*   "rcv"   the rcvdata handler of an in hook      (a reference to hook)  *)
(* A command (NODECREATE, NODERM, ...) is one step: nothing the modules do *)
(* in newhook, rmhook, ctor or dtor calls back into the graph.             *)
(***************************************************************************)
EXTENDS Naturals, Sequences, FiniteSets

CONSTANTS
  Node,      \* node identifiers, never reused: nd_id = ++lastnodeid
  Hook,      \* memory blocks for hooks, reused after dmm_hook_free
  Name,      \* hook names
  Sink,      \* the nodes whose type has rcvmsg and rcvdata handlers
  MaxDepth,  \* bound on the call stack
  CutActive, \* may a handler cut the connection it is being called through?
  NoNode, NoHook, NoKey

ASSUME GraphAssumption ==
  /\ IsFiniteSet(Node) /\ IsFiniteSet(Hook)
  /\ Sink \subseteq Node
  /\ MaxDepth \in Nat
  /\ CutActive \in BOOLEAN
  /\ NoNode \notin Node /\ NoHook \notin Hook
  /\ NoKey \notin [node : Node, dir : {"in", "out"}, name : Name]

VARIABLES
  nd_state,  \* "unborn", "valid", "invalid" (still in nodelist), "freed"
  nd_refs,   \* reference count of each node
  hk_state,  \* "free" (not allocated), "valid", "invalid"
  hk_key,    \* owner, direction and name of an allocated hook
  hk_refs,   \* reference count of each hook
  hk_peers,  \* list of peers; its order decides nothing modelled here
  stack      \* the C call stack, the running function last

vars == <<nd_state, nd_refs, hk_state, hk_key, hk_refs, hk_peers, stack>>

Key == [node : Node, dir : {"in", "out"}, name : Name]

Frame == [kind : {"run", "hold", "send", "rcv"}, node : Node \cup {NoNode},
          hook : Hook \cup {NoHook}, cur : Hook \cup {NoHook}, todo : SUBSET Hook]

TypeOK ==
  /\ nd_state \in [Node -> {"unborn", "valid", "invalid", "freed"}]
  /\ nd_refs \in [Node -> Nat]
  /\ hk_state \in [Hook -> {"free", "valid", "invalid"}]
  /\ hk_key \in [Hook -> Key \cup {NoKey}]
  /\ hk_refs \in [Hook -> Nat]
  /\ hk_peers \in [Hook -> SUBSET Hook]
  /\ stack \in Seq(Frame)
-----------------------------------------------------------------------------
(* The call stack.                                                         *)

RunFrame(n)  == [kind |-> "run",  node |-> n, hook |-> NoHook, cur |-> NoHook, todo |-> {}]
HoldFrame(n) == [kind |-> "hold", node |-> n, hook |-> NoHook, cur |-> NoHook, todo |-> {}]
RcvFrame(h)  == [kind |-> "rcv",  node |-> NoNode, hook |-> h, cur |-> NoHook, todo |-> {}]
SendFrame(h) == [kind |-> "send", node |-> NoNode, hook |-> h, cur |-> NoHook,
                 todo |-> hk_peers[h]]

Depth == Len(stack)
Top   == stack[Depth]
Below == SubSeq(stack, 1, Depth - 1)
Room(k) == Depth + k <= MaxDepth

Allocated(h) == hk_state[h] # "free"
InNodelist(n) == nd_state[n] \in {"valid", "invalid"}
HooksOf(n) == {h \in Hook : Allocated(h) /\ hk_key[h].node = n}

\* Module code runs only in a handler: on top of the stack, for this node.
Handler(n) ==
  /\ stack # <<>>
  /\ \/ Top.kind = "run" /\ Top.node = n
     \/ Top.kind = "rcv" /\ hk_key[Top.hook].node = n

\* The loop of dmm_data_send at its next list cell.
Advanced(f, p) == [f EXCEPT !.cur = p, !.todo = @ \ {p}]

\* dmm_data_send is at this list cell: it will read the cell's link next.
CellBusy(h, p) ==
  \E i \in 1..Depth : stack[i].kind = "send" /\ stack[i].hook = h /\ stack[i].cur = p

\* A removed list cell leaves the part of the list a cursor has yet to visit.
Unlinked(frames, cells) ==
  [i \in DOMAIN frames |->
     [frames[i] EXCEPT !.todo = {p \in @ : <<frames[i].hook, p>> \notin cells}]]
-----------------------------------------------------------------------------
(* Releasing references: dmm_hook_unref and dmm_node_unref.                *)

\* The allocated hooks that the counts hr leave without a reference.
Dead(hr) == {h \in Hook : Allocated(h) /\ hr[h] = 0}

\* Hooks with no reference left are freed, each giving up its reference to
\* its node; nodes with no reference left are freed after them.
\* ns and hs are the node and hook flags the operation has set.
Release(hr, nr, ns, hs) ==
  LET dead  == Dead(hr)
      nrefs == [n \in Node |-> nr[n] - Cardinality(dead \cap HooksOf(n))]
  IN  /\ hk_refs'  = hr
      /\ hk_state' = [h \in Hook |-> IF h \in dead THEN "free" ELSE hs[h]]
      /\ hk_key'   = [h \in Hook |-> IF h \in dead THEN NoKey ELSE hk_key[h]]
      /\ nd_refs'  = nrefs
      /\ nd_state' = [n \in Node |-> IF InNodelist(n) /\ nrefs[n] = 0
                                     THEN "freed" ELSE ns[n]]

\* Two variants: dmm_hook_rmpeer that keeps, or gives up twice, what the cell
\* held.
RefsKept(cells) == hk_refs
RefsTwice(cells) ==
  [h \in Hook |-> hk_refs[h] - 2 * Cardinality({a \in Hook : <<a, h>> \in cells})]

\* hk_refs when these list cells <<hook, peer>> are removed: each held a
\* reference to its peer (dmm_hook_rmpeer).
RefsWithout(cells) ==
  [h \in Hook |-> hk_refs[h] - Cardinality({a \in Hook : <<a, h>> \in cells})]

\* A variant that empties the lists the cells are in.
PeersEmptied(cells) ==
  [a \in Hook |-> IF \E p \in Hook : <<a, p>> \in cells THEN {} ELSE hk_peers[a]]

PeersWithout(cells) ==
  [a \in Hook |-> {p \in hk_peers[a] : <<a, p>> \notin cells}]
-----------------------------------------------------------------------------
(* Calls and returns.                                                      *)

\* A message for the rcvmsg handler of node n (dmm_msg_apply): an event, from
\* the main loop, or a message of a module's own (one that sets a node up, and
\* what comes back), sent by a handler in the midst of its work.
Wake(n) ==
  /\ stack = <<>> \/ \E a \in Node : Handler(a)
  /\ Room(1) /\ nd_state[n] = "valid" /\ n \in Sink
  /\ stack' = Append(stack, RunFrame(n))
  /\ nd_refs' = [nd_refs EXCEPT ![n] = @ + 1]
  /\ UNCHANGED <<nd_state, hk_state, hk_key, hk_refs, hk_peers>>

\* A handler calls dmm_data_send on one of its out hooks.
DataSend(n, h) ==
  /\ Handler(n) /\ Room(2)   \* room for the receiver's frame too
  /\ h \in HooksOf(n) /\ hk_key[h].dir = "out" /\ hk_state[h] = "valid"
  /\ stack' = Append(stack, SendFrame(h))
  /\ hk_refs' = [hk_refs EXCEPT ![h] = @ + 1]
  /\ UNCHANGED <<nd_state, nd_refs, hk_state, hk_key, hk_peers>>

\* The loop of dmm_data_send moves to the next peer; dmm_data_passtohook
\* calls its rcvdata handler, if the hook is valid and there is a handler.
Deliver(p) ==
  /\ stack # <<>> /\ Top.kind = "send" /\ p \in Top.todo /\ Room(1)
  /\ LET moved == [stack EXCEPT ![Depth] = Advanced(Top, p)]
     IN  IF hk_state[p] = "valid" /\ hk_key[p].node \in Sink
         THEN /\ stack' = Append(moved, RcvFrame(p))
              /\ hk_refs' = [hk_refs EXCEPT ![p] = @ + 1]
         ELSE stack' = moved /\ UNCHANGED hk_refs
  /\ UNCHANGED <<nd_state, nd_refs, hk_state, hk_key, hk_peers>>

\* dmm_data_send or a rcvdata handler returns: DMM_HOOK_UNREF.
ReturnHook ==
  /\ stack # <<>> /\ Top.kind \in {"send", "rcv"} /\ Top.todo = {}
  /\ Release([hk_refs EXCEPT ![Top.hook] = @ - 1], nd_refs, nd_state, hk_state)
  /\ stack' = Below
  /\ UNCHANGED hk_peers

\* dmm_msg_apply returns: DMM_NODE_UNREF.
ReturnNode ==
  /\ stack # <<>> /\ Top.kind \in {"run", "hold"}
  /\ Release(hk_refs, [nd_refs EXCEPT ![Top.node] = @ - 1], nd_state, hk_state)
  /\ stack' = Below
  /\ UNCHANGED hk_peers
-----------------------------------------------------------------------------
(* Commands.  The handler of node a sends a command to node t; the command *)
(* is processed at once and its response sent back.  A requester that is   *)
(* still valid runs its rcvmsg handler again, for the response, while t is *)
(* held by dmm_msg_apply; otherwise the response is dropped, t released.   *)

Answered(a, ns) == ns[a] = "valid"

\* References taken by the two frames a response pushes.
Held(a, t) == [n \in Node |-> (IF n = a THEN 1 ELSE 0) + (IF n = t THEN 1 ELSE 0)]

\* Two variants: dmm_msg_apply that releases t before the response is handled,
\* and a response delivered without any reference.
NodeRefsEarly(a, t, ns, nr) ==
  IF Answered(a, ns) THEN [nr EXCEPT ![a] = @ + 1] ELSE nr
NodeRefsNone(a, t, ns, nr) == nr

\* nd_refs and the stack after the response: ns and nr are the states and
\* reference counts the command leaves.
NodeRefsAfter(a, t, ns, nr) ==
  IF Answered(a, ns) THEN [n \in Node |-> nr[n] + Held(a, t)[n]] ELSE nr

StackAfter(a, t, ns, frames) ==
  IF Answered(a, ns) THEN Append(Append(frames, HoldFrame(t)), RunFrame(a))
                     ELSE frames

Command(a, t, ns) == Handler(a) /\ nd_state[t] = "valid" /\ (Answered(a, ns) => Room(2))

\* A command that fails, or that is about no node or hook: only its response.
Refused(a, t) ==
  /\ Command(a, t, nd_state) /\ Answered(a, nd_state)
  /\ nd_refs' = NodeRefsAfter(a, t, nd_state, nd_refs)
  /\ stack' = StackAfter(a, t, nd_state, stack)
  /\ UNCHANGED <<nd_state, hk_state, hk_key, hk_refs, hk_peers>>

\* DMM_MSG_NODECREATE, processed by any valid node t.
NodeCreate(a, t, new) ==
  /\ Command(a, t, nd_state) /\ nd_state[new] = "unborn"
  /\ nd_state' = [nd_state EXCEPT ![new] = "valid"]
  /\ nd_refs' = NodeRefsAfter(a, t, nd_state, [nd_refs EXCEPT ![new] = 1])
  /\ stack' = StackAfter(a, t, nd_state, stack)
  /\ UNCHANGED <<hk_state, hk_key, hk_refs, hk_peers>>

\* dmm_hook_find: the valid hook of node n with this direction and name.
Found(n, dir, name) ==
  {h \in Hook : hk_state[h] = "valid" /\ hk_key[h] = [node |-> n, dir |-> dir, name |-> name]}

\* A variant of dmm_hook_get that never looks for an existing hook.
GetsNew(h, n, dir, name) == nd_state[n] = "valid" /\ ~Allocated(h)

\* dmm_hook_get: the hook found or, on a valid node, a newly allocated one.
Gets(h, n, dir, name) ==
  \/ h \in Found(n, dir, name)
  \/ /\ Found(n, dir, name) = {}
     /\ nd_state[n] = "valid" /\ ~Allocated(h)

\* DMM_MSG_NODECONNECT to node t: connect its out hook s to the in hook d of
\* dst, creating hooks that do not exist.  An already existing connection
\* (EEXIST), an invalid dst or a rejected hook leave everything as it was.
NodeConnect(a, t, dst, srchook, dsthook, s, d) ==
  LET fresh  == {h \in {s, d} : ~Allocated(h)}
      key(h) == IF h = s THEN [node |-> t, dir |-> "out", name |-> srchook]
                         ELSE [node |-> dst, dir |-> "in", name |-> dsthook]
  IN
  /\ Command(a, t, nd_state) /\ InNodelist(dst)
  /\ s # d /\ Gets(s, t, "out", srchook) /\ Gets(d, dst, "in", dsthook)
  /\ d \notin hk_peers[s]
  /\ hk_state' = [h \in Hook |-> IF h \in fresh THEN "valid" ELSE hk_state[h]]
  /\ hk_key'   = [h \in Hook |-> IF h \in fresh THEN key(h) ELSE hk_key[h]]
  /\ hk_peers' = [hk_peers EXCEPT ![s] = @ \cup {d}, ![d] = @ \cup {s}]
  /\ hk_refs'  = [hk_refs EXCEPT ![s] = @ + 1, ![d] = @ + 1]
  /\ nd_refs' = NodeRefsAfter(a, t, nd_state,
        [n \in Node |-> nd_refs[n] + Cardinality({h \in fresh : key(h).node = n})])
  /\ stack' = StackAfter(a, t, nd_state, stack)
  /\ UNCHANGED nd_state

\* The list cells that a command removes while data is delivered through
\* them; the modules of DiMMon never do (the assumption CutActive names).
MayRemove(cells) == CutActive \/ \A c \in cells : ~CellBusy(c[1], c[2])

\* DMM_MSG_NODEDISCONNECT to node t.  Both hooks must exist; hooks left
\* without peers lose their last reference, unless a frame holds them.
NodeDisconnect(a, t, dst, srchook, dsthook, s, d) ==
  LET cells == {<<s, d>>, <<d, s>>}
  IN
  /\ Command(a, t, nd_state) /\ nd_state[dst] = "valid"
  /\ s \in Found(t, "out", srchook) /\ d \in Found(dst, "in", dsthook)
  /\ d \in hk_peers[s] /\ MayRemove(cells)
  /\ Release(RefsWithout(cells), NodeRefsAfter(a, t, nd_state, nd_refs), nd_state, hk_state)
  /\ hk_peers' = PeersWithout(cells)
  /\ stack' = StackAfter(a, t, nd_state, Unlinked(stack, cells))

\* A variant of dmm_hook_rm that leaves the lists of the peers alone.
CellsOfOwn(own) == {c \in Hook \X Hook : c[2] \in hk_peers[c[1]] /\ c[1] \in own}

\* dmm_hook_rm of these hooks: their peers leave their lists, and they
\* leave the lists of those peers.
CellsOf(own) ==
  {c \in Hook \X Hook : /\ c[2] \in hk_peers[c[1]]
                        /\ c[1] \in own \/ (c[2] \in own /\ c[1] \in hk_peers[c[2]])}

\* DMM_MSG_NODERM to node t (dmm_node_rm, dmm_hook_rm): the node and its
\* hooks become invalid, every connection of theirs is removed from both
\* peers, and the reference of the node list is given up.
NodeRemove(a, t) ==
  LET own   == HooksOf(t)
      cells == CellsOf(own)
      ns    == [nd_state EXCEPT ![t] = "invalid"]
      hs    == [h \in Hook |-> IF h \in own THEN "invalid" ELSE hk_state[h]]
      nr    == NodeRefsAfter(a, t, ns, [nd_refs EXCEPT ![t] = @ - 1])
  IN
  /\ Command(a, t, ns) /\ MayRemove(cells)
  /\ Release(RefsWithout(cells), nr, ns, hs)
  /\ hk_peers' = PeersWithout(cells)
  /\ stack' = StackAfter(a, t, ns, Unlinked(stack, cells))
-----------------------------------------------------------------------------
\* dmm_startup creates one node and wakes it with DMM_MSG_STARTUP.
Init ==
  /\ \E n \in Sink :
       /\ nd_state = [m \in Node |-> IF m = n THEN "valid" ELSE "unborn"]
       /\ nd_refs = [m \in Node |-> IF m = n THEN 1 ELSE 0]
  /\ hk_state = [h \in Hook |-> "free"]
  /\ hk_key = [h \in Hook |-> NoKey]
  /\ hk_refs = [h \in Hook |-> 0]
  /\ hk_peers = [h \in Hook |-> {}]
  /\ stack = <<>>

Call == \/ \E n \in Node : Wake(n)
        \/ \E n \in Node, h \in Hook : DataSend(n, h)
        \/ \E p \in Hook : Deliver(p)

Commands ==
  \E a, t \in Node :
    \/ NodeRemove(a, t)
    \/ Refused(a, t)
    \/ \E new \in Node : NodeCreate(a, t, new)
    \/ \E dst \in Node, srchook, dsthook \in Name, s, d \in Hook :
         \/ NodeConnect(a, t, dst, srchook, dsthook, s, d)
         \/ NodeDisconnect(a, t, dst, srchook, dsthook, s, d)

Next == Call \/ ReturnHook \/ ReturnNode \/ Commands

Spec == Init /\ [][Next]_vars
-----------------------------------------------------------------------------
(* What the reference counts and the lists are for.                        *)

Holders(peers, h) == {a \in Hook : h \in peers[a]}
HookUses(st, h) == Cardinality({i \in 1..Len(st) : st[i].hook = h})
NodeUses(st, n) == Cardinality({i \in 1..Len(st) : st[i].node = n})

\* A hook is referenced by exactly the peer lists it is in and the calls
\* that use it (dmm_hook_addpeer/rmpeer, dmm_data_send, dmm_data_passtohook).
HookRefsExact ==
  \A h \in Hook : hk_refs[h] = Cardinality(Holders(hk_peers, h)) + HookUses(stack, h)

\* A node is referenced by the node list until NODERM, by each of its hooks
\* and by each message it is processing (dmm_node_create, dmm_hook_create,
\* dmm_msg_apply).
NodeRefsExact ==
  \A n \in Node :
    nd_refs[n] = (IF nd_state[n] = "valid" THEN 1 ELSE 0)
                 + Cardinality(HooksOf(n)) + NodeUses(stack, n)

\* Nothing the program can follow leads to freed memory: peer lists, the
\* owners of hooks, and the pointers of every C function still running.
NoDangling ==
  /\ \A h \in Hook : Allocated(h) => hk_key[h] # NoKey /\ InNodelist(hk_key[h].node)
  /\ \A h, p \in Hook : p \in hk_peers[h] => Allocated(h) /\ Allocated(p)
  /\ \A i \in 1..Depth :
       IF stack[i].kind \in {"run", "hold"} THEN InNodelist(stack[i].node)
                                            ELSE Allocated(stack[i].hook)

\* A connection is known to both ends, runs from an out hook to an in hook,
\* and joins valid hooks of valid nodes: dmm_node_connect "works only for
\* valid nodes" and dmm_node_rm leaves no half of a connection behind.
ConnectionsSound ==
  \A h \in Hook : \A p \in hk_peers[h] :
    /\ h \in hk_peers[p]
    /\ hk_key[h].dir # hk_key[p].dir
    /\ hk_state[h] = "valid" /\ nd_state[hk_key[h].node] = "valid"

\* dmm_hook_create: "Assume that hook name is unique for the given node".
HookNamesUnique ==
  \A h, g \in Hook : Allocated(h) /\ Allocated(g) /\ hk_key[h] = hk_key[g] => h = g

\* Between waves nothing is left over: every hook is connected ("hook always
\* must be connected") and every removed node has been freed.
NoLeakWhenIdle ==
  stack = <<>> => /\ \A h \in Hook : Allocated(h) => hk_peers[h] # {}
                  /\ \A n \in Node : nd_state[n] # "invalid"

\* What the C functions rely on beside these: a hook is valid exactly as long
\* as its node is, only valid hooks have peers, memory is allocated exactly
\* as long as it is referenced, and each frame holds what its function took.
FrameSound(f) ==
  IF f.kind \in {"run", "hold"} THEN f.node \in Node /\ f.hook = NoHook /\ f.todo = {}
                                ELSE f.hook \in Hook /\ f.node = NoNode

MemorySound ==
  /\ \A h \in Hook : IF Allocated(h)
       THEN hk_key[h] \in Key /\ hk_refs[h] # 0 /\ nd_state[hk_key[h].node] = hk_state[h]
       ELSE hk_refs[h] = 0
  /\ \A n \in Node : InNodelist(n) <=> nd_refs[n] # 0
  /\ \A i \in 1..Depth : FrameSound(stack[i])

\* The inductive invariant.
GraphInv == TypeOK /\ HookRefsExact /\ NodeRefsExact /\ ConnectionsSound /\ MemorySound
-----------------------------------------------------------------------------
(* The promise DmmTopology makes, kept by hooks and reference counts.      *)

Cells == {c \in Hook \X Hook : c[2] \in hk_peers[c[1]] /\ hk_key[c[1]].dir = "out"}
LinkOf(h, p) == <<hk_key[h].node, hk_key[h].name, hk_key[p].node, hk_key[p].name>>
Links == {LinkOf(c[1], c[2]) : c \in Cells}

Topology == INSTANCE DmmTopology
  WITH live <- {n \in Node : nd_state[n] = "valid"},
       used <- {n \in Node : nd_state[n] # "unborn"},
       links <- Links

\* Each step of the code is one step of the promised graph or none: names,
\* not hook blocks, identify connections, and no command does half its work.
ImplementsTopology == Topology!Spec
=============================================================================
