---------------------------- MODULE DmmWaveProofs ----------------------------
(***************************************************************************)
(* Waves and wavebufs, for any number of wavebufs, any wiring and buffers  *)
(* of any size: the finish event is referenced by its subscribers, who are *)
(* the wavebufs that have data, each once, and the hook pointers are good. *)
(***************************************************************************)
EXTENDS DmmWave, FiniteSetTheorems, SequenceTheorems, TLAPS

\* No cell of the list stands for the same thing as another.
NoTwice(s) == \A i, j \in DOMAIN s : s[i] = s[j] => i = j

\* Those that got their data before the last subscriber of the wave was told.
Waiting == {n \in Node : databuf[n] > 0 /\ ~late[n]}

\* As long as handlers run, exactly these are subscribed, each once.
Listed == NoTwice(ev_nodes) /\ Members(ev_nodes) = Waiting

\* While the wave finishes, they are still to be told.
StillToTell ==
  \A n \in Waiting : next # 0 /\ \E i \in next..Len(ev_nodes) : ev_nodes[i] = n

\* Inductive: SubscriptionsExact needs to know who is in the list, and, when
\* the list is thrown away at the end of a wave, that none of them was missed.
WaveInv ==
  /\ TypeOK /\ WaveRefsExact /\ HookPointerSafe
  /\ \A n \in Node : late[n] => databuf[n] > 0
  /\ phase # "finishing" => seen = 0 /\ next = 0 /\ Listed
  /\ phase = "finishing" => StillToTell
-----------------------------------------------------------------------------
(* Steps of wavebuf.                                                       *)

\* The new subscribers are as many as there are first blocks, each once.
LEMMA OrdersAre ==
  ASSUME NEW S, IsFiniteSet(S), NEW order \in Orders(S)
  PROVE  /\ order \in Seq(S) /\ Len(order) = Cardinality(S) /\ Cardinality(S) \in Nat
         /\ Members(order) = S /\ NoTwice(order)
<1> DEFINE m == Cardinality(S)
<1>1. /\ m \in Nat /\ order \in [1..m -> S] /\ Members(order) = S
  BY FS_CardinalityType DEF Orders
<1>2. m = Cardinality(S)
  OBVIOUS
<1> HIDE DEF m
<1>3. /\ IsFiniteSet(1..m) /\ Cardinality(1..m) = m
  BY <1>1, FS_Interval
<1>4. order \in Surjection(1..m, S)
  BY <1>1 DEF Members, Surjection
<1>5. order \in Injection(1..m, S)
  BY <1>2, <1>3, <1>4, FS_Surjection
<1>6. NoTwice(order)
  BY <1>1, <1>5 DEF Injection, IsInjective, NoTwice
<1>7. order \in Seq(S) /\ Len(order) = m
  BY <1>1
<1> QED
  BY <1>1, <1>2, <1>6, <1>7

\* The list with the new subscribers behind the old ones.
LEMMA ReceiveIs ==
  ASSUME NEW S, S \subseteq Node, Receive(S), ev_nodes \in Seq(Node)
  PROVE  LET firsts == {n \in S : First(n)}
         IN  /\ ev_nodes' \in Seq(Node)
             /\ Len(ev_nodes') = Len(ev_nodes) + Cardinality(firsts)
             /\ Cardinality(firsts) \in Nat
             /\ wf_refs' = wf_refs + Cardinality(firsts)
             /\ \A i \in 1..Len(ev_nodes) : ev_nodes'[i] = ev_nodes[i]
             /\ Members(ev_nodes') = Members(ev_nodes) \cup firsts
             /\ \A n \in firsts : \E i \in Len(ev_nodes) + 1..Len(ev_nodes') : ev_nodes'[i] = n
             /\ NoTwice(ev_nodes) /\ firsts \cap Members(ev_nodes) = {} => NoTwice(ev_nodes')
<1> DEFINE firsts == {n \in S : First(n)}
<1>1. IsFiniteSet(firsts) /\ firsts \subseteq Node
  BY WaveAssumption, FS_Subset
<1>2. PICK order \in Orders(firsts) : ev_nodes' = ev_nodes \o order
  BY DEF Receive
<1>3. wf_refs' = wf_refs + Cardinality(firsts)
  BY DEF Receive, RefsWith
<1> HIDE DEF firsts
<1>4. /\ order \in Seq(firsts) /\ Len(order) = Cardinality(firsts)
      /\ Cardinality(firsts) \in Nat /\ Members(order) = firsts /\ NoTwice(order)
  BY <1>1, <1>2, OrdersAre
<1>5. order \in Seq(Node) /\ Len(order) \in Nat /\ Len(ev_nodes) \in Nat
  BY <1>1, <1>4
<1>6. /\ ev_nodes' \in Seq(Node)
      /\ Len(ev_nodes') = Len(ev_nodes) + Len(order)
      /\ \A i \in 1..Len(ev_nodes) : ev_nodes'[i] = ev_nodes[i]
      /\ \A i \in 1..Len(order) : ev_nodes'[Len(ev_nodes) + i] = order[i]
  BY <1>2, <1>5
<1>7. /\ DOMAIN ev_nodes = 1..Len(ev_nodes) /\ DOMAIN order = 1..Len(order)
      /\ DOMAIN ev_nodes' = 1..Len(ev_nodes')
  BY <1>5, <1>6
<1>8. \A i \in DOMAIN ev_nodes' : \/ i \in DOMAIN ev_nodes
                                  \/ \E k \in DOMAIN order : i = Len(ev_nodes) + k
  <2> SUFFICES ASSUME NEW i \in DOMAIN ev_nodes', i \notin DOMAIN ev_nodes
               PROVE  \E k \in DOMAIN order : i = Len(ev_nodes) + k
    OBVIOUS
  <2>1. i - Len(ev_nodes) \in 1..Len(order) /\ i = Len(ev_nodes) + (i - Len(ev_nodes))
    BY <1>5, <1>6, <1>7
  <2> QED
    BY <1>7, <2>1
<1>9. Members(ev_nodes') = Members(ev_nodes) \cup firsts
  <2>1. ASSUME NEW i \in DOMAIN ev_nodes' PROVE ev_nodes'[i] \in Members(ev_nodes) \cup firsts
    BY <1>4, <1>6, <1>7, <1>8 DEF Members
  <2>2. ASSUME NEW i \in DOMAIN ev_nodes PROVE ev_nodes[i] \in Members(ev_nodes')
    <3>1. i \in DOMAIN ev_nodes' /\ ev_nodes'[i] = ev_nodes[i]
      BY <1>5, <1>6, <1>7
    <3> QED
      BY <3>1 DEF Members
  <2>3. ASSUME NEW k \in DOMAIN order PROVE order[k] \in Members(ev_nodes')
    <3>1. Len(ev_nodes) + k \in DOMAIN ev_nodes' /\ ev_nodes'[Len(ev_nodes) + k] = order[k]
      BY <1>5, <1>6, <1>7
    <3> QED
      BY <3>1 DEF Members
  <2> QED
    BY <1>4, <2>1, <2>2, <2>3 DEF Members
<1>10. ASSUME NoTwice(ev_nodes), firsts \cap Members(ev_nodes) = {}
       PROVE  NoTwice(ev_nodes')
  <2> SUFFICES ASSUME NEW i \in DOMAIN ev_nodes', NEW j \in DOMAIN ev_nodes',
                      ev_nodes'[i] = ev_nodes'[j]
               PROVE  i = j
    BY DEF NoTwice
  <2>1. CASE i \in DOMAIN ev_nodes /\ j \in DOMAIN ev_nodes
    BY <1>6, <1>7, <1>10, <2>1 DEF NoTwice
  <2>2. CASE i \in DOMAIN ev_nodes /\ j \notin DOMAIN ev_nodes
    <3>1. ev_nodes'[i] \in Members(ev_nodes) /\ ev_nodes'[j] \in firsts
      BY <1>4, <1>6, <1>7, <1>8, <2>2 DEF Members
    <3> QED
      BY <1>10, <3>1
  <2>3. CASE i \notin DOMAIN ev_nodes /\ j \in DOMAIN ev_nodes
    <3>1. ev_nodes'[j] \in Members(ev_nodes) /\ ev_nodes'[i] \in firsts
      BY <1>4, <1>6, <1>7, <1>8, <2>3 DEF Members
    <3> QED
      BY <1>10, <3>1
  <2>4. CASE i \notin DOMAIN ev_nodes /\ j \notin DOMAIN ev_nodes
    <3>1. PICK k \in DOMAIN order, l \in DOMAIN order :
            i = Len(ev_nodes) + k /\ j = Len(ev_nodes) + l
      BY <1>8, <2>4
    <3>2. order[k] = order[l]
      BY <1>6, <1>7, <3>1
    <3>3. k = l
      BY <1>4, <3>2 DEF NoTwice
    <3> QED
      BY <3>1, <3>3
  <2> QED
    BY <2>1, <2>2, <2>3, <2>4
<1>11. ASSUME NEW n \in firsts
       PROVE  \E i \in Len(ev_nodes) + 1..Len(ev_nodes') : ev_nodes'[i] = n
  <2>1. PICK k \in DOMAIN order : order[k] = n
    BY <1>4 DEF Members
  <2>2. Len(ev_nodes) + k \in Len(ev_nodes) + 1..Len(ev_nodes')
    BY <1>5, <1>6, <1>7
  <2> QED
    BY <1>6, <1>7, <2>1, <2>2
<1> QED
  BY <1>3, <1>4, <1>6, <1>9, <1>10, <1>11 DEF firsts

\* Removing cells removes just them, and leaves each of the others as often as
\* it was there.
LEMMA KeptIs ==
  ASSUME NEW T, NEW s \in Seq(T), NEW gone
  PROVE  /\ Kept(s, gone) \in Seq(T)
         /\ Members(Kept(s, gone)) = Members(s) \ gone
         /\ NoTwice(s) => NoTwice(Kept(s, gone))
<1> DEFINE stay    == {i \in DOMAIN s : s[i] \notin gone}
           Upto(i) == {j \in stay : j <= i}
           Rank(i) == Cardinality(Upto(i))
           m       == Cardinality(stay)
           Nth(k)  == CHOOSE i \in stay : Rank(i) = k
<1>1. /\ Len(s) \in Nat /\ DOMAIN s = 1..Len(s) /\ \A i \in DOMAIN s : s[i] \in T
      /\ stay \subseteq 1..Len(s)
  OBVIOUS
<1>2. IsFiniteSet(1..Len(s))
  BY <1>1, FS_Interval
<1>3. IsFiniteSet(stay) /\ m \in Nat
  BY <1>1, <1>2, FS_Subset, FS_CardinalityType
<1>4. Kept(s, gone) = [k \in 1..m |-> s[Nth(k)]]
  BY DEF Kept
<1>5. \A i \in stay : s[i] \notin gone /\ i \in 1..Len(s)
  BY <1>1
<1>6. \A i \in 1..Len(s) : s[i] \notin gone => i \in stay
  BY <1>1
<1>a. m = Cardinality(stay) /\ \A i : Rank(i) = Cardinality(Upto(i))
  OBVIOUS
<1> HIDE DEF stay, m
<1>b. /\ \A i \in stay : Upto(i) \in SUBSET stay /\ i \in Upto(i)
      /\ \A i, j \in stay : i < j => /\ Upto(i) \in SUBSET Upto(j)
                                     /\ j \in Upto(j) /\ j \notin Upto(i)
  BY <1>5
<1> HIDE DEF Upto, Rank
<1>7. ASSUME NEW i \in stay
      PROVE  /\ IsFiniteSet(Upto(i)) /\ i \in Upto(i) /\ Rank(i) \in 1..m
  <2>1. /\ IsFiniteSet(Upto(i)) /\ Cardinality(Upto(i)) <= Cardinality(stay)
        /\ Cardinality(Upto(i)) \in Nat
    BY <1>3, <1>b, FS_Subset, FS_CardinalityType
  <2>2. Cardinality(Upto(i)) # 0
    BY <1>b, <2>1, FS_EmptySet
  <2>3. QED
    BY <1>3, <1>a, <1>b, <2>1, <2>2
<1>8. ASSUME NEW i \in stay, NEW j \in stay, i < j
      PROVE  Rank(i) < Rank(j)
  <2>1. /\ IsFiniteSet(Upto(j)) /\ Upto(i) \in SUBSET Upto(j) /\ Upto(i) # Upto(j)
        /\ Rank(i) \in Int /\ Rank(j) \in Int
    BY <1>7, <1>8, <1>b
  <2>2. Cardinality(Upto(i)) <= Cardinality(Upto(j)) /\ Cardinality(Upto(i)) # Cardinality(Upto(j))
    BY <2>1, FS_Subset
  <2>3. QED
    BY <1>a, <2>1, <2>2
<1>0. \A i, j \in stay : Rank(i) = Rank(j) => i = j
  <2>1. \A i \in stay : i \in Int /\ Rank(i) \in Int
    BY <1>3, <1>5, <1>7
  <2> SUFFICES ASSUME NEW i \in stay, NEW j \in stay, i # j PROVE Rank(i) # Rank(j)
    OBVIOUS
  <2>2. i < j \/ j < i
    BY <2>1
  <2>3. QED
    BY <1>8, <2>1, <2>2
<1>9. \A k \in 1..m : \E i \in stay : Rank(i) = k
  <2> DEFINE f == [i \in stay |-> Rank(i)]
  <2>1. f \in [stay -> 1..m] /\ \A i \in stay : f[i] = Rank(i)
    BY <1>7
  <2> HIDE DEF f
  <2>4. f \in Injection(stay, 1..m)
    BY <1>0, <2>1 DEF Injection, IsInjective
  <2>5. IsFiniteSet(1..m) /\ Cardinality(1..m) = m
    BY <1>3, FS_Interval
  <2>6. f \in Surjection(stay, 1..m)
    BY <1>a, <2>4, <2>5, FS_Injection
  <2>7. QED
    BY <2>1, <2>6 DEF Surjection
<1>10. \A k \in 1..m : Nth(k) \in stay /\ Rank(Nth(k)) = k
  BY <1>9
<1> HIDE DEF Nth
<1>12. Kept(s, gone) \in Seq(T) /\ DOMAIN Kept(s, gone) = 1..m
  <2>1. \A k \in 1..m : s[Nth(k)] \in T
    BY <1>1, <1>10
  <2>2. [k \in 1..m |-> s[Nth(k)]] \in [1..m -> T]
    BY <2>1
  <2>3. \A q \in [1..m -> T] : q \in Seq(T) /\ DOMAIN q = 1..m
    BY <1>3
  <2>4. QED
    BY <1>4, <2>2, <2>3
<1>13. \A k \in 1..m : Kept(s, gone)[k] = s[Nth(k)]
  BY <1>4
<1>14. Members(Kept(s, gone)) = Members(s) \ gone
  <2>1. \A k \in 1..m : Kept(s, gone)[k] \in Members(s) \ gone
    BY <1>1, <1>5, <1>10, <1>13 DEF Members
  <2>2. ASSUME NEW i \in 1..Len(s), s[i] \notin gone
        PROVE  s[i] \in Members(Kept(s, gone))
    <3>1. i \in stay /\ Rank(i) \in 1..m
      BY <1>6, <1>7, <2>2
    <3>2. Nth(Rank(i)) = i
      BY <1>0, <1>10, <3>1
    <3>3. QED
      BY <1>12, <1>13, <3>1, <3>2 DEF Members
  <2>3. QED
    BY <1>1, <1>12, <2>1, <2>2 DEF Members
<1>15. ASSUME NoTwice(s) PROVE NoTwice(Kept(s, gone))
  <2> SUFFICES ASSUME NEW k \in 1..m, NEW l \in 1..m, s[Nth(k)] = s[Nth(l)]
               PROVE  k = l
    BY <1>12, <1>13 DEF NoTwice
  <2>1. Nth(k) = Nth(l)
    BY <1>1, <1>5, <1>10, <1>15 DEF NoTwice
  <2>2. QED
    BY <1>10, <2>1
<1>16. QED
  BY <1>12, <1>14, <1>15

\* A subscriber that goes leaves the others subscribed, each once as before.
LEMMA WithoutIs ==
  ASSUME ev_nodes \in Seq(Node), NEW n
  PROVE  /\ Without(ev_nodes, n) \in Seq(Node)
         /\ Members(Without(ev_nodes, n)) = Members(ev_nodes) \ {n}
         /\ NoTwice(ev_nodes) => NoTwice(Without(ev_nodes, n))
BY KeptIs DEF Without
-----------------------------------------------------------------------------
(* The actions.                                                            *)

LEMMA WaveInvInit == Init => WaveInv
<1> SUFFICES ASSUME Init PROVE WaveInv
  OBVIOUS
<1>1. /\ ev_nodes = <<>> /\ seen = 0 /\ next = 0 /\ wf_refs = 0 /\ phase = "idle"
      /\ Len(ev_nodes) = 0 /\ ev_nodes \in Seq(Node) /\ Members(ev_nodes) = {} /\ NoTwice(ev_nodes)
  BY DEF Init, Members, NoTwice
<1>2. /\ databuf = [n \in Node |-> 0] /\ late = [n \in Node |-> FALSE]
      /\ alive = Node /\ fed = {} /\ out = [n \in Node |-> {}]
      /\ hook = [n \in Node |-> FALSE] /\ sent = {}
  BY DEF Init
<1>3. Waiting = {}
  BY <1>2 DEF Waiting
<1>4. TypeOK
  BY <1>1, <1>2, WaveAssumption DEF TypeOK
<1> QED
  BY <1>1, <1>2, <1>3, <1>4 DEF WaveInv, Listed, WaveRefsExact, HookPointerSafe

\* Connections may be made and cut at any time without harm.
LEMMA RewireInv ==
  ASSUME WaveInv, phase = "open",
         NEW o \in [Node -> SUBSET (Node \cup {Other})], NEW f, f \subseteq alive',
         alive' \subseteq alive, Rewire(o, f)
  PROVE  /\ hook' \in [Node -> BOOLEAN] /\ out' = o /\ fed' = f /\ fed' \subseteq alive'
         /\ alive' \subseteq Node /\ HookPointerSafe'
<1>1. /\ out' = o /\ fed' = f /\ hook' = [n \in Node |-> Pointer(n, o, f)]
      /\ hook \in [Node -> BOOLEAN] /\ alive \subseteq Node
  BY DEF Rewire, WaveInv, TypeOK
<1>2. \A n \in Node : Pointer(n, o, f) \in BOOLEAN /\ (Pointer(n, o, f) => HasOutHook(n, o))
  BY <1>1 DEF Pointer, HasOutHook
<1> QED
  BY <1>1, <1>2 DEF HookPointerSafe, HasOutHook

\* What such a step leaves alone.
LEMMA WiringInv ==
  ASSUME WaveInv, phase = "open", UNCHANGED <<phase, event, alive, databuf, history>>,
         NEW o \in [Node -> SUBSET (Node \cup {Other})], NEW f, f \subseteq alive, Rewire(o, f)
  PROVE  WaveInv'
<1>1. UNCHANGED <<phase, wf_refs, ev_nodes, seen, next, alive, databuf, late, sent>>
  BY DEF event, history
<1>2. /\ hook' \in [Node -> BOOLEAN] /\ out' = o /\ fed' = f /\ fed' \subseteq alive'
      /\ alive' \subseteq Node /\ HookPointerSafe'
  BY <1>1, RewireInv
<1>3. TypeOK'
  BY <1>1, <1>2 DEF WaveInv, TypeOK
<1>4. Waiting' = Waiting
  BY <1>1 DEF Waiting
<1> QED
  BY <1>1, <1>2, <1>3, <1>4 DEF WaveInv, WaveRefsExact, Listed

LEMMA DataInv ==
  ASSUME WaveInv, NEW n \in Node, Data(n)
  PROVE  WaveInv'
<1> DEFINE S == {n}
           firsts == {m \in S : First(m)}
<1>1. /\ phase = "open" /\ Receive(S) /\ databuf' = Filled(S)
      /\ UNCHANGED <<phase, seen, next, alive, fed, out, hook, late>>
  BY DEF Data, wires
<1>0. sent' \subseteq Node
  BY DEF Data, WaveInv, TypeOK
<1>2. /\ ev_nodes \in Seq(Node) /\ Len(ev_nodes) \in Nat /\ MaxBuf \in Nat \ {0}
      /\ databuf \in [Node -> 0..MaxBuf] /\ late \in [Node -> BOOLEAN] /\ wf_refs \in Nat
      /\ \A m \in Node : late[m] => databuf[m] > 0
      /\ seen = 0 /\ next = 0 /\ Listed /\ wf_refs = Len(ev_nodes)
  BY <1>1, WaveAssumption DEF WaveInv, TypeOK, WaveRefsExact
<1>3. /\ ev_nodes' \in Seq(Node)
      /\ Len(ev_nodes') = Len(ev_nodes) + Cardinality(firsts)
      /\ Cardinality(firsts) \in Nat
      /\ wf_refs' = wf_refs + Cardinality(firsts)
      /\ Members(ev_nodes') = Members(ev_nodes) \cup firsts
      /\ NoTwice(ev_nodes) /\ firsts \cap Members(ev_nodes) = {} => NoTwice(ev_nodes')
  BY <1>1, <1>2, ReceiveIs
<1>4. firsts = IF databuf[n] = 0 THEN {n} ELSE {}
  BY DEF First
<1>5. /\ databuf' \in [Node -> 0..MaxBuf]
      /\ \A m \in Node : databuf'[m] = IF m = n THEN Capped(databuf[m] + 1) ELSE databuf[m]
      /\ databuf'[n] > 0
  <2>1. Capped(databuf[n] + 1) \in 1..MaxBuf
    BY <1>2 DEF Capped
  <2> QED
    BY <1>1, <1>2, <2>1 DEF Filled
<1> HIDE DEF firsts
<1>6. Waiting' = Waiting \cup firsts /\ firsts \cap Waiting = {}
  <2>1. \A m \in Node : databuf[m] = 0 => ~late[m]
    BY <1>2
  <2>2. firsts \subseteq Node /\ \A m \in firsts : databuf[m] = 0 /\ databuf'[m] > 0
    BY <1>4, <1>5
  <2>3. \A m \in Node \ firsts : databuf'[m] > 0 <=> databuf[m] > 0
    BY <1>2, <1>4, <1>5
  <2>4. late' = late
    BY <1>1
  <2> QED
    BY <1>2, <2>1, <2>2, <2>3, <2>4 DEF Waiting
<1>7. Listed' /\ WaveRefsExact'
  BY <1>1, <1>2, <1>3, <1>6 DEF Listed, WaveRefsExact
<1>8. TypeOK'
  <2>1. wf_refs' \in Nat /\ Len(ev_nodes') \in Nat
    BY <1>2, <1>3
  <2>2. seen' \in 0..Len(ev_nodes') /\ next' \in 0..Len(ev_nodes')
    BY <1>1, <1>2, <2>1
  <2> QED
    BY <1>0, <1>1, <1>3, <1>5, <2>1, <2>2 DEF WaveInv, TypeOK
<1>9. HookPointerSafe' /\ \A m \in Node : late'[m] => databuf'[m] > 0
  BY <1>1, <1>2, <1>5 DEF WaveInv, HookPointerSafe, HasOutHook
<1> QED
  BY <1>1, <1>2, <1>7, <1>8, <1>9 DEF WaveInv

LEMMA NodeRmInv ==
  ASSUME WaveInv, NEW n \in Node, NodeRm(n)
  PROVE  WaveInv'
<1> DEFINE o == [m \in Node |-> IF m = n THEN {} ELSE out[m] \ {n}]
<1>1. /\ phase = "open" /\ alive' = alive \ {n} /\ Rewire(o, fed \ {n})
      /\ ev_nodes' = Without(ev_nodes, n)
      /\ wf_refs' = wf_refs - (Len(ev_nodes) - Len(ev_nodes'))
      /\ databuf' = [databuf EXCEPT ![n] = 0] /\ late' = [late EXCEPT ![n] = FALSE]
      /\ UNCHANGED <<phase, seen, next>>
  BY DEF NodeRm
<1>0. sent' \subseteq Node
  BY DEF NodeRm, WaveInv, TypeOK
<1>2. /\ ev_nodes \in Seq(Node) /\ Len(ev_nodes) \in Nat /\ MaxBuf \in Nat
      /\ databuf \in [Node -> 0..MaxBuf] /\ late \in [Node -> BOOLEAN]
      /\ out \in [Node -> SUBSET (Node \cup {Other})] /\ fed \subseteq alive
      /\ \A m \in Node : late[m] => databuf[m] > 0
      /\ seen = 0 /\ next = 0 /\ Listed /\ wf_refs = Len(ev_nodes)
  BY <1>1, WaveAssumption DEF WaveInv, TypeOK, WaveRefsExact
<1>3. o \in [Node -> SUBSET (Node \cup {Other})]
  BY <1>2
<1> HIDE DEF o
<1>4. /\ hook' \in [Node -> BOOLEAN] /\ out' = o /\ fed' \subseteq alive'
      /\ alive' \subseteq Node /\ HookPointerSafe'
  BY <1>1, <1>2, <1>3, RewireInv
<1>5. /\ ev_nodes' \in Seq(Node) /\ Members(ev_nodes') = Members(ev_nodes) \ {n}
      /\ NoTwice(ev_nodes')
  BY <1>1, <1>2, WithoutIs DEF Listed
<1>6. Waiting' = Waiting \ {n}
  BY <1>1, <1>2 DEF Waiting
<1>7. Listed'
  BY <1>2, <1>5, <1>6 DEF Listed
<1>8. Len(ev_nodes') \in Nat /\ wf_refs' = Len(ev_nodes')
  BY <1>1, <1>2, <1>5
<1>9. TypeOK'
  <2>1. databuf' \in [Node -> 0..MaxBuf] /\ late' \in [Node -> BOOLEAN]
    BY <1>1, <1>2
  <2>2. /\ seen' \in 0..Len(ev_nodes') /\ next' \in 0..Len(ev_nodes')
        /\ phase' \in {"idle", "open", "finishing"} /\ wf_refs' \in Nat
    BY <1>1, <1>2, <1>8
  <2> QED
    BY <1>0, <1>3, <1>4, <1>5, <2>1, <2>2 DEF TypeOK
<1>10. \A m \in Node : late'[m] => databuf'[m] > 0
  BY <1>1, <1>2
<1>11. WaveRefsExact'
  BY <1>1, <1>8 DEF WaveRefsExact
<1> QED
  BY <1>1, <1>2, <1>4, <1>7, <1>9, <1>10, <1>11 DEF WaveInv

LEMMA FinishInv ==
  ASSUME WaveInv, Finish
  PROVE  WaveInv'
<1>1. /\ phase = "open" /\ phase' = "finishing" /\ wf_refs' = wf_refs + 1
      /\ seen' = 0 /\ next' = 1 /\ wf_refs # 0
      /\ UNCHANGED <<ev_nodes, alive, fed, out, hook, databuf, late, sent>>
  BY DEF Finish, wires, history
<1>2. /\ Len(ev_nodes) \in Nat /\ wf_refs = Len(ev_nodes) /\ Listed
      /\ DOMAIN ev_nodes = 1..Len(ev_nodes)
  BY <1>1 DEF WaveInv, TypeOK, WaveRefsExact
<1>3. TypeOK' /\ WaveRefsExact'
  BY <1>1, <1>2 DEF WaveInv, TypeOK, WaveRefsExact
<1>4. Waiting' = Waiting
  BY <1>1 DEF Waiting
<1>5. StillToTell'
  BY <1>1, <1>2, <1>4 DEF StillToTell, Listed, Members
<1> QED
  BY <1>1, <1>3, <1>5 DEF WaveInv, HookPointerSafe, HasOutHook

\* The buffer that is emptied is that of the subscriber told; receivers whose
\* buffer was empty subscribe behind the others, and, if it is the last one that
\* is told, too late for this wave.
LEMMA FlushInv ==
  ASSUME WaveInv, Flush
  PROVE  WaveInv'
<1> DEFINE n == ev_nodes[next]
           S == IF hook[n] THEN out[n] \cap Node ELSE {}
           firsts == {m \in S : First(m)}
<1>1. /\ phase = "finishing" /\ next # 0 /\ Receive(S)
      /\ databuf' = [Filled(S) EXCEPT ![n] = 0]
      /\ late' = [m \in Node |-> IF m = n THEN FALSE
                                ELSE \/ late[m]
                                     \/ m \in S /\ databuf[m] = 0 /\ After(next) = 0]
      /\ seen' = next /\ next' = After(next)
      /\ UNCHANGED <<phase, alive, fed, out, hook>>
  BY DEF Flush, wires
<1>2. /\ ev_nodes \in Seq(Node) /\ Len(ev_nodes) \in Nat /\ MaxBuf \in Nat \ {0}
      /\ databuf \in [Node -> 0..MaxBuf] /\ late \in [Node -> BOOLEAN] /\ wf_refs \in Nat
      /\ \A m \in Node : late[m] => databuf[m] > 0
      /\ next \in 1..Len(ev_nodes) /\ StillToTell /\ wf_refs = Len(ev_nodes) + 1
  BY <1>1, WaveAssumption DEF WaveInv, TypeOK, WaveRefsExact
<1>3. n \in Node /\ S \subseteq Node
  BY <1>2
<1>4. n = ev_nodes[next]
  OBVIOUS
<1>0. sent' \subseteq Node
  BY <1>3, <1>4 DEF Flush, WaveInv, TypeOK
<1> HIDE DEF n, S
<1>5. /\ ev_nodes' \in Seq(Node)
      /\ Len(ev_nodes') = Len(ev_nodes) + Cardinality(firsts)
      /\ Cardinality(firsts) \in Nat
      /\ wf_refs' = wf_refs + Cardinality(firsts)
      /\ \A i \in 1..Len(ev_nodes) : ev_nodes'[i] = ev_nodes[i]
      /\ \A m \in firsts : \E i \in Len(ev_nodes) + 1..Len(ev_nodes') : ev_nodes'[i] = m
  BY <1>1, <1>2, <1>3, ReceiveIs
<1>14. \A m \in S : databuf[m] = 0 => m \in firsts
  BY DEF First
<1> HIDE DEF firsts
<1>6. Len(ev_nodes') \in Nat /\ Len(ev_nodes) <= Len(ev_nodes')
  BY <1>2, <1>5
<1>7. /\ databuf' \in [Node -> 0..MaxBuf] /\ late' \in [Node -> BOOLEAN]
      /\ \A m \in Node : databuf[m] > 0 /\ m # n => databuf'[m] > 0
      /\ \A m \in Node \ {n} : m \in S => databuf'[m] > 0
      /\ \A m \in Node \ {n} : m \notin S => databuf'[m] = databuf[m]
      /\ databuf'[n] = 0
  <2>1. \A m \in Node : Capped(databuf[m] + 1) \in 0..MaxBuf /\ Capped(databuf[m] + 1) > 0
    <3>1. \A m \in Node : databuf[m] \in 0..MaxBuf
      BY <1>2
    <3>2. \A k \in 0..MaxBuf : Capped(k + 1) \in 0..MaxBuf /\ Capped(k + 1) > 0
      BY <1>2 DEF Capped
    <3> QED
      BY <3>1, <3>2
  <2>2. /\ Filled(S) \in [Node -> 0..MaxBuf]
        /\ \A m \in Node : m \in S => Filled(S)[m] > 0
        /\ \A m \in Node : m \notin S => Filled(S)[m] = databuf[m]
    <3>1. \A m \in Node : Filled(S)[m] = IF m \in S THEN Capped(databuf[m] + 1) ELSE databuf[m]
      BY DEF Filled
    <3>2. \A m \in Node : Filled(S)[m] \in 0..MaxBuf
      BY <1>2, <2>1, <3>1
    <3>3. Filled(S) = [m \in Node |-> Filled(S)[m]]
      BY DEF Filled
    <3>4. Filled(S) \in [Node -> 0..MaxBuf]
      BY <3>2, <3>3
    <3>5. \A m \in Node : m \in S => Filled(S)[m] > 0
      BY <1>2, <2>1, <3>1
    <3> QED
      BY <3>1, <3>4, <3>5
  <2>3. late' \in [Node -> BOOLEAN]
    BY <1>1, <1>2
  <2>4. /\ databuf'[n] = 0 /\ databuf' \in [Node -> 0..MaxBuf]
        /\ \A m \in Node \ {n} : databuf'[m] = Filled(S)[m]
    BY <1>1, <1>2, <1>3, <2>2
  <2>5. \A m \in Node \ {n} : /\ m \in S => databuf'[m] > 0
                              /\ m \notin S => databuf'[m] = databuf[m]
    BY <2>2, <2>4
  <2> QED
    BY <2>3, <2>4, <2>5
<1>8. \A m \in Node : late'[m] => databuf'[m] > 0
  <2> SUFFICES ASSUME NEW m \in Node, late'[m] PROVE databuf'[m] > 0
    OBVIOUS
  <2>1. m # n /\ (late[m] \/ m \in S)
    BY <1>1
  <2> QED
    BY <1>2, <1>7, <2>1
<1>9. ASSUME NEW m \in Waiting'
      PROVE  m # n /\ (m \in Waiting \/ (m \in firsts /\ After(next) # 0))
  <2>1. m \in Node /\ databuf'[m] > 0 /\ ~late'[m]
    BY DEF Waiting
  <2>2. m # n
    BY <1>7, <2>1
  <2>3. ~late[m] /\ ~(m \in S /\ databuf[m] = 0 /\ After(next) = 0)
    BY <1>1, <2>1, <2>2
  <2>4. CASE m \in S /\ databuf[m] = 0
    BY <1>14, <2>2, <2>3, <2>4
  <2>5. CASE ~(m \in S /\ databuf[m] = 0)
    <3>1. databuf[m] > 0
      BY <1>2, <1>7, <2>1, <2>2, <2>5
    <3> QED
      BY <2>1, <2>2, <2>3, <3>1 DEF Waiting
  <2> QED
    BY <2>4, <2>5
<1>10. StillToTell'
  <2> SUFFICES ASSUME NEW m \in Waiting'
               PROVE  next' # 0 /\ \E i \in next'..Len(ev_nodes') : ev_nodes'[i] = m
    BY DEF StillToTell
  <2>1. CASE m \in Waiting
    <3>1. PICK i \in next..Len(ev_nodes) : ev_nodes[i] = m
      BY <1>2, <2>1 DEF StillToTell
    <3>2. i # next
      BY <1>4, <1>9, <3>1
    <3>3. i \in Nat /\ next < i /\ i <= Len(ev_nodes) /\ next \in Nat
      BY <1>2, <3>1, <3>2
    <3>4. next' = next + 1
      BY <1>1, <1>2, <3>3 DEF After
    <3>5. i \in next'..Len(ev_nodes') /\ i \in 1..Len(ev_nodes) /\ next' # 0
      BY <1>2, <1>6, <3>3, <3>4
    <3>6. ev_nodes'[i] = m
      BY <1>5, <3>1, <3>5
    <3> QED
      BY <3>5, <3>6
  <2>2. CASE m \in firsts /\ After(next) # 0
    <3>1. PICK i \in Len(ev_nodes) + 1..Len(ev_nodes') : ev_nodes'[i] = m
      BY <1>5, <2>2
    <3>2. next' = next + 1 /\ next + 1 <= Len(ev_nodes) /\ next' # 0
      BY <1>1, <1>2, <2>2 DEF After
    <3>3. i \in next'..Len(ev_nodes')
      BY <1>2, <1>6, <3>1, <3>2
    <3> QED
      BY <3>1, <3>2, <3>3
  <2> QED
    BY <1>9, <2>1, <2>2
<1>11. TypeOK'
  <2>1. wf_refs' \in Nat
    BY <1>2, <1>5
  <2>2. After(next) \in 0..Len(ev_nodes)
    BY <1>2 DEF After
  <2>3. 0..Len(ev_nodes) \subseteq 0..Len(ev_nodes') /\ next \in 0..Len(ev_nodes)
    BY <1>2, <1>6
  <2>4. seen' \in 0..Len(ev_nodes') /\ next' \in 0..Len(ev_nodes')
    BY <1>1, <2>2, <2>3
  <2> QED
    BY <1>0, <1>1, <1>5, <1>7, <2>1, <2>4 DEF WaveInv, TypeOK
<1>12. WaveRefsExact'
  <2>1. wf_refs' = Len(ev_nodes') + 1 /\ phase' = "finishing"
    BY <1>1, <1>2, <1>5
  <2> QED
    BY <2>1 DEF WaveRefsExact
<1>13. HookPointerSafe'
  BY <1>1 DEF WaveInv, HookPointerSafe, HasOutHook
<1> QED
  BY <1>1, <1>8, <1>10, <1>11, <1>12, <1>13 DEF WaveInv

LEMMA FinishEndInv ==
  ASSUME WaveInv, FinishEnd
  PROVE  WaveInv'
<1>1. /\ phase = "finishing" /\ next = 0 /\ phase' = "idle" /\ wf_refs' = 0
      /\ ev_nodes' = <<>> /\ seen' = 0
      /\ UNCHANGED <<next, alive, fed, out, hook, databuf, late, sent>>
  BY DEF FinishEnd, wires, history
<1>2. Waiting = {}
  BY <1>1 DEF WaveInv, StillToTell
<1>3. Waiting' = Waiting
  BY <1>1 DEF Waiting
<1>4. /\ Len(ev_nodes') = 0 /\ ev_nodes' \in Seq(Node)
      /\ Members(ev_nodes') = {} /\ NoTwice(ev_nodes')
  BY <1>1 DEF Members, NoTwice
<1>5. TypeOK'
  BY <1>1, <1>4 DEF WaveInv, TypeOK
<1> QED
  BY <1>1, <1>2, <1>3, <1>4, <1>5 DEF WaveInv, WaveRefsExact, HookPointerSafe, HasOutHook, Listed
-----------------------------------------------------------------------------
(* The theorems.                                                           *)

LEMMA WaveInvStep == WaveInv /\ [Next]_vars => WaveInv'
<1> SUFFICES ASSUME WaveInv, [Next]_vars PROVE WaveInv'
  OBVIOUS
<1>1. /\ out \in [Node -> SUBSET (Node \cup {Other})] /\ fed \subseteq alive
      /\ alive \subseteq Node
  BY DEF WaveInv, TypeOK
<1>2. CASE UNCHANGED vars \/ WaveStart \/ FinishNone
  <2>1. /\ UNCHANGED <<wf_refs, ev_nodes, seen, next, alive, fed, out, hook, databuf, late, sent>>
        /\ phase' \in {"idle", "open", "finishing"}
        /\ phase' = "finishing" <=> phase = "finishing"
    BY <1>2 DEF vars, event, wires, history, WaveStart, FinishNone, WaveInv, TypeOK
  <2>2. Waiting' = Waiting
    BY <2>1 DEF Waiting
  <2> QED
    BY <2>1, <2>2
       DEF WaveInv, TypeOK, WaveRefsExact, HookPointerSafe, HasOutHook, Listed, StillToTell
<1>3. ASSUME NEW n \in Node, Data(n) PROVE WaveInv'
  BY <1>3, DataInv
<1>4. ASSUME NEW n \in Node, ConnectSensor(n) PROVE WaveInv'
  <2>1. fed \cup {n} \subseteq alive
    BY <1>1, <1>4 DEF ConnectSensor
  <2> QED
    BY <1>1, <1>4, <2>1, WiringInv DEF ConnectSensor
<1>5. ASSUME NEW n \in Node, DisconnectSensor(n) PROVE WaveInv'
  <2>1. fed \ {n} \subseteq alive
    BY <1>1
  <2> QED
    BY <1>1, <1>5, <2>1, WiringInv DEF DisconnectSensor
<1>6. ASSUME NEW n \in Node, NodeRm(n) PROVE WaveInv'
  BY <1>6, NodeRmInv
<1>7. ASSUME NEW wire \in Wiring, Connect(wire[1], wire[2]) PROVE WaveInv'
  <2> DEFINE o == [out EXCEPT ![wire[1]] = @ \cup {wire[2]}]
  <2>1. o \in [Node -> SUBSET (Node \cup {Other})]
    BY <1>1, <1>7 DEF Connect
  <2>2. /\ phase = "open" /\ UNCHANGED <<phase, event, alive, databuf, history>>
        /\ Rewire(o, fed)
    BY <1>7 DEF Connect
  <2> HIDE DEF o
  <2> QED
    BY <1>1, <2>1, <2>2, WiringInv
<1>8. ASSUME NEW wire \in Wiring, Disconnect(wire[1], wire[2]) PROVE WaveInv'
  <2> DEFINE o == [out EXCEPT ![wire[1]] = @ \ {wire[2]}]
  <2>1. o \in [Node -> SUBSET (Node \cup {Other})]
    BY <1>1
  <2>2. /\ phase = "open" /\ UNCHANGED <<phase, event, alive, databuf, history>>
        /\ Rewire(o, fed)
    BY <1>8 DEF Disconnect
  <2> HIDE DEF o
  <2> QED
    BY <1>1, <2>1, <2>2, WiringInv
<1>9. CASE Finish
  BY <1>9, FinishInv
<1>10. CASE Flush
  BY <1>10, FlushInv
<1>11. CASE FinishEnd
  BY <1>11, FinishEndInv
<1> QED
  BY <1>2, <1>3, <1>4, <1>5, <1>6, <1>7, <1>8, <1>9, <1>10, <1>11 DEF Next, Handlers, Finishing

\* Who has data is subscribed, and is told before the list is thrown away.
THEOREM WaveInvHolds == Spec => []WaveInv
BY WaveInvInit, WaveInvStep, PTL DEF Spec

\* Types, the count of the finish event included, never leave their range.
THEOREM WaveTypes == Spec => []TypeOK
<1>1. WaveInv => TypeOK
  BY DEF WaveInv
<1> QED
  BY <1>1, WaveInvHolds, PTL

\* dmm_wave_finish and wavebuf's rcvdata: the finish event is referenced once
\* for each subscriber, and a wavebuf with data subscribes once, not for every
\* block.
THEOREM SubscriptionsAreExact == Spec => []SubscriptionsExact
<1>1. ASSUME WaveInv PROVE SubscriptionsExact
  <2> SUFFICES ASSUME phase # "finishing", NEW n \in Node
               PROVE  Cardinality({i \in DOMAIN ev_nodes : ev_nodes[i] = n})
                        = IF databuf[n] > 0 /\ ~late[n] THEN 1 ELSE 0
    BY <1>1 DEF SubscriptionsExact, SubscribedOnce, WaveInv
  <2>1. Listed
    BY <1>1 DEF WaveInv
  <2>2. CASE n \in Waiting
    <3>1. PICK i \in DOMAIN ev_nodes : ev_nodes[i] = n
      BY <2>1, <2>2 DEF Listed, Members
    <3>2. {j \in DOMAIN ev_nodes : ev_nodes[j] = n} = {i}
      BY <2>1, <3>1 DEF Listed, NoTwice
    <3>3. Cardinality({i}) = 1
      BY FS_Singleton
    <3> QED
      BY <2>2, <3>2, <3>3 DEF Waiting
  <2>3. CASE n \notin Waiting
    <3>1. {j \in DOMAIN ev_nodes : ev_nodes[j] = n} = {}
      BY <2>1, <2>3 DEF Listed, Members
    <3> QED
      BY <2>3, <3>1, FS_EmptySet DEF Waiting
  <2> QED
    BY <2>2, <2>3
<1> QED
  BY <1>1, WaveInvHolds, PTL

\* wavebuf's newhook and rmhook: whatever is connected, cut and removed, a
\* hook pointer that is not NULL is that of an out hook that exists.
THEOREM HookPointersAreSafe == Spec => []HookPointerSafe
<1>1. WaveInv => HookPointerSafe
  BY DEF WaveInv
<1> QED
  BY <1>1, WaveInvHolds, PTL

\* dmm_wave_finish and wavebuf: when the list of subscribers is thrown away,
\* no data is left in a buffer but what came from the last one to be told.
NoneForgotten == [][FinishEnd => \A n \in Node : databuf[n] > 0 => late[n]]_vars

\* Nobody who waits for the end of a wave is left out of it, without fairness.
THEOREM NobodyIsForgotten == Spec => NoneForgotten
<1>1. WaveInv => (FinishEnd => \A n \in Node : databuf[n] > 0 => late[n])
  BY DEF WaveInv, FinishEnd, StillToTell, Waiting
<1>2. WaveInv /\ [Next]_vars =>
        [FinishEnd => \A n \in Node : databuf[n] > 0 => late[n]]_vars
  BY <1>1
<1> QED
  BY <1>2, WaveInvHolds, PTL DEF Spec, NoneForgotten
=============================================================================
