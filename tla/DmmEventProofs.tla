---------------------------- MODULE DmmEventProofs ----------------------------
(***************************************************************************)
(* What the proofs about timers and about socket events share: lemmas      *)
(* about lists, subscriptions and their counts (DmmEvent).                 *)
(***************************************************************************)
EXTENDS DmmEvent, FiniteSetTheorems, SequenceTheorems, TLAPS

-----------------------------------------------------------------------------
(* Lists.                                                                  *)

\* No cell of the list stands for the same thing as another.
NoTwice(s) == \A i, j \in DOMAIN s : s[i] = s[j] => i = j

\* What is left keeps its order: each pair of cells stood in the same order.
InOrderOf(t, s) ==
  \A k, l \in DOMAIN t : k < l =>
    \E i, j \in DOMAIN s : i < j /\ t[k] = s[i] /\ t[l] = s[j]

\* Removing cells removes just them, and keeps the order of the others.
LEMMA KeptIs ==
  ASSUME NEW T, NEW s \in Seq(T), NEW gone
  PROVE  /\ Kept(s, gone) \in Seq(T)
         /\ Members(Kept(s, gone)) = Members(s) \ gone
         /\ InOrderOf(Kept(s, gone), s)
<1> DEFINE stay    == {i \in DOMAIN s : s[i] \notin gone}
           Upto(i) == {j \in stay : j <= i}
           Rank(i) == Cardinality(Upto(i))
           m       == Cardinality(stay)
           Nth(k)  == CHOOSE i \in stay : Rank(i) = k
<1>1. /\ Len(s) \in Nat /\ DOMAIN s = 1..Len(s) /\ \A i \in DOMAIN s : s[i] \in T
      /\ stay \subseteq 1..Len(s)
  OBVIOUS
<1>2. IsFiniteSet(1..Len(s))
  BY <1>1, FS_Interval
<1>3. IsFiniteSet(stay) /\ m \in Nat
  BY <1>1, <1>2, FS_Subset, FS_CardinalityType
<1>4. Kept(s, gone) = [k \in 1..m |-> s[Nth(k)]]
  BY DEF Kept
<1>5. \A i \in stay : s[i] \notin gone /\ i \in 1..Len(s)
  BY <1>1
<1>6. \A i \in 1..Len(s) : s[i] \notin gone => i \in stay
  BY <1>1
<1>a. m = Cardinality(stay) /\ \A i : Rank(i) = Cardinality(Upto(i))
  OBVIOUS
<1> HIDE DEF stay, m
<1>b. /\ \A i \in stay : Upto(i) \in SUBSET stay /\ i \in Upto(i)
      /\ \A i, j \in stay : i < j => /\ Upto(i) \in SUBSET Upto(j)
                                     /\ j \in Upto(j) /\ j \notin Upto(i)
  BY <1>5
<1> HIDE DEF Upto, Rank
<1>7. ASSUME NEW i \in stay
      PROVE  /\ IsFiniteSet(Upto(i)) /\ i \in Upto(i) /\ Rank(i) \in 1..m
  <2>1. /\ IsFiniteSet(Upto(i)) /\ Cardinality(Upto(i)) <= Cardinality(stay)
        /\ Cardinality(Upto(i)) \in Nat
    BY <1>3, <1>b, FS_Subset, FS_CardinalityType
  <2>2. Cardinality(Upto(i)) # 0
    BY <1>b, <2>1, FS_EmptySet
  <2>3. QED
    BY <1>3, <1>a, <1>b, <2>1, <2>2
<1>8. ASSUME NEW i \in stay, NEW j \in stay, i < j
      PROVE  Rank(i) < Rank(j)
  <2>1. /\ IsFiniteSet(Upto(j)) /\ Upto(i) \in SUBSET Upto(j) /\ Upto(i) # Upto(j)
        /\ Rank(i) \in Int /\ Rank(j) \in Int
    BY <1>7, <1>8, <1>b
  <2>2. Cardinality(Upto(i)) <= Cardinality(Upto(j)) /\ Cardinality(Upto(i)) # Cardinality(Upto(j))
    BY <2>1, FS_Subset
  <2>3. QED
    BY <1>a, <2>1, <2>2
<1>0. \A i, j \in stay : Rank(i) = Rank(j) => i = j
  <2>1. \A i \in stay : i \in Int /\ Rank(i) \in Int
    BY <1>3, <1>5, <1>7
  <2> SUFFICES ASSUME NEW i \in stay, NEW j \in stay, i # j PROVE Rank(i) # Rank(j)
    OBVIOUS
  <2>2. i < j \/ j < i
    BY <2>1
  <2>3. QED
    BY <1>8, <2>1, <2>2
<1>9. \A k \in 1..m : \E i \in stay : Rank(i) = k
  <2> DEFINE f == [i \in stay |-> Rank(i)]
  <2>1. f \in [stay -> 1..m] /\ \A i \in stay : f[i] = Rank(i)
    BY <1>7
  <2> HIDE DEF f
  <2>4. f \in Injection(stay, 1..m)
    BY <1>0, <2>1 DEF Injection, IsInjective
  <2>5. IsFiniteSet(1..m) /\ Cardinality(1..m) = m
    BY <1>3, FS_Interval
  <2>6. f \in Surjection(stay, 1..m)
    BY <1>a, <2>4, <2>5, FS_Injection
  <2>7. QED
    BY <2>1, <2>6 DEF Surjection
<1>10. \A k \in 1..m : Nth(k) \in stay /\ Rank(Nth(k)) = k
  BY <1>9
<1> HIDE DEF Nth
<1>11. \A k, l \in 1..m : k < l => Nth(k) < Nth(l)
  <2> SUFFICES ASSUME NEW k \in 1..m, NEW l \in 1..m, k < l
               PROVE  Nth(k) < Nth(l)
    OBVIOUS
  <2>1. Nth(k) \in Int /\ Nth(l) \in Int /\ Nth(k) \in stay /\ Nth(l) \in stay
    BY <1>5, <1>10
  <2>2. Nth(k) # Nth(l) /\ ~(Nth(l) < Nth(k))
    BY <1>3, <1>8, <1>10, <2>1
  <2>3. QED
    BY <2>1, <2>2
<1>12. Kept(s, gone) \in Seq(T) /\ DOMAIN Kept(s, gone) = 1..m
  <2>1. \A k \in 1..m : s[Nth(k)] \in T
    BY <1>1, <1>10
  <2>2. [k \in 1..m |-> s[Nth(k)]] \in [1..m -> T]
    BY <2>1
  <2>3. \A q \in [1..m -> T] : q \in Seq(T) /\ DOMAIN q = 1..m
    BY <1>3
  <2>4. QED
    BY <1>4, <2>2, <2>3
<1>13. \A k \in 1..m : Kept(s, gone)[k] = s[Nth(k)]
  BY <1>4
<1>14. Members(Kept(s, gone)) = Members(s) \ gone
  <2>1. \A k \in 1..m : Kept(s, gone)[k] \in Members(s) \ gone
    BY <1>1, <1>5, <1>10, <1>13 DEF Members
  <2>2. ASSUME NEW i \in 1..Len(s), s[i] \notin gone
        PROVE  s[i] \in Members(Kept(s, gone))
    <3>1. i \in stay /\ Rank(i) \in 1..m
      BY <1>6, <1>7, <2>2
    <3>2. Nth(Rank(i)) = i
      BY <1>0, <1>10, <3>1
    <3>3. QED
      BY <1>12, <1>13, <3>1, <3>2 DEF Members
  <2>3. QED
    BY <1>1, <1>12, <2>1, <2>2 DEF Members
<1>15. InOrderOf(Kept(s, gone), s)
  BY <1>1, <1>5, <1>10, <1>11, <1>12, <1>13 DEF InOrderOf
<1>16. QED
  BY <1>12, <1>14, <1>15

\* A list in the order of one without repetitions has none.
LEMMA KeptNoTwice ==
  ASSUME NEW T, NEW s \in Seq(T), NEW gone, NoTwice(s)
  PROVE  NoTwice(Kept(s, gone))
<1> DEFINE t == Kept(s, gone)
<1>1. t \in Seq(T) /\ InOrderOf(t, s)
  BY KeptIs
<1> HIDE DEF t
<1>2. ASSUME NEW k \in DOMAIN t, NEW l \in DOMAIN t, k < l PROVE t[k] # t[l]
  <2>1. PICK i, j \in DOMAIN s : i < j /\ t[k] = s[i] /\ t[l] = s[j]
    BY <1>1, <1>2 DEF InOrderOf
  <2>2. i \in Int /\ j \in Int
    OBVIOUS
  <2>3. QED
    BY <2>1, <2>2 DEF NoTwice
<1>3. \A k, l \in DOMAIN t : k # l => k < l \/ l < k
  BY <1>1
<1>4. NoTwice(t)
  BY <1>2, <1>3 DEF NoTwice
<1>5. QED
  BY <1>4 DEF t

\* A list without repetitions is as long as the set of its members is large.
LEMMA NoTwiceLength ==
  ASSUME NEW T, NEW s \in Seq(T), NoTwice(s)
  PROVE  /\ IsFiniteSet(Members(s)) /\ Cardinality(Members(s)) = Len(s)
         /\ Members(s) \subseteq T /\ (s = <<>> <=> Members(s) = {})
<1>1. /\ s \in [1..Len(s) -> Members(s)] /\ DOMAIN s = 1..Len(s) /\ Len(s) \in Nat
      /\ \A x \in Members(s) : \E i \in 1..Len(s) : s[i] = x
      /\ Members(s) \subseteq T /\ (s = <<>> <=> Members(s) = {})
  BY DEF Members
<1>2. s \in Surjection(1..Len(s), Members(s))
  BY <1>1 DEF Surjection
<1>3. s \in Injection(1..Len(s), Members(s))
  BY <1>1 DEF Injection, IsInjective, NoTwice
<1>4. IsFiniteSet(1..Len(s)) /\ Cardinality(1..Len(s)) = Len(s)
  <2> DEFINE m == Len(s)
  <2> HIDE DEF m
  <2>1. m \in Nat
    BY <1>1 DEF m
  <2>2. IsFiniteSet(1..m) /\ Cardinality(1..m) = m
    BY <2>1, FS_Interval
  <2>3. QED
    BY <2>2 DEF m
<1>5. /\ IsFiniteSet(Members(s))
      /\ Cardinality(Members(s)) = Cardinality(1..Len(s)) <=> s \in Injection(1..Len(s), Members(s))
  BY <1>2, <1>4, FS_Surjection
<1>6. QED
  BY <1>1, <1>3, <1>4, <1>5

\* The list of one.
LEMMA ListOfOne ==
  ASSUME NEW T, NEW s \in Seq(T), NoTwice(s), NEW x, Members(s) = {x}
  PROVE  s = <<x>>
<1>1. Cardinality({x}) = 1
  BY FS_Singleton
<1>2. Len(s) = 1
  BY <1>1, NoTwiceLength
<1>3. DOMAIN s = 1..Len(s)
  OBVIOUS
<1>4. 1 \in DOMAIN s
  BY <1>2, <1>3
<1>5. s[1] = x
  BY <1>4 DEF Members
<1>6. QED
  BY <1>2, <1>5

\* A new member at the tail.
LEMMA AppendIs ==
  ASSUME NEW T, NEW s \in Seq(T), NEW x \in T, NoTwice(s), x \notin Members(s)
  PROVE  /\ Append(s, x) \in Seq(T) /\ NoTwice(Append(s, x))
         /\ Members(Append(s, x)) = Members(s) \cup {x}
<1>1. /\ Append(s, x) \in Seq(T) /\ Len(s) \in Nat
      /\ DOMAIN s = 1..Len(s) /\ DOMAIN Append(s, x) = 1..(Len(s) + 1)
      /\ \A i \in 1..Len(s) : Append(s, x)[i] = s[i]
      /\ Append(s, x)[Len(s) + 1] = x
  OBVIOUS
<1>2. \A i \in 1..Len(s) : s[i] # x
  BY <1>1 DEF Members
<1>3. NoTwice(Append(s, x))
  BY <1>1, <1>2 DEF NoTwice
<1>4. Members(Append(s, x)) = Members(s) \cup {x}
  BY <1>1 DEF Members
<1>5. QED
  BY <1>1, <1>3, <1>4

\* The first member, and the one after another, if there is one.
LEMMA NextIs ==
  ASSUME NEW T, NEW s \in Seq(T), NEW nil, NoTwice(s)
  PROVE  /\ FirstOf(s, nil) \in Members(s) \cup {nil}
         /\ \A x \in Members(s) : NextOf(s, x, nil) \in Members(s) \cup {nil}
         /\ \A x \in Members(s) : NextOf(s, x, nil) # x \/ NextOf(s, x, nil) = nil
<1>1. Len(s) \in Nat /\ DOMAIN s = 1..Len(s)
  OBVIOUS
<1>2. FirstOf(s, nil) \in Members(s) \cup {nil}
  BY <1>1 DEF FirstOf, Members
<1>3. ASSUME NEW x \in Members(s)
      PROVE  /\ NextOf(s, x, nil) \in Members(s) \cup {nil}
             /\ NextOf(s, x, nil) # x \/ NextOf(s, x, nil) = nil
  <2> DEFINE i == CHOOSE j \in DOMAIN s : s[j] = x
  <2>1. i \in DOMAIN s /\ s[i] = x
    BY DEF Members
  <2>2. NextOf(s, x, nil) = IF i = Len(s) THEN nil ELSE s[i + 1]
    BY DEF NextOf
  <2> HIDE DEF i
  <2>3. i # Len(s) => i + 1 \in DOMAIN s /\ i + 1 # i
    BY <1>1, <2>1
  <2>4. QED
    BY <1>1, <2>1, <2>2, <2>3 DEF Members, NoTwice
<1>4. QED
  BY <1>2, <1>3
-----------------------------------------------------------------------------
(* Counts.                                                                 *)

\* What is removed from a finite set and what is left add up.
LEMMA CardSplit ==
  ASSUME NEW S, IsFiniteSet(S), NEW T, T \subseteq S
  PROVE  /\ IsFiniteSet(S \ T) /\ IsFiniteSet(T)
         /\ Cardinality(S) \in Nat /\ Cardinality(T) \in Nat
         /\ Cardinality(S \ T) \in Nat
         /\ Cardinality(S \ T) = Cardinality(S) - Cardinality(T)
<1>1. IsFiniteSet(T) /\ IsFiniteSet(S \ T)
  BY FS_Subset, FS_Difference
<1>2. Cardinality(S \ T) = Cardinality(S) - Cardinality(S \cap T) /\ S \cap T = T
  BY FS_Difference
<1>3. QED
  BY <1>1, <1>2, FS_CardinalityType

\* One more, unless it was there.
LEMMA CardAdd ==
  ASSUME NEW S, IsFiniteSet(S), NEW x
  PROVE  /\ IsFiniteSet(S \cup {x})
         /\ Cardinality(S) \in Nat
         /\ Cardinality(S \cup {x}) = Cardinality(S) + (IF x \in S THEN 0 ELSE 1)
BY FS_AddElement, FS_CardinalityType
-----------------------------------------------------------------------------
(* What every command and every step of the loop keeps of the nodes and    *)
(* their subscriptions; dmm_timer.c and dmm_sockevent.c each have their    *)
(* own way with the references to events.                                  *)

\* The subscribers of e, as the nodes know them.
NodesOf(events, e) == {n \in Node : e \in events[n]}

SubsTypeOK ==
  /\ nd_state \in [Node -> {"valid", "invalid", "freed"}]
  /\ nd_refs \in [Node -> Nat]
  /\ nd_events \in [Node -> SUBSET Event] /\ ev_nodes \in [Event -> Seq(Node)]
  /\ sending \in Event \cup {NoEvent}
  /\ running \in Node \cup {NoNode} /\ next \in Node \cup {NoNode}

\* Node and event know of each other, once.
Mutual ==
  \A e \in Event : NoTwice(ev_nodes[e]) /\ Members(ev_nodes[e]) = NodesOf(nd_events, e)

\* Only valid nodes have subscriptions.
ValidSubscribe == \A n \in Node : nd_events[n] # {} => nd_state[n] = "valid"

\* Handlers of triggers run while one is being sent.
HandlersInSend == running # NoNode => sending # NoEvent

SubsInv ==
  SubsTypeOK /\ Mutual /\ NodeRefsExact /\ ValidSubscribe /\ CursorSafe /\ HandlersInSend

\* Subscribers are finitely many, and as many as the list is long.
LEMMA SubscribersCounted ==
  ASSUME SubsInv, NEW e \in Event
  PROVE  /\ IsFiniteSet(NodesOf(nd_events, e)) /\ Cardinality(NodesOf(nd_events, e)) \in Nat
         /\ Len(ev_nodes[e]) = Cardinality(NodesOf(nd_events, e))
         /\ ev_nodes[e] = <<>> <=> NodesOf(nd_events, e) = {}
         /\ Cardinality(NodesOf(nd_events, e)) = 0 <=> NodesOf(nd_events, e) = {}
         /\ ev_nodes[e] \in Seq(Node) /\ NoTwice(ev_nodes[e])
         /\ Members(ev_nodes[e]) = NodesOf(nd_events, e)
<1>1. /\ ev_nodes[e] \in Seq(Node) /\ NoTwice(ev_nodes[e])
      /\ Members(ev_nodes[e]) = NodesOf(nd_events, e)
  BY DEF SubsInv, SubsTypeOK, Mutual
<1>2. IsFiniteSet(NodesOf(nd_events, e)) /\ Cardinality(NodesOf(nd_events, e)) \in Nat
  BY EventAssumption, FS_Subset, FS_CardinalityType DEF NodesOf
<1>3. QED
  BY <1>1, <1>2, NoTwiceLength, FS_EmptySet

\* So are the events a node is subscribed to.
LEMMA EventsCounted ==
  ASSUME SubsInv, NEW n \in Node
  PROVE  IsFiniteSet(nd_events[n]) /\ Cardinality(nd_events[n]) \in Nat
<1>1. nd_events[n] \in SUBSET Event
  BY DEF SubsInv, SubsTypeOK
<1>2. QED
  BY <1>1, EventAssumption, FS_Subset, FS_CardinalityType

\* No node is subscribed at first.
LEMMA SubsInvInit == EventInit => SubsInv
<1> SUFFICES ASSUME EventInit PROVE SubsInv
  OBVIOUS
<1>1. SubsTypeOK /\ CursorSafe /\ HandlersInSend /\ ValidSubscribe
  BY DEF EventInit, SubsTypeOK, CursorSafe, HandlersInSend, ValidSubscribe
<1>2. Mutual
  BY DEF EventInit, Mutual, NoTwice, Members, NodesOf
<1>3. NodeRefsExact
  BY FS_EmptySet, EventAssumption DEF EventInit, NodeRefsExact
<1>4. QED
  BY <1>1, <1>2, <1>3 DEF SubsInv

\* What SubsInv is about.
subsVars == <<nd_state, nd_refs, nd_events, ev_nodes, sending, running, next>>

LEMMA SubsInvStutter == SubsInv /\ UNCHANGED subsVars => SubsInv'
BY DEF SubsInv, subsVars, SubsTypeOK, Mutual, NodeRefsExact, ValidSubscribe, CursorSafe,
       HandlersInSend, NodesOf

\* dmm_event_subscribe keeps SubsInv, and gives the event one more subscriber.
LEMMA SubscribeInv ==
  ASSUME SubsInv, NEW e \in Event, NEW n \in Node, nd_state[n] = "valid", ~Subscribed(e, n),
         Subscribe(e, n), UNCHANGED <<nd_state, delivery>>
  PROVE  /\ SubsInv'
         /\ NodesOf(nd_events', e) = NodesOf(nd_events, e) \cup {n}
         /\ n \notin NodesOf(nd_events, e)
         /\ \A f \in Event \ {e} : NodesOf(nd_events', f) = NodesOf(nd_events, f)
<1>1. /\ nd_events \in [Node -> SUBSET Event] /\ ev_nodes \in [Event -> Seq(Node)]
      /\ nd_refs \in [Node -> Nat] /\ e \notin nd_events[n]
  BY DEF SubsInv, SubsTypeOK, Subscribed
<1>2. /\ \A f \in Event : ev_nodes'[f] = IF f = e THEN Append(ev_nodes[e], n) ELSE ev_nodes[f]
      /\ \A m \in Node : nd_events'[m] = IF m = n THEN nd_events[n] \cup {e} ELSE nd_events[m]
      /\ \A m \in Node : nd_refs'[m] = IF m = n THEN nd_refs[n] + 1 ELSE nd_refs[m]
      /\ UNCHANGED <<nd_state, sending, running, next>>
  BY <1>1 DEF Subscribe, delivery
<1>3. /\ NodesOf(nd_events', e) = NodesOf(nd_events, e) \cup {n}
      /\ n \notin NodesOf(nd_events, e)
      /\ \A f \in Event \ {e} : NodesOf(nd_events', f) = NodesOf(nd_events, f)
  BY <1>1, <1>2 DEF NodesOf
<1>4. /\ Append(ev_nodes[e], n) \in Seq(Node) /\ NoTwice(Append(ev_nodes[e], n))
      /\ Members(Append(ev_nodes[e], n)) = Members(ev_nodes[e]) \cup {n}
  BY <1>3, SubscribersCounted, AppendIs
<1>5. SubsTypeOK'
  <2>1. ev_nodes' \in [Event -> Seq(Node)]
    BY <1>1, <1>4 DEF Subscribe
  <2>2. nd_events' \in [Node -> SUBSET Event] /\ nd_refs' \in [Node -> Nat]
    BY <1>1 DEF Subscribe
  <2>3. QED
    BY <1>2, <2>1, <2>2 DEF SubsInv, SubsTypeOK
<1>6. Mutual'
  BY <1>2, <1>3, <1>4 DEF SubsInv, Mutual
<1>7. NodeRefsExact'
  <2>1. Cardinality(nd_events[n] \cup {e}) = Cardinality(nd_events[n]) + 1
    BY <1>1, EventsCounted, CardAdd
  <2>2. \A m \in Node : Cardinality(nd_events[m]) \in Nat
    BY EventsCounted
  <2>3. QED
    BY <1>2, <2>1, <2>2 DEF SubsInv, NodeRefsExact
<1>8. ValidSubscribe' /\ HandlersInSend'
  BY <1>2 DEF SubsInv, ValidSubscribe, HandlersInSend
<1>9. CursorSafe'
  BY <1>2, <1>4, <1>5 DEF SubsInv, CursorSafe, SubsTypeOK
<1>10. QED
  BY <1>3, <1>5, <1>6, <1>7, <1>8, <1>9 DEF SubsInv

\* Subscriptions <<event, node>> that there are and that may be removed.
Removable(pairs) ==
  /\ pairs \in SUBSET (Event \X Node) /\ MayRemove(pairs)
  /\ \A p \in pairs : p[1] \in nd_events[p[2]]

\* The nodes whose subscriptions to e are among them.
LeaversOf(pairs, e) == {n \in Node : <<e, n>> \in pairs}

\* dmm_event_unsubscribe of these subscriptions keeps SubsInv, and so does
\* dmm_node_rm of the nodes of rm, which have no other subscriptions.
LEMMA CellsRemovedInv ==
  ASSUME SubsInv, RemoveNext = FALSE, NEW pairs, Removable(pairs), CellsRemoved(pairs),
         NEW rm, \A n \in rm : nd_state[n] = "valid" /\ \A e \in nd_events[n] : <<e, n>> \in pairs,
         NEW nr, nr = [n \in Node |-> nr[n]],
         \A n \in Node : nr[n] = NodeRefsWithout(pairs)[n] - (IF n \in rm THEN 1 ELSE 0),
         NEW ns, \A n \in Node : ns[n] = IF n \in rm THEN "invalid" ELSE nd_state[n],
         NEW er, NEW es, Release(er, nr, es, ns), UNCHANGED delivery
  PROVE  /\ SubsInv'
         /\ \A e \in Event :
              /\ NodesOf(nd_events', e) = NodesOf(nd_events, e) \ LeaversOf(pairs, e)
              /\ EventRefsWithout(pairs)[e] = ev_refs[e] - Cardinality(LeaversOf(pairs, e))
              /\ LeaversOf(pairs, e) \subseteq NodesOf(nd_events, e)
<1> DEFINE gone(e) == {n \in Node : <<e, n>> \in pairs}
           lost(n) == {e \in Event : <<e, n>> \in pairs}
           run(n)  == IF running = n THEN 1 ELSE 0
<1>1. /\ nd_events \in [Node -> SUBSET Event] /\ ev_nodes \in [Event -> Seq(Node)]
      /\ nd_refs \in [Node -> Nat] /\ nd_state \in [Node -> {"valid", "invalid", "freed"}]
      /\ UNCHANGED <<sending, running, next>>
  BY DEF SubsInv, SubsTypeOK, delivery
<1>2. /\ ev_nodes' = [e \in Event |-> Kept(ev_nodes[e], gone(e))]
      /\ nd_events' = [n \in Node |-> nd_events[n] \ lost(n)]
      /\ \A e \in Event : gone(e) \subseteq NodesOf(nd_events, e)
      /\ \A n \in Node : lost(n) \subseteq nd_events[n]
  <2>1. \A n \in Node : nd_events[n] \ lost(n) = {e \in nd_events[n] : <<e, n>> \notin pairs}
    BY <1>1
  <2>2. \A e \in Event, n \in Node : <<e, n>> \in pairs => e \in nd_events[n]
    BY DEF Removable
  <2>3. QED
    BY <2>1, <2>2 DEF CellsRemoved, NodesOf
<1>3. \A e \in Event : /\ NodesOf(nd_events', e) = NodesOf(nd_events, e) \ gone(e)
                       /\ EventRefsWithout(pairs)[e] = ev_refs[e] - Cardinality(gone(e))
  BY <1>1, <1>2 DEF NodesOf, EventRefsWithout
<1>4. \A n \in Node :
        /\ nd_refs'[n] = nd_refs[n] - Cardinality(lost(n)) - (IF n \in rm THEN 1 ELSE 0)
        /\ n \in rm => nd_state'[n] \in {"invalid", "freed"} /\ lost(n) = nd_events[n]
        /\ n \notin rm => \/ nd_state'[n] = nd_state[n]
                          \/ /\ nd_state[n] \in {"valid", "invalid"}
                             /\ nd_state'[n] = "freed" /\ nd_refs'[n] = 0
  <2>1. /\ \A n \in Node : /\ nd_refs'[n] = nr[n]
                           /\ nd_state'[n] = IF ns[n] \in {"valid", "invalid"} /\ nr[n] = 0
                                             THEN "freed" ELSE ns[n]
    BY DEF Release
  <2>2. \A n \in Node : nr[n] = nd_refs[n] - Cardinality(lost(n)) - (IF n \in rm THEN 1 ELSE 0)
    BY DEF NodeRefsWithout
  <2>3. ASSUME NEW n \in Node, n \in rm PROVE lost(n) = nd_events[n]
    <3>1. \A e \in nd_events[n] : e \in Event /\ <<e, n>> \in pairs
      BY <1>1, <2>3
    <3>2. nd_events[n] \subseteq lost(n)
      BY <3>1
    <3>3. QED
      BY <1>2, <3>2
  <2>4. QED
    BY <1>1, <2>1, <2>2, <2>3
<1> HIDE DEF gone, lost
<1>5. ASSUME NEW n \in Node
      PROVE  /\ nd_refs'[n] = (IF nd_state'[n] = "valid" THEN 1 ELSE 0)
                              + Cardinality(nd_events'[n]) + run(n)
             /\ nd_refs'[n] \in Nat
             /\ nd_events'[n] # {} => nd_state'[n] = "valid"
             /\ nd_state'[n] \in {"valid", "invalid", "freed"}
  <2>1. /\ Cardinality(nd_events'[n]) = Cardinality(nd_events[n]) - Cardinality(lost(n))
        /\ Cardinality(nd_events[n]) \in Nat /\ Cardinality(lost(n)) \in Nat
        /\ Cardinality(nd_events'[n]) \in Nat /\ run(n) \in Nat
        /\ nd_events'[n] = nd_events[n] \ lost(n)
        /\ n \in rm => nd_events'[n] = {} /\ Cardinality(nd_events'[n]) = 0
    <3>1. /\ IsFiniteSet(nd_events[n]) /\ lost(n) \subseteq nd_events[n]
          /\ nd_events'[n] = nd_events[n] \ lost(n) /\ run(n) \in Nat
      BY <1>2, EventsCounted
    <3>2. n \in rm => nd_events'[n] = {}
      BY <1>4, <3>1
    <3>3. /\ Cardinality(nd_events'[n]) = Cardinality(nd_events[n]) - Cardinality(lost(n))
          /\ Cardinality(nd_events[n]) \in Nat /\ Cardinality(lost(n)) \in Nat
          /\ Cardinality(nd_events'[n]) \in Nat
      BY <3>1, CardSplit
    <3>4. QED
      BY <3>1, <3>2, <3>3, FS_EmptySet
  <2>2. nd_refs[n] = (IF nd_state[n] = "valid" THEN 1 ELSE 0)
                     + Cardinality(nd_events[n]) + run(n)
    BY DEF SubsInv, NodeRefsExact
  <2>3. nd_events[n] # {} => nd_state[n] = "valid"
    BY DEF SubsInv, ValidSubscribe
  <2>4. nd_state[n] \in {"valid", "invalid", "freed"} /\ nd_refs[n] \in Nat
    BY <1>1
  <2> HIDE DEF run
  <2>5. CASE n \in rm
    <3>1. nd_state[n] = "valid"
      BY <2>5
    <3>2. /\ nd_refs'[n] = nd_refs[n] - Cardinality(lost(n)) - 1
          /\ nd_state'[n] \in {"invalid", "freed"}
      BY <1>4, <2>5
    <3>3. QED
      BY <2>1, <2>2, <2>5, <3>1, <3>2
  <2>6. CASE n \notin rm
    <3>1. nd_refs'[n] = nd_refs[n] - Cardinality(lost(n))
      BY <1>4, <2>1, <2>4, <2>6
    <3>2. CASE nd_state[n] = "valid"
      <4>1. nd_refs'[n] = 1 + Cardinality(nd_events'[n]) + run(n)
        BY <2>1, <2>2, <3>1, <3>2
      <4>2. nd_state'[n] = "valid"
        BY <1>4, <2>1, <2>6, <3>2, <4>1
      <4>3. QED
        BY <2>1, <4>1, <4>2
    <3>3. CASE nd_state[n] # "valid"
      <4>1. nd_events'[n] = {} /\ nd_refs'[n] = Cardinality(nd_events'[n]) + run(n)
        <5>1. nd_refs[n] = Cardinality(nd_events[n]) + run(n)
          BY <2>1, <2>2, <3>3
        <5>2. QED
          BY <2>1, <2>3, <3>1, <3>3, <5>1
      <4>2. nd_state'[n] # "valid" /\ nd_state'[n] \in {"valid", "invalid", "freed"}
        BY <1>4, <2>4, <2>6, <3>3
      <4>3. /\ nd_refs'[n] = 0 + Cardinality(nd_events'[n]) + run(n) /\ nd_refs'[n] \in Nat
        <5> DEFINE c == Cardinality(nd_events'[n])
                   r == nd_refs'[n]
        <5>1. c \in Nat /\ run(n) \in Nat
          BY <2>1
        <5>2. r = c + run(n)
          BY <4>1
        <5> HIDE DEF c, r
        <5>3. r = 0 + c + run(n) /\ r \in Nat
          BY <5>1, <5>2
        <5>4. QED
          BY <5>3 DEF c, r
      <4>4. QED
        BY <4>1, <4>2, <4>3
    <3>4. QED
      BY <3>2, <3>3
  <2>7. QED
    BY <2>5, <2>6
<1>6. \A e \in Event : /\ Kept(ev_nodes[e], gone(e)) \in Seq(Node)
                       /\ NoTwice(Kept(ev_nodes[e], gone(e)))
                       /\ Members(Kept(ev_nodes[e], gone(e))) = Members(ev_nodes[e]) \ gone(e)
  BY SubscribersCounted, KeptIs, KeptNoTwice
<1>7. SubsTypeOK'
  <2>1. ev_nodes' \in [Event -> Seq(Node)]
    BY <1>2, <1>6
  <2>2. nd_events' \in [Node -> SUBSET Event]
    BY <1>1, <1>2
  <2>3. nd_refs' = [n \in Node |-> nd_refs'[n]]
    BY DEF Release
  <2>4. nd_refs' \in [Node -> Nat]
    BY <1>5, <2>3
  <2>5. nd_state' \in [Node -> {"valid", "invalid", "freed"}]
    BY <1>5 DEF Release
  <2>6. QED
    BY <1>1, <2>1, <2>2, <2>4, <2>5 DEF SubsInv, SubsTypeOK
<1>8. Mutual'
  BY <1>2, <1>3, <1>6, SubscribersCounted DEF Mutual
<1>9. NodeRefsExact' /\ ValidSubscribe' /\ HandlersInSend'
  BY <1>1, <1>5 DEF SubsInv, NodeRefsExact, ValidSubscribe, HandlersInSend
<1>10. CursorSafe'
  <2> SUFFICES ASSUME sending # NoEvent, next # NoNode
               PROVE  next \in Members(ev_nodes'[sending])
    BY <1>1 DEF CursorSafe
  <2>1. sending \in Event /\ next \in Members(ev_nodes[sending])
    BY DEF SubsInv, SubsTypeOK, CursorSafe
  <2>2. next \notin gone(sending)
    BY DEF Removable, MayRemove, gone
  <2>3. QED
    BY <1>2, <1>6, <2>1, <2>2
<1>11. QED
  BY <1>2, <1>3, <1>7, <1>8, <1>9, <1>10 DEF SubsInv, gone, LeaversOf
-----------------------------------------------------------------------------
(* dmm_event_sendsubscribed.                                               *)

\* The loop begins, while none is under way.
LEMMA SendStartInv ==
  ASSUME SubsInv, sending = NoEvent, NEW e \in Event, SendStart(e),
         UNCHANGED <<subscriptions, nd_state, nd_refs>>
  PROVE  SubsInv'
<1>1. /\ sending' = e /\ running' = NoNode /\ next' = FirstOf(ev_nodes[e], NoNode)
      /\ UNCHANGED <<nd_events, ev_nodes, nd_state, nd_refs>>
      /\ running = NoNode
  BY DEF SendStart, subscriptions, SubsInv, HandlersInSend
<1>2. next' \in Members(ev_nodes[e]) \cup {NoNode} /\ Members(ev_nodes[e]) \subseteq Node
  BY <1>1, SubscribersCounted, NextIs, NoTwiceLength
<1>3. SubsTypeOK' /\ CursorSafe'
  BY <1>1, <1>2 DEF SubsInv, SubsTypeOK, CursorSafe
<1>4. Mutual' /\ NodeRefsExact' /\ ValidSubscribe' /\ HandlersInSend'
  BY <1>1, EventAssumption
     DEF SubsInv, Mutual, NodeRefsExact, ValidSubscribe, HandlersInSend, NodesOf
<1>5. QED
  BY <1>3, <1>4 DEF SubsInv

\* It moves on by a cell: the node of the trigger's copy is referenced.
LEMMA SendStepInv ==
  ASSUME SubsInv, SendStep
  PROVE  SubsInv'
<1> DEFINE held == nd_state[next] = "valid"
<1>1. /\ sending \in Event /\ next \in Node /\ running = NoNode /\ next # NoNode
      /\ next \in Members(ev_nodes[sending]) /\ sending # NoEvent
      /\ next' = NextOf(ev_nodes[sending], next, NoNode)
      /\ UNCHANGED <<nd_events, ev_nodes, nd_state, sending>>
      /\ nd_refs \in [Node -> Nat]
  BY DEF SendStep, SubsInv, SubsTypeOK, CursorSafe, subscriptions
<1>2. next' \in Members(ev_nodes[sending]) \cup {NoNode}
      /\ Members(ev_nodes[sending]) \subseteq Node
  BY <1>1, SubscribersCounted, NextIs, NoTwiceLength
<1>3. /\ held => running' = next /\ nd_refs' = [nd_refs EXCEPT ![next] = @ + 1]
      /\ ~held => UNCHANGED <<running, nd_refs>>
  BY DEF SendStep
<1>4. SubsTypeOK' /\ CursorSafe'
  <2>1. CASE held
    BY <1>1, <1>2, <1>3, <2>1 DEF SubsInv, SubsTypeOK, CursorSafe
  <2>2. CASE ~held
    BY <1>1, <1>2, <1>3, <2>2 DEF SubsInv, SubsTypeOK, CursorSafe
  <2>3. QED
    BY <2>1, <2>2
<1>5. Mutual' /\ ValidSubscribe' /\ HandlersInSend'
  BY <1>1, <1>3 DEF SubsInv, Mutual, ValidSubscribe, HandlersInSend, NodesOf
<1>6. NodeRefsExact'
  <2>1. \A n \in Node : Cardinality(nd_events[n]) \in Nat
    BY EventsCounted
  <2>2. \A n \in Node :
          nd_refs[n] = (IF nd_state[n] = "valid" THEN 1 ELSE 0) + Cardinality(nd_events[n])
    BY <1>1, <2>1, EventAssumption DEF SubsInv, NodeRefsExact
  <2>3. CASE held
    <3>1. \A n \in Node : nd_refs'[n] = nd_refs[n] + (IF running' = n THEN 1 ELSE 0)
      BY <1>1, <1>3, <2>3
    <3>2. QED
      BY <1>1, <2>1, <2>2, <3>1 DEF NodeRefsExact
  <2>4. CASE ~held
    BY <1>1, <1>3, <2>4 DEF SubsInv, NodeRefsExact
  <2>5. QED
    BY <2>3, <2>4
<1>7. QED
  BY <1>4, <1>5, <1>6 DEF SubsInv

\* dmm_msg_apply gives the reference back; a removed node may go then.
LEMMA HandlerReturnsInv ==
  ASSUME SubsInv, HandlerReturns
  PROVE  SubsInv'
<1>1. /\ running \in Node /\ running' = NoNode /\ nd_refs \in [Node -> Nat]
      /\ UNCHANGED <<nd_events, ev_nodes, sending, next>>
      /\ nd_refs' = [nd_refs EXCEPT ![running] = @ - 1]
      /\ nd_state' = [n \in Node |->
           IF nd_state[n] \in {"valid", "invalid"} /\ nd_refs'[n] = 0 THEN "freed"
           ELSE nd_state[n]]
      /\ nd_state \in [Node -> {"valid", "invalid", "freed"}]
  BY DEF HandlerReturns, Release, SubsInv, SubsTypeOK, subscriptions
<1>2. ASSUME NEW n \in Node
      PROVE  /\ nd_refs'[n] = (IF nd_state'[n] = "valid" THEN 1 ELSE 0)
                              + Cardinality(nd_events'[n])
             /\ nd_refs'[n] \in Nat
             /\ nd_state'[n] = "valid" <=> nd_state[n] = "valid"
             /\ nd_state'[n] \in {"valid", "invalid", "freed"}
  <2>1. Cardinality(nd_events[n]) \in Nat /\ nd_events'[n] = nd_events[n]
    BY <1>1, EventsCounted
  <2>2. nd_refs[n] = (IF nd_state[n] = "valid" THEN 1 ELSE 0) + Cardinality(nd_events[n])
                     + (IF running = n THEN 1 ELSE 0)
    BY DEF SubsInv, NodeRefsExact
  <2>3. nd_refs'[n] = nd_refs[n] - (IF running = n THEN 1 ELSE 0) /\ nd_refs[n] \in Nat
    BY <1>1
  <2>4. nd_refs'[n] = (IF nd_state[n] = "valid" THEN 1 ELSE 0) + Cardinality(nd_events[n])
    BY <2>1, <2>2, <2>3
  <2>5. nd_state[n] = "valid" => nd_refs'[n] # 0
    BY <2>1, <2>4
  <2>6. /\ nd_state'[n] = "valid" <=> nd_state[n] = "valid"
        /\ nd_state'[n] \in {"valid", "invalid", "freed"}
    BY <1>1, <2>5
  <2>7. nd_refs'[n] \in Nat
    BY <2>1, <2>4
  <2>8. QED
    BY <2>1, <2>4, <2>6, <2>7
<1>3. SubsTypeOK' /\ CursorSafe'
  <2>1. nd_refs' \in [Node -> Nat]
    BY <1>1, <1>2
  <2>2. nd_state' \in [Node -> {"valid", "invalid", "freed"}]
    BY <1>1, <1>2
  <2>3. QED
    BY <1>1, <2>1, <2>2 DEF SubsInv, SubsTypeOK, CursorSafe
<1>4. NodeRefsExact'
  <2>1. \A n \in Node : Cardinality(nd_events'[n]) \in Nat /\ running' # n
    BY <1>1, EventsCounted, EventAssumption
  <2>2. QED
    BY <1>2, <2>1 DEF NodeRefsExact
<1>5. Mutual' /\ ValidSubscribe' /\ HandlersInSend'
  BY <1>1, <1>2 DEF SubsInv, Mutual, ValidSubscribe, HandlersInSend, NodesOf
<1>6. QED
  BY <1>3, <1>4, <1>5 DEF SubsInv

\* The loop is over, whether or not references are released after it.
LEMMA SendDoneInv ==
  ASSUME SubsInv, SendDone, sending' = NoEvent,
         UNCHANGED <<running, next, subscriptions, nd_refs>>,
         \/ UNCHANGED nd_state
         \/ nd_state' = [n \in Node |->
              IF nd_state[n] \in {"valid", "invalid"} /\ nd_refs[n] = 0 THEN "freed"
              ELSE nd_state[n]]
  PROVE  SubsInv'
<1>1. /\ running = NoNode /\ sending' = NoEvent /\ running' = running
      /\ UNCHANGED <<nd_events, ev_nodes, nd_refs, next>>
  BY DEF SendDone, subscriptions
<1>2. \A n \in Node : nd_state[n] = "valid" => nd_refs[n] # 0
  BY EventsCounted DEF SubsInv, NodeRefsExact
<1>3. \A n \in Node : /\ nd_state'[n] = "valid" <=> nd_state[n] = "valid"
                      /\ nd_state[n] \in {"valid", "invalid", "freed"}
  BY <1>2 DEF SubsInv, SubsTypeOK
<1>4. SubsTypeOK' /\ CursorSafe' /\ HandlersInSend'
  BY <1>1 DEF SubsInv, SubsTypeOK, CursorSafe, HandlersInSend
<1>5. Mutual' /\ NodeRefsExact' /\ ValidSubscribe'
  BY <1>1, <1>3 DEF SubsInv, Mutual, NodeRefsExact, ValidSubscribe, NodesOf
<1>6. QED
  BY <1>4, <1>5 DEF SubsInv

\* What the runs check of subscriptions.
LEMMA SubsInvGives == SubsInv => SubscriptionsMutual /\ NodeRefsExact /\ CursorSafe
<1> SUFFICES ASSUME SubsInv PROVE SubscriptionsMutual
  BY DEF SubsInv
<1>1. QED
  BY SubscribersCounted, NoTwiceLength DEF SubscriptionsMutual, NodesOf
=============================================================================
