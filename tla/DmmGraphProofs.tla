--------------------------- MODULE DmmGraphProofs ---------------------------
(***************************************************************************)
(* Proofs about DmmGraph for any number of nodes, hooks, names and any     *)
(* depth of the call stack: GraphInv is inductive, so reference counts are *)
(* exact, nothing dangles, connections are sound and nothing leaks.  From  *)
(* it: hook names are unique, each step is a step of DmmTopology or none,  *)
(* and the list cursors of dmm_data_send are safe unless the connection in *)
(* use is cut.                                                             *)
(***************************************************************************)
EXTENDS DmmGraph, FiniteSetTheorems, SequenceTheorems, TLAPS

NodeState == {"unborn", "valid", "invalid", "freed"}
HookState == {"free", "valid", "invalid"}
-----------------------------------------------------------------------------
(* Finite sets.                                                            *)

\* Taking a part out of a finite set takes its size off the cardinality.
LEMMA CardSplit ==
  ASSUME NEW S, IsFiniteSet(S), NEW T, T \subseteq S
  PROVE  /\ IsFiniteSet(S \ T) /\ IsFiniteSet(T)
         /\ Cardinality(S) \in Nat /\ Cardinality(T) \in Nat
         /\ Cardinality(S \ T) \in Nat
         /\ Cardinality(S \ T) = Cardinality(S) - Cardinality(T)
<1>1. /\ IsFiniteSet(T) /\ IsFiniteSet(S \ T)
  BY FS_Subset, FS_Difference
<1>2. Cardinality(S \ T) = Cardinality(S) - Cardinality(S \cap T)
  BY FS_Difference
<1>3. S \cap T = T
  OBVIOUS
<1>4. QED
  BY <1>1, <1>2, <1>3, FS_CardinalityType

\* Taking out whatever of D is in it.
LEMMA CardMinus ==
  ASSUME NEW S, IsFiniteSet(S), NEW D
  PROVE  /\ Cardinality(S) \in Nat /\ Cardinality(D \cap S) \in Nat
         /\ Cardinality(S \ D) \in Nat
         /\ Cardinality(S \ D) = Cardinality(S) - Cardinality(D \cap S)
<1>1. S \ (D \cap S) = S \ D /\ D \cap S \subseteq S
  OBVIOUS
<1>2. QED
  BY <1>1, CardSplit

\* A finite set with an element is not counted as empty.
LEMMA CardPositive ==
  ASSUME NEW S, IsFiniteSet(S)
  PROVE  /\ Cardinality(S) \in Nat
         /\ Cardinality(S) = 0 <=> S = {}
BY FS_CardinalityType, FS_EmptySet

LEMMA CardAdd ==
  ASSUME NEW S, IsFiniteSet(S), NEW x
  PROVE  /\ IsFiniteSet(S \cup {x})
         /\ Cardinality(S) \in Nat
         /\ Cardinality(S \cup {x}) = Cardinality(S) + (IF x \in S THEN 0 ELSE 1)
BY FS_AddElement, FS_CardinalityType

\* Sets of hooks are finite, and so is every set the counts are taken of.
LEMMA HooksFinite ==
  ASSUME NEW n, NEW peers, NEW h
  PROVE  /\ IsFiniteSet(HooksOf(n)) /\ Cardinality(HooksOf(n)) \in Nat
         /\ IsFiniteSet(Holders(peers, h)) /\ Cardinality(Holders(peers, h)) \in Nat
<1>1. HooksOf(n) \in SUBSET Hook /\ Holders(peers, h) \in SUBSET Hook
  BY DEF HooksOf, Holders
<1>2. QED
  BY <1>1, GraphAssumption, FS_Subset, FS_CardinalityType

\* The hooks of a node without those in D.
LEMMA HooksMinus ==
  ASSUME NEW n, NEW D
  PROVE  /\ Cardinality(HooksOf(n)) \in Nat /\ Cardinality(D \cap HooksOf(n)) \in Nat
         /\ Cardinality(HooksOf(n) \ D) \in Nat
         /\ Cardinality(HooksOf(n) \ D) = Cardinality(HooksOf(n)) - Cardinality(D \cap HooksOf(n))
BY HooksFinite, CardMinus
-----------------------------------------------------------------------------
(* Frames on the call stack.                                               *)

\* The frames that use a hook, or a node, are finitely many.
LEMMA UsesNat ==
  ASSUME NEW st \in Seq(Frame), NEW x
  PROVE  /\ IsFiniteSet({i \in 1..Len(st) : st[i].hook = x})
         /\ IsFiniteSet({i \in 1..Len(st) : st[i].node = x})
         /\ HookUses(st, x) \in Nat /\ NodeUses(st, x) \in Nat
         /\ HookUses(st, x) = 0 <=> \A i \in 1..Len(st) : st[i].hook # x
         /\ NodeUses(st, x) = 0 <=> \A i \in 1..Len(st) : st[i].node # x
<1>1. IsFiniteSet(1..Len(st))
  BY FS_Interval
<1>2. /\ IsFiniteSet({i \in 1..Len(st) : st[i].hook = x})
      /\ IsFiniteSet({i \in 1..Len(st) : st[i].node = x})
  BY <1>1, FS_Subset
<1>3. /\ HookUses(st, x) \in Nat
      /\ HookUses(st, x) = 0 <=> {i \in 1..Len(st) : st[i].hook = x} = {}
  BY <1>2, CardPositive DEF HookUses
<1>4. /\ NodeUses(st, x) \in Nat
      /\ NodeUses(st, x) = 0 <=> {i \in 1..Len(st) : st[i].node = x} = {}
  BY <1>2, CardPositive DEF NodeUses
<1>5. QED
  BY <1>2, <1>3, <1>4

\* A call adds the use its frame makes.
LEMMA UsesPush ==
  ASSUME NEW st \in Seq(Frame), NEW f \in Frame, NEW x
  PROVE  /\ Append(st, f) \in Seq(Frame)
         /\ HookUses(Append(st, f), x) = HookUses(st, x) + (IF f.hook = x THEN 1 ELSE 0)
         /\ NodeUses(Append(st, f), x) = NodeUses(st, x) + (IF f.node = x THEN 1 ELSE 0)
<1> DEFINE n == Len(st)
           S == {i \in 1..n : st[i].hook = x}
           T == {i \in 1..n : st[i].node = x}
           S1 == {i \in 1..Len(Append(st, f)) : Append(st, f)[i].hook = x}
           T1 == {i \in 1..Len(Append(st, f)) : Append(st, f)[i].node = x}
<1>1. /\ IsFiniteSet(S) /\ IsFiniteSet(T) /\ Cardinality(S) \in Nat /\ Cardinality(T) \in Nat
  BY UsesNat DEF HookUses, NodeUses
<1>2. /\ n \in Nat /\ Len(Append(st, f)) = n + 1
      /\ \A i \in 1..n : Append(st, f)[i] = st[i]
      /\ Append(st, f)[n + 1] = f
  OBVIOUS
<1>3. /\ S1 = (IF f.hook = x THEN S \cup {n + 1} ELSE S)
      /\ T1 = (IF f.node = x THEN T \cup {n + 1} ELSE T)
  BY <1>2
<1>4. n + 1 \notin S /\ n + 1 \notin T
  BY <1>2
<1> HIDE DEF S, T, S1, T1
<1>5. /\ Cardinality(S1) = Cardinality(S) + (IF f.hook = x THEN 1 ELSE 0)
      /\ Cardinality(T1) = Cardinality(T) + (IF f.node = x THEN 1 ELSE 0)
  BY <1>1, <1>3, <1>4, CardAdd
<1>6. /\ HookUses(Append(st, f), x) = Cardinality(S1) /\ HookUses(st, x) = Cardinality(S)
      /\ NodeUses(Append(st, f), x) = Cardinality(T1) /\ NodeUses(st, x) = Cardinality(T)
  BY DEF S, T, S1, T1, HookUses, NodeUses
<1>7. Append(st, f) \in Seq(Frame)
  OBVIOUS
<1>8. QED
  BY <1>5, <1>6, <1>7

\* A return gives back the use the top frame made.
LEMMA UsesPop ==
  ASSUME NEW st \in Seq(Frame), st # <<>>, NEW x
  PROVE  LET low == SubSeq(st, 1, Len(st) - 1)
             top == st[Len(st)]
         IN  /\ low \in Seq(Frame) /\ top \in Frame
             /\ Len(low) = Len(st) - 1 /\ \A i \in 1..Len(low) : low[i] = st[i]
             /\ HookUses(st, x) = HookUses(low, x) + (IF top.hook = x THEN 1 ELSE 0)
             /\ NodeUses(st, x) = NodeUses(low, x) + (IF top.node = x THEN 1 ELSE 0)
<1> DEFINE low == SubSeq(st, 1, Len(st) - 1)
           top == st[Len(st)]
<1>1. Len(st) \in Nat \ {0} /\ \A i \in 1..Len(st) : st[i] \in Frame
  OBVIOUS
<1>2. /\ low \in Seq(Frame) /\ top \in Frame /\ Len(low) = Len(st) - 1
      /\ \A i \in 1..Len(low) : low[i] = st[i]
  <2> DEFINE m == Len(st) - 1
  <2>1. m \in Int /\ m >= 0 /\ \A i \in 1..m : st[i] \in Frame
    BY <1>1
  <2> HIDE DEF m
  <2>2. /\ SubSeq(st, 1, m) \in Seq(Frame)
        /\ Len(SubSeq(st, 1, m)) = IF 1 <= m THEN m - 1 + 1 ELSE 0
        /\ \A i \in 1..m - 1 + 1 : SubSeq(st, 1, m)[i] = st[1 + i - 1]
    BY <2>1, SubSeqProperties
  <2>3. Len(SubSeq(st, 1, m)) = m /\ \A i \in 1..m : SubSeq(st, 1, m)[i] = st[i]
    BY <2>1, <2>2
  <2>4. QED
    BY <1>1, <2>2, <2>3 DEF m
<1>3. st = Append(low, top)
  <2>1. /\ Append(low, top) \in Seq(Frame) /\ Len(Append(low, top)) = Len(st)
        /\ \A i \in 1..Len(st) : Append(low, top)[i] = st[i]
    <3> HIDE DEF low, top
    <3>1. /\ Append(low, top) \in Seq(Frame) /\ Len(Append(low, top)) = Len(low) + 1
          /\ \A i \in 1..Len(low) : Append(low, top)[i] = low[i]
          /\ Append(low, top)[Len(low) + 1] = top
      BY <1>2, AppendProperties
    <3>2. QED
      BY <1>1, <1>2, <3>1 DEF top
  <2>2. QED
    BY <2>1, SeqEqual
<1> HIDE DEF low, top
<1>4. /\ HookUses(st, x) = HookUses(low, x) + (IF top.hook = x THEN 1 ELSE 0)
      /\ NodeUses(st, x) = NodeUses(low, x) + (IF top.node = x THEN 1 ELSE 0)
  BY <1>2, <1>3, UsesPush
<1>5. QED
  BY <1>2, <1>4 DEF low, top

\* Moving a cursor changes no use.
LEMMA UsesSame ==
  ASSUME NEW st \in Seq(Frame), NEW su \in Seq(Frame), Len(su) = Len(st),
         \A i \in 1..Len(st) : su[i].hook = st[i].hook /\ su[i].node = st[i].node,
         NEW x
  PROVE  HookUses(su, x) = HookUses(st, x) /\ NodeUses(su, x) = NodeUses(st, x)
<1>1. /\ {i \in 1..Len(su) : su[i].hook = x} = {i \in 1..Len(st) : st[i].hook = x}
      /\ {i \in 1..Len(su) : su[i].node = x} = {i \in 1..Len(st) : st[i].node = x}
  OBVIOUS
<1>2. QED
  BY <1>1 DEF HookUses, NodeUses
-----------------------------------------------------------------------------
(* The steps that release references: what dmm_hook_unref and              *)
(* dmm_node_unref free is exactly what nothing refers to any more.         *)

\* The counts hr and nr are those of the lists, the flags ns and hs and the
\* stack that an operation leaves behind, before Release frees anything.
FlagsSound(ns, hs) ==
  /\ \A n \in Node : ns[n] = nd_state[n] \/ (nd_state[n] = "valid" /\ ns[n] = "invalid")
  /\ \A h \in Hook : /\ hs[h] = "free" <=> hk_state[h] = "free"
                     /\ Allocated(h) => hs[h] = ns[hk_key[h].node]

HookCounts(hr) ==
  \A h \in Hook : /\ ~Allocated(h) => hr[h] = 0
                  /\ hr[h] = Cardinality(Holders(hk_peers', h)) + HookUses(stack', h)

NodeCounts(nr, ns) ==
  \A n \in Node : /\ ~InNodelist(n) => nr[n] = 0
                  /\ nr[n] = (IF ns[n] = "valid" THEN 1 ELSE 0)
                             + Cardinality(HooksOf(n)) + NodeUses(stack', n)

NextStack == stack' \in Seq(Frame) /\ \A i \in 1..Len(stack') : FrameSound(stack'[i])

NextPeers(ns, hs) ==
  /\ hk_peers' \in [Hook -> SUBSET Hook]
  /\ \A h \in Hook : \A p \in hk_peers'[h] :
       /\ h \in hk_peers'[p] /\ hk_key[h].dir # hk_key[p].dir
       /\ hs[h] = "valid" /\ ns[hk_key[h].node] = "valid"

\* Which nodes are valid, and which are not yet created, is as ns says: what
\* Release frees is neither.
NodesAre(ns) ==
  \A n \in Node : /\ nd_state'[n] = "valid" <=> ns[n] = "valid"
                  /\ nd_state'[n] = "unborn" <=> ns[n] = "unborn"

\* Release keeps the invariant if the counts it is given are right.
LEMMA ReleaseKeepsInv ==
  ASSUME GraphInv,
         NEW hr \in [Hook -> Nat], NEW nr \in [Node -> Nat],
         NEW ns \in [Node -> NodeState], NEW hs \in [Hook -> HookState],
         FlagsSound(ns, hs), HookCounts(hr), NodeCounts(nr, ns),
         NextStack, NextPeers(ns, hs),
         Release(hr, nr, ns, hs)
  PROVE  GraphInv' /\ NodesAre(ns)
<1> PICK dead : dead = Dead(hr)
  OBVIOUS
<1> DEFINE nrefs(n) == nr[n] - Cardinality(dead \cap HooksOf(n))
<1>a. /\ TypeOK /\ MemorySound
      /\ nd_state \in [Node -> NodeState] /\ hk_state \in [Hook -> HookState]
      /\ hk_key \in [Hook -> Key \cup {NoKey}]
  BY DEF GraphInv, TypeOK, NodeState, HookState
<1>b. /\ hk_refs' = hr
      /\ hk_state' = [h \in Hook |-> IF h \in dead THEN "free" ELSE hs[h]]
      /\ hk_key' = [h \in Hook |-> IF h \in dead THEN NoKey ELSE hk_key[h]]
      /\ nd_refs' = [n \in Node |-> nrefs(n)]
      /\ nd_state' = [n \in Node |-> IF InNodelist(n) /\ nrefs(n) = 0 THEN "freed" ELSE ns[n]]
  BY DEF Release
<1>c. dead \in SUBSET Hook /\ \A h \in Hook : h \in dead <=> (hk_state[h] # "free" /\ hr[h] = 0)
  BY DEF Dead, Allocated
<1>d. \A h \in Hook : hk_state'[h] # "free" <=> (hk_state[h] # "free" /\ h \notin dead)
  BY <1>b DEF FlagsSound
<1>1. ASSUME NEW n \in Node PROVE HooksOf(n)' = HooksOf(n) \ dead
  <2>1. HooksOf(n)' = {h \in Hook : hk_state'[h] # "free" /\ hk_key'[h].node = n}
    BY DEF HooksOf, Allocated
  <2>2. HooksOf(n) = {h \in Hook : hk_state[h] # "free" /\ hk_key[h].node = n}
    BY DEF HooksOf, Allocated
  <2>3. \A h \in Hook : h \notin dead => hk_key'[h] = hk_key[h]
    BY <1>b
  <2>4. QED
    BY <1>d, <2>1, <2>2, <2>3
<1>2. ASSUME NEW n \in Node
      PROVE  /\ nrefs(n) \in Nat
             /\ Cardinality(HooksOf(n)') \in Nat /\ NodeUses(stack', n) \in Nat
             /\ nrefs(n) = (IF ns[n] = "valid" THEN 1 ELSE 0)
                           + Cardinality(HooksOf(n)') + NodeUses(stack', n)
             /\ nr[n] = 0 => nrefs(n) = 0
  <2> DEFINE k == IF ns[n] = "valid" THEN 1 ELSE 0
             u == NodeUses(stack', n)
  <2>1. k \in {0, 1} /\ u \in Nat
    BY UsesNat DEF NextStack
  <2>2. nr[n] = k + Cardinality(HooksOf(n)) + u
    BY DEF NodeCounts
  <2> DEFINE all == Cardinality(HooksOf(n))
             gone == Cardinality(dead \cap HooksOf(n))
             left == Cardinality(HooksOf(n) \ dead)
  <2>3. all \in Nat /\ gone \in Nat /\ left \in Nat /\ left = all - gone
    BY HooksMinus
  <2>4. nrefs(n) = nr[n] - gone /\ nr[n] = k + all + u
    BY <2>2
  <2> HIDE DEF k, u, all, gone, left, nrefs
  <2>5. nrefs(n) \in Nat /\ nrefs(n) = k + left + u /\ (nr[n] = 0 => nrefs(n) = 0)
    BY <2>1, <2>3, <2>4
  <2>6. QED
    BY <1>1, <2>1, <2>3, <2>5 DEF k, u, left
<1>3. TypeOK'
  <2>1. nd_refs' \in [Node -> Nat]
    BY <1>b, <1>2
  <2>2. nd_state' \in [Node -> NodeState] /\ hk_state' \in [Hook -> HookState]
    BY <1>b DEF NodeState, HookState
  <2>3. hk_key' \in [Hook -> Key \cup {NoKey}] /\ hk_refs' \in [Hook -> Nat]
    BY <1>a, <1>b
  <2>4. hk_peers' \in [Hook -> SUBSET Hook] /\ stack' \in Seq(Frame)
    BY DEF NextPeers, NextStack
  <2>5. QED
    BY <2>1, <2>2, <2>3, <2>4 DEF TypeOK, NodeState, HookState
<1>4. HookRefsExact'
  BY <1>b DEF HookRefsExact, HookCounts
<1>5. ASSUME NEW n \in Node PROVE nd_state'[n] = "valid" <=> ns[n] = "valid"
  <2>1. ns[n] = "valid" => nrefs(n) # 0
    <3>1. /\ Cardinality(HooksOf(n)') \in Nat /\ NodeUses(stack', n) \in Nat
          /\ nrefs(n) = (IF ns[n] = "valid" THEN 1 ELSE 0)
                        + Cardinality(HooksOf(n)') + NodeUses(stack', n)
      BY <1>2
    <3> HIDE DEF nrefs
    <3>2. QED
      BY <3>1
  <2>2. nd_state'[n] = IF InNodelist(n) /\ nrefs(n) = 0 THEN "freed" ELSE ns[n]
    BY <1>b
  <2> HIDE DEF nrefs
  <2>3. QED
    BY <2>1, <2>2
<1>6. NodeRefsExact'
  <2> SUFFICES ASSUME NEW n \in Node
               PROVE nd_refs'[n] = (IF nd_state'[n] = "valid" THEN 1 ELSE 0)
                                   + Cardinality(HooksOf(n)') + NodeUses(stack', n)
    BY DEF NodeRefsExact
  <2>1. nd_refs'[n] = nrefs(n)
    BY <1>b
  <2>2. QED
    BY <1>2, <1>5, <2>1
<1>7. \A h \in Hook : Allocated(h) => hk_key[h] \in Key /\ hk_key[h].node \in Node
  BY <1>a DEF MemorySound, Key
<1>8. ASSUME NEW h \in Hook, NEW p \in hk_peers'[h]
      PROVE  /\ h \notin dead /\ p \notin dead /\ p \in Hook /\ h \in hk_peers'[p]
             /\ hs[h] = "valid" /\ hs[p] = "valid"
  <2>1. p \in Hook /\ h \in hk_peers'[p] /\ hs[h] = "valid"
    BY DEF NextPeers
  <2>2. hs[p] = "valid"
    BY <2>1 DEF NextPeers
  <2>3. p \in Holders(hk_peers', h) /\ h \in Holders(hk_peers', p)
    BY <2>1 DEF Holders
  <2>4. /\ Cardinality(Holders(hk_peers', h)) \in Nat \ {0}
        /\ Cardinality(Holders(hk_peers', p)) \in Nat \ {0}
    BY <2>3, HooksFinite, CardPositive
  <2>5. hr[h] # 0 /\ hr[p] # 0
    <3>1. HookUses(stack', h) \in Nat /\ HookUses(stack', p) \in Nat
      BY UsesNat DEF NextStack
    <3>2. /\ hr[h] = Cardinality(Holders(hk_peers', h)) + HookUses(stack', h)
          /\ hr[p] = Cardinality(Holders(hk_peers', p)) + HookUses(stack', p)
      BY <2>1 DEF HookCounts
    <3>3. QED
      BY <2>4, <3>1, <3>2
  <2>6. QED
    BY <1>c, <2>1, <2>2, <2>5
<1>9. ConnectionsSound'
  <2> SUFFICES ASSUME NEW h \in Hook, NEW p \in hk_peers'[h]
               PROVE /\ h \in hk_peers'[p]
                     /\ hk_key'[h].dir # hk_key'[p].dir
                     /\ hk_state'[h] = "valid" /\ nd_state'[hk_key'[h].node] = "valid"
    BY DEF ConnectionsSound
  <2>1. hk_key'[h] = hk_key[h] /\ hk_key'[p] = hk_key[p] /\ hk_state'[h] = "valid"
    BY <1>8, <1>b DEF NextPeers
  <2>2. hk_state[h] # "free"
    BY <1>8 DEF FlagsSound
  <2>3. hk_key[h].node \in Node
    BY <1>7, <2>2 DEF Allocated
  <2>4. QED
    <3>1. hk_key[h].dir # hk_key[p].dir /\ ns[hk_key[h].node] = "valid" /\ h \in hk_peers'[p]
      BY DEF NextPeers
    <3>2. QED
      BY <1>5, <2>1, <2>3, <3>1
<1>10. MemorySound'
  <2>1. ASSUME NEW h \in Hook, hk_state'[h] # "free"
        PROVE hk_key'[h] \in Key /\ hk_refs'[h] # 0 /\ nd_state'[hk_key'[h].node] = hk_state'[h]
    <3>1. hk_state[h] # "free" /\ h \notin dead /\ hk_key'[h] = hk_key[h] /\ hk_state'[h] = hs[h]
      BY <1>b, <1>d, <2>1
    <3>2. hk_key[h] \in Key /\ hk_key[h].node \in Node /\ hs[h] = ns[hk_key[h].node]
      BY <1>7, <3>1 DEF Allocated, FlagsSound
    <3>3. hr[h] # 0
      BY <1>c, <3>1
    <3> PICK n \in Node : n = hk_key[h].node
      BY <3>2
    <3>4. h \in HooksOf(n)'
      BY <1>1, <3>1, <3>2 DEF HooksOf, Allocated
    <3>5. Cardinality(HooksOf(n)') # 0
      <4>1. IsFiniteSet(HooksOf(n)')
        <5>1. HooksOf(n)' = HooksOf(n) \ dead
          BY <1>1, <3>2
        <5>2. IsFiniteSet(HooksOf(n))
          BY HooksFinite
        <5>3. IsFiniteSet(HooksOf(n) \ dead)
          BY <5>2, FS_Difference
        <5>4. QED
          BY <5>1, <5>3
      <4>2. QED
        BY <4>1, <3>4, CardPositive
    <3>6. nrefs(n) # 0
      <4>1. /\ Cardinality(HooksOf(n)') \in Nat /\ NodeUses(stack', n) \in Nat
            /\ nrefs(n) = (IF ns[n] = "valid" THEN 1 ELSE 0)
                          + Cardinality(HooksOf(n)') + NodeUses(stack', n)
        BY <1>2, <3>2
      <4> HIDE DEF nrefs
      <4>2. QED
        BY <3>5, <4>1
    <3>7. nd_state'[n] = ns[n]
      BY <1>b, <3>2, <3>6
    <3>8. QED
      BY <1>b, <3>1, <3>2, <3>3, <3>7
  <2>2. ASSUME NEW h \in Hook, hk_state'[h] = "free" PROVE hk_refs'[h] = 0
    BY <1>b, <1>c, <1>d, <2>2 DEF Allocated, HookCounts
  <2>3. ASSUME NEW n \in Node
        PROVE nd_state'[n] \in {"valid", "invalid"} <=> nd_refs'[n] # 0
    <3>1. nd_refs'[n] = nrefs(n)
      BY <1>b
    <3>2. CASE InNodelist(n)
      <4>1. ns[n] \in {"valid", "invalid"}
        BY <3>2 DEF InNodelist, FlagsSound
      <4>2. QED
        BY <1>b, <3>1, <3>2, <4>1
    <3>3. CASE ~InNodelist(n)
      <4>1. nr[n] = 0 /\ ns[n] = nd_state[n]
        BY <3>3 DEF InNodelist, FlagsSound, NodeCounts
      <4>2. nrefs(n) = 0
        BY <1>2, <4>1
      <4>3. QED
        BY <1>b, <3>1, <3>3, <4>1, <4>2 DEF InNodelist
    <3>4. QED
      BY <3>2, <3>3
  <2>4. \A i \in 1..Len(stack') : FrameSound(stack'[i])
    BY DEF NextStack
  <2>5. QED
    BY <2>1, <2>2, <2>3, <2>4 DEF MemorySound, Allocated, InNodelist, Depth, FrameSound
<1>11. NodesAre(ns)
  <2> HIDE DEF nrefs
  <2>1. \A n \in Node : InNodelist(n) => nd_state[n] # "unborn" /\ ns[n] # "unborn"
    BY DEF InNodelist, FlagsSound
  <2>2. QED
    BY <1>5, <1>b, <2>1 DEF NodesAre
<1>12. QED
  BY <1>3, <1>4, <1>6, <1>9, <1>10, <1>11 DEF GraphInv
-----------------------------------------------------------------------------
(* Facts of the invariant that every step uses.                            *)

\* The counts are numbers, and zero for what is not allocated.
LEMMA Counts ==
  ASSUME GraphInv
  PROVE  /\ \A h \in Hook :
              /\ hk_refs[h] \in Nat /\ HookUses(stack, h) \in Nat
              /\ Cardinality(Holders(hk_peers, h)) \in Nat
              /\ hk_refs[h] = Cardinality(Holders(hk_peers, h)) + HookUses(stack, h)
              /\ ~Allocated(h) => hk_refs[h] = 0
         /\ \A n \in Node :
              /\ nd_refs[n] \in Nat /\ NodeUses(stack, n) \in Nat
              /\ Cardinality(HooksOf(n)) \in Nat
              /\ nd_refs[n] = (IF nd_state[n] = "valid" THEN 1 ELSE 0)
                              + Cardinality(HooksOf(n)) + NodeUses(stack, n)
              /\ ~InNodelist(n) => nd_refs[n] = 0
<1>1. /\ stack \in Seq(Frame) /\ hk_refs \in [Hook -> Nat] /\ nd_refs \in [Node -> Nat]
      /\ HookRefsExact /\ NodeRefsExact /\ MemorySound
  BY DEF GraphInv, TypeOK
<1>2. \A x : HookUses(stack, x) \in Nat /\ NodeUses(stack, x) \in Nat
  BY <1>1, UsesNat
<1>3. \A x : Cardinality(Holders(hk_peers, x)) \in Nat /\ Cardinality(HooksOf(x)) \in Nat
  BY HooksFinite
<1>4. QED
  BY <1>1, <1>2, <1>3 DEF HookRefsExact, NodeRefsExact, MemorySound

\* The flags and the lists as they are satisfy what Release asks for.
LEMMA FlagsNow ==
  ASSUME GraphInv
  PROVE  FlagsSound(nd_state, hk_state)
BY DEF GraphInv, MemorySound, FlagsSound

LEMMA PeersNow ==
  ASSUME GraphInv, UNCHANGED hk_peers
  PROVE  NextPeers(nd_state, hk_state)
BY DEF GraphInv, TypeOK, ConnectionsSound, NextPeers

\* Freed and unallocated memory is not referred to.
LEMMA Unreferenced ==
  ASSUME GraphInv
  PROVE  /\ \A h \in Hook : ~Allocated(h) =>
              /\ Holders(hk_peers, h) = {} /\ hk_peers[h] = {}
              /\ \A i \in 1..Len(stack) : stack[i].hook # h
         /\ \A n \in Node : ~InNodelist(n) =>
              HooksOf(n) = {} /\ \A i \in 1..Len(stack) : stack[i].node # n
<1>0. stack \in Seq(Frame)
  BY DEF GraphInv, TypeOK
<1>1. ASSUME NEW h \in Hook, ~Allocated(h)
      PROVE  Holders(hk_peers, h) = {} /\ HookUses(stack, h) = 0
  <2>1. Cardinality(Holders(hk_peers, h)) = 0 /\ HookUses(stack, h) = 0
    BY <1>1, Counts
  <2>2. QED
    BY <2>1, HooksFinite, CardPositive
<1>2. ASSUME NEW n \in Node, ~InNodelist(n)
      PROVE  HooksOf(n) = {} /\ NodeUses(stack, n) = 0
  <2>1. Cardinality(HooksOf(n)) = 0 /\ NodeUses(stack, n) = 0
    BY <1>2, Counts
  <2>2. QED
    BY <2>1, HooksFinite, CardPositive
<1>3. \A h \in Hook : ~Allocated(h) => hk_peers[h] = {}
  BY DEF GraphInv, TypeOK, ConnectionsSound, Allocated
<1>4. QED
  BY <1>0, <1>1, <1>2, <1>3, UsesNat

\* The top frame: what it uses is allocated, and popping it gives it back.
LEMMA TopFrame ==
  ASSUME GraphInv, stack # <<>>
  PROVE  /\ Top \in Frame /\ FrameSound(Top)
         /\ Below \in Seq(Frame) /\ \A i \in 1..Len(Below) : FrameSound(Below[i])
         /\ \A x : /\ HookUses(Below, x) \in Nat /\ NodeUses(Below, x) \in Nat
                   /\ HookUses(stack, x) = HookUses(Below, x) + (IF Top.hook = x THEN 1 ELSE 0)
                   /\ NodeUses(stack, x) = NodeUses(Below, x) + (IF Top.node = x THEN 1 ELSE 0)
<1>1. stack \in Seq(Frame) /\ \A i \in 1..Len(stack) : FrameSound(stack[i])
  BY DEF GraphInv, TypeOK, MemorySound, Depth
<1>2. Len(stack) \in 1..Len(stack)
  BY <1>1
<1>3. /\ Below \in Seq(Frame) /\ Top \in Frame
      /\ Len(Below) = Len(stack) - 1 /\ \A i \in 1..Len(Below) : Below[i] = stack[i]
      /\ \A x : /\ HookUses(stack, x) = HookUses(Below, x) + (IF Top.hook = x THEN 1 ELSE 0)
                /\ NodeUses(stack, x) = NodeUses(Below, x) + (IF Top.node = x THEN 1 ELSE 0)
  BY <1>1, UsesPop DEF Below, Top, Depth
<1>4. FrameSound(Top)
  BY <1>1, <1>2 DEF Top, Depth
<1>5. \A i \in 1..Len(Below) : i \in 1..Len(stack)
  BY <1>1, <1>3
<1>6. QED
  BY <1>1, <1>3, <1>4, <1>5, UsesNat

\* dmm_data_send and dmm_data_passtohook give back the hook they held.
LEMMA ReturnHookInv ==
  ASSUME GraphInv, ReturnHook
  PROVE  GraphInv' /\ NodesAre(nd_state)
<1> DEFINE hr == [hk_refs EXCEPT ![Top.hook] = @ - 1]
<1>1. /\ Top.hook \in Hook /\ Top.node \notin Node /\ stack' = Below /\ hk_peers' = hk_peers
      /\ Release(hr, nd_refs, nd_state, hk_state)
  BY TopFrame, GraphAssumption DEF ReturnHook, FrameSound
<1>2. /\ hk_refs \in [Hook -> Nat] /\ nd_refs \in [Node -> Nat]
      /\ nd_state \in [Node -> NodeState] /\ hk_state \in [Hook -> HookState]
  BY DEF GraphInv, TypeOK, NodeState, HookState
<1>3. NextStack
  BY <1>1, TopFrame DEF ReturnHook, NextStack
<1>4. ASSUME NEW h \in Hook
      PROVE /\ hr[h] \in Nat /\ hr[h] = Cardinality(Holders(hk_peers, h)) + HookUses(Below, h)
            /\ ~Allocated(h) => hr[h] = 0
  <2>1. hr[h] = hk_refs[h] - (IF Top.hook = h THEN 1 ELSE 0)
    BY <1>1, <1>2
  <2>2. /\ HookUses(Below, h) \in Nat
        /\ HookUses(stack, h) = HookUses(Below, h) + (IF Top.hook = h THEN 1 ELSE 0)
    BY TopFrame DEF ReturnHook
  <2>3. /\ Cardinality(Holders(hk_peers, h)) \in Nat /\ HookUses(stack, h) \in Nat
        /\ hk_refs[h] = Cardinality(Holders(hk_peers, h)) + HookUses(stack, h)
        /\ ~Allocated(h) => hk_refs[h] = 0
    BY Counts
  <2> HIDE DEF hr
  <2>4. QED
    BY <2>1, <2>2, <2>3
<1>5. hr \in [Hook -> Nat]
  BY <1>2, <1>4
<1>6. HookCounts(hr)
  BY <1>1, <1>4 DEF HookCounts
<1>7. NodeCounts(nd_refs, nd_state)
  <2> SUFFICES ASSUME NEW n \in Node
               PROVE  NodeUses(Below, n) = NodeUses(stack, n)
    BY <1>1, Counts DEF NodeCounts
  <2>1. /\ NodeUses(Below, n) \in Nat
        /\ NodeUses(stack, n) = NodeUses(Below, n) + (IF Top.node = n THEN 1 ELSE 0)
    BY TopFrame DEF ReturnHook
  <2>2. QED
    BY <1>1, <2>1
<1> HIDE DEF hr
<1>8. QED
  BY <1>1, <1>2, <1>3, <1>5, <1>6, <1>7, FlagsNow, PeersNow, ReleaseKeepsInv

\* dmm_msg_apply gives back the node it held.
LEMMA ReturnNodeInv ==
  ASSUME GraphInv, ReturnNode
  PROVE  GraphInv' /\ NodesAre(nd_state)
<1> DEFINE nr == [nd_refs EXCEPT ![Top.node] = @ - 1]
<1>1. /\ Top.node \in Node /\ Top.hook \notin Hook /\ stack' = Below /\ hk_peers' = hk_peers
      /\ Release(hk_refs, nr, nd_state, hk_state)
  BY TopFrame, GraphAssumption DEF ReturnNode, FrameSound
<1>2. /\ hk_refs \in [Hook -> Nat] /\ nd_refs \in [Node -> Nat]
      /\ nd_state \in [Node -> NodeState] /\ hk_state \in [Hook -> HookState]
  BY DEF GraphInv, TypeOK, NodeState, HookState
<1>3. NextStack
  BY <1>1, TopFrame DEF ReturnNode, NextStack
<1>4. ASSUME NEW n \in Node
      PROVE /\ nr[n] \in Nat
            /\ nr[n] = (IF nd_state[n] = "valid" THEN 1 ELSE 0)
                       + Cardinality(HooksOf(n)) + NodeUses(Below, n)
            /\ ~InNodelist(n) => nr[n] = 0
  <2>1. nr[n] = nd_refs[n] - (IF Top.node = n THEN 1 ELSE 0)
    BY <1>1, <1>2
  <2>2. /\ NodeUses(Below, n) \in Nat
        /\ NodeUses(stack, n) = NodeUses(Below, n) + (IF Top.node = n THEN 1 ELSE 0)
    BY TopFrame DEF ReturnNode
  <2>3. /\ Cardinality(HooksOf(n)) \in Nat /\ NodeUses(stack, n) \in Nat
        /\ nd_refs[n] = (IF nd_state[n] = "valid" THEN 1 ELSE 0)
                        + Cardinality(HooksOf(n)) + NodeUses(stack, n)
        /\ ~InNodelist(n) => nd_refs[n] = 0
    BY Counts
  <2> HIDE DEF nr
  <2>4. QED
    BY <2>1, <2>2, <2>3
<1>5. nr \in [Node -> Nat]
  BY <1>2, <1>4
<1>6. NodeCounts(nr, nd_state)
  BY <1>1, <1>4 DEF NodeCounts
<1>7. HookCounts(hk_refs)
  <2> SUFFICES ASSUME NEW h \in Hook
               PROVE  HookUses(Below, h) = HookUses(stack, h)
    BY <1>1, Counts DEF HookCounts
  <2>1. /\ HookUses(Below, h) \in Nat
        /\ HookUses(stack, h) = HookUses(Below, h) + (IF Top.hook = h THEN 1 ELSE 0)
    BY TopFrame DEF ReturnNode
  <2>2. QED
    BY <1>1, <2>1
<1> HIDE DEF nr
<1>8. QED
  BY <1>1, <1>2, <1>3, <1>5, <1>6, <1>7, FlagsNow, PeersNow, ReleaseKeepsInv
-----------------------------------------------------------------------------
(* Calls: the reference a function takes on entry is the use its frame is. *)

\* The invariant only looks at the hooks and nodes that the frames use.
LEMMA CallKeepsInv ==
  ASSUME GraphInv, NextStack,
         UNCHANGED <<nd_state, hk_state, hk_key, hk_peers>>,
         hk_refs' \in [Hook -> Nat], nd_refs' \in [Node -> Nat],
         \A h \in Hook : /\ hk_refs'[h] = Cardinality(Holders(hk_peers, h)) + HookUses(stack', h)
                         /\ hk_refs'[h] # 0 <=> hk_refs[h] # 0,
         \A n \in Node : /\ nd_refs'[n] = (IF nd_state[n] = "valid" THEN 1 ELSE 0)
                                          + Cardinality(HooksOf(n)) + NodeUses(stack', n)
                         /\ nd_refs'[n] # 0 <=> nd_refs[n] # 0
  PROVE  GraphInv'
<1>1. TypeOK'
  BY DEF GraphInv, TypeOK, NextStack
<1>2. \A n \in Node : HooksOf(n)' = HooksOf(n)
  BY DEF HooksOf, Allocated
<1>3. HookRefsExact' /\ NodeRefsExact'
  BY <1>2 DEF HookRefsExact, NodeRefsExact
<1>4. ConnectionsSound'
  BY DEF GraphInv, ConnectionsSound
<1>5. MemorySound'
  BY DEF GraphInv, MemorySound, NextStack, Allocated, InNodelist, Depth, FrameSound
<1>6. QED
  BY <1>1, <1>3, <1>4, <1>5 DEF GraphInv

\* A push of one sound frame, seen from the counts.
LEMMA Push ==
  ASSUME GraphInv, NEW st \in Seq(Frame), \A i \in 1..Len(st) : FrameSound(st[i]),
         NEW f \in Frame, FrameSound(f)
  PROVE  /\ Append(st, f) \in Seq(Frame)
         /\ \A i \in 1..Len(Append(st, f)) : FrameSound(Append(st, f)[i])
         /\ \A x : /\ HookUses(Append(st, f), x) = HookUses(st, x) + (IF f.hook = x THEN 1 ELSE 0)
                   /\ NodeUses(Append(st, f), x) = NodeUses(st, x) + (IF f.node = x THEN 1 ELSE 0)
<1>1. /\ Len(Append(st, f)) = Len(st) + 1 /\ Append(st, f)[Len(st) + 1] = f
      /\ \A i \in 1..Len(st) : Append(st, f)[i] = st[i]
  OBVIOUS
<1>2. \A i \in 1..Len(Append(st, f)) : i \in 1..Len(st) \/ i = Len(st) + 1
  BY <1>1
<1>3. QED
  BY <1>1, <1>2, UsesPush

LEMMA FrameTypes ==
  ASSUME GraphInv
  PROVE  /\ \A n \in Node : /\ RunFrame(n) \in Frame /\ HoldFrame(n) \in Frame
                            /\ FrameSound(RunFrame(n)) /\ FrameSound(HoldFrame(n))
                            /\ RunFrame(n).node = n /\ RunFrame(n).hook = NoHook
                            /\ HoldFrame(n).node = n /\ HoldFrame(n).hook = NoHook
         /\ \A h \in Hook : /\ RcvFrame(h) \in Frame /\ SendFrame(h) \in Frame
                            /\ FrameSound(RcvFrame(h)) /\ FrameSound(SendFrame(h))
                            /\ RcvFrame(h).node = NoNode /\ RcvFrame(h).hook = h
                            /\ SendFrame(h).node = NoNode /\ SendFrame(h).hook = h
<1>1. hk_peers \in [Hook -> SUBSET Hook]
  BY DEF GraphInv, TypeOK
<1>2. QED
  BY <1>1 DEF Frame, FrameSound, RunFrame, HoldFrame, RcvFrame, SendFrame

\* The stack holds sound frames.
LEMMA StackNow ==
  ASSUME GraphInv
  PROVE  stack \in Seq(Frame) /\ \A i \in 1..Len(stack) : FrameSound(stack[i])
BY DEF GraphInv, TypeOK, MemorySound, Depth

\* dmm_msg_apply holds the node.
LEMMA WakeInv ==
  ASSUME GraphInv, NEW n \in Node, Wake(n)
  PROVE  GraphInv'
<1>1. /\ stack' = Append(stack, RunFrame(n)) /\ nd_state[n] = "valid"
      /\ nd_refs' = [nd_refs EXCEPT ![n] = @ + 1]
      /\ UNCHANGED <<nd_state, hk_state, hk_key, hk_refs, hk_peers>>
  BY DEF Wake
<1>2. /\ NextStack
      /\ \A x : /\ HookUses(stack', x) = HookUses(stack, x) + (IF NoHook = x THEN 1 ELSE 0)
                /\ NodeUses(stack', x) = NodeUses(stack, x) + (IF n = x THEN 1 ELSE 0)
  BY <1>1, Push, StackNow, FrameTypes DEF NextStack
<1>3. hk_refs \in [Hook -> Nat] /\ nd_refs \in [Node -> Nat]
  BY DEF GraphInv, TypeOK
<1>4. ASSUME NEW h \in Hook
      PROVE hk_refs'[h] = Cardinality(Holders(hk_peers, h)) + HookUses(stack', h)
  <2>1. HookUses(stack', h) = HookUses(stack, h)
    <3>1. NoHook # h /\ HookUses(stack, h) \in Nat
      BY Counts, GraphAssumption
    <3>2. QED
      BY <1>2, <3>1
  <2>2. QED
    BY <1>1, <2>1, Counts
<1>5. ASSUME NEW m \in Node
      PROVE /\ nd_refs'[m] \in Nat
            /\ nd_refs'[m] = (IF nd_state[m] = "valid" THEN 1 ELSE 0)
                             + Cardinality(HooksOf(m)) + NodeUses(stack', m)
            /\ nd_refs'[m] # 0 <=> nd_refs[m] # 0
  <2>1. nd_refs'[m] = nd_refs[m] + (IF n = m THEN 1 ELSE 0)
    BY <1>1, <1>3
  <2>2. NodeUses(stack', m) = NodeUses(stack, m) + (IF n = m THEN 1 ELSE 0)
    BY <1>2
  <2>3. /\ nd_refs[m] \in Nat /\ Cardinality(HooksOf(m)) \in Nat /\ NodeUses(stack, m) \in Nat
        /\ nd_refs[m] = (IF nd_state[m] = "valid" THEN 1 ELSE 0)
                        + Cardinality(HooksOf(m)) + NodeUses(stack, m)
    BY Counts
  <2>4. CASE n = m
    <3>1. nd_refs[m] # 0
      BY <1>1, <2>3, <2>4
    <3>2. nd_refs'[m] = nd_refs[m] + 1 /\ NodeUses(stack', m) = NodeUses(stack, m) + 1
      BY <2>1, <2>2, <2>4
    <3>3. QED
      BY <2>3, <3>1, <3>2
  <2>5. CASE n # m
    BY <2>1, <2>2, <2>3, <2>5
  <2>6. QED
    BY <2>4, <2>5
<1>6. nd_refs' \in [Node -> Nat]
  BY <1>1, <1>3
<1>7. QED
  BY <1>1, <1>2, <1>3, <1>4, <1>5, <1>6, CallKeepsInv

\* Pushing a frame that holds hook x, onto a stack with the uses of the
\* present one, and counting the reference it takes.
LEMMA HoldHookInv ==
  ASSUME GraphInv, NEW x \in Hook, Allocated(x),
         NEW st \in Seq(Frame), \A i \in 1..Len(st) : FrameSound(st[i]),
         \A y : HookUses(st, y) = HookUses(stack, y) /\ NodeUses(st, y) = NodeUses(stack, y),
         NEW f \in Frame, FrameSound(f), f.hook = x, f.node = NoNode,
         stack' = Append(st, f), hk_refs' = [hk_refs EXCEPT ![x] = @ + 1],
         UNCHANGED <<nd_state, nd_refs, hk_state, hk_key, hk_peers>>
  PROVE  GraphInv'
<1>1. /\ NextStack
      /\ \A y : /\ HookUses(stack', y) = HookUses(stack, y) + (IF x = y THEN 1 ELSE 0)
                /\ NodeUses(stack', y) = NodeUses(stack, y) + (IF NoNode = y THEN 1 ELSE 0)
  BY Push DEF NextStack
<1>2. hk_refs \in [Hook -> Nat] /\ nd_refs \in [Node -> Nat] /\ hk_refs[x] # 0
  BY DEF GraphInv, TypeOK, MemorySound
<1>3. ASSUME NEW h \in Hook
      PROVE /\ hk_refs'[h] = Cardinality(Holders(hk_peers, h)) + HookUses(stack', h)
            /\ hk_refs'[h] # 0 <=> hk_refs[h] # 0
  <2>1. hk_refs'[h] = hk_refs[h] + (IF x = h THEN 1 ELSE 0)
    BY <1>2
  <2>2. HookUses(stack', h) = HookUses(stack, h) + (IF x = h THEN 1 ELSE 0)
    BY <1>1
  <2>3. /\ hk_refs[h] \in Nat /\ HookUses(stack, h) \in Nat
        /\ Cardinality(Holders(hk_peers, h)) \in Nat
        /\ hk_refs[h] = Cardinality(Holders(hk_peers, h)) + HookUses(stack, h)
    BY Counts
  <2>4. QED
    BY <1>2, <2>1, <2>2, <2>3
<1>4. ASSUME NEW n \in Node
      PROVE  nd_refs'[n] = (IF nd_state[n] = "valid" THEN 1 ELSE 0)
                           + Cardinality(HooksOf(n)) + NodeUses(stack', n)
  <2>1. NodeUses(stack', n) = NodeUses(stack, n)
    <3>1. NoNode # n /\ NodeUses(stack, n) \in Nat
      BY Counts, GraphAssumption
    <3>2. QED
      BY <1>1, <3>1
  <2>2. QED
    BY <2>1, Counts
<1>5. hk_refs' \in [Hook -> Nat]
  BY <1>2
<1>6. QED
  BY <1>1, <1>2, <1>3, <1>4, <1>5, CallKeepsInv

LEMMA DataSendInv ==
  ASSUME GraphInv, NEW n \in Node, NEW h \in Hook, DataSend(n, h)
  PROVE  GraphInv'
<1>1. /\ Allocated(h) /\ stack' = Append(stack, SendFrame(h))
      /\ hk_refs' = [hk_refs EXCEPT ![h] = @ + 1]
      /\ UNCHANGED <<nd_state, nd_refs, hk_state, hk_key, hk_peers>>
  BY DEF DataSend, HooksOf
<1>2. QED
  BY <1>1, HoldHookInv, StackNow, FrameTypes

\* The loop of dmm_data_send moves on, and calls the next peer or skips it.
LEMMA DeliverInv ==
  ASSUME GraphInv, NEW p \in Hook, Deliver(p)
  PROVE  GraphInv'
<1> DEFINE f == Advanced(Top, p)
           moved == [stack EXCEPT ![Depth] = f]
<1>1. stack \in Seq(Frame) /\ \A i \in 1..Len(stack) : FrameSound(stack[i])
  BY StackNow
<1>2. Depth \in 1..Len(stack) /\ stack # <<>> /\ Top.kind = "send"
  BY <1>1 DEF Deliver, Depth
<1>3. f \in Frame /\ f.hook = stack[Depth].hook /\ f.node = stack[Depth].node /\ FrameSound(f)
  <2>1. Top \in Frame /\ FrameSound(Top)
    BY <1>2, TopFrame
  <2>2. QED
    BY <1>2, <2>1 DEF Frame, FrameSound, Top, Advanced
<1>4. moved = [stack EXCEPT ![Depth] = f]
  BY DEF moved
<1> HIDE DEF f, moved
<1>5. /\ moved \in Seq(Frame) /\ Len(moved) = Len(stack)
      /\ \A i \in 1..Len(moved) : moved[i] = IF i = Depth THEN f ELSE stack[i]
  BY <1>1, <1>2, <1>3, <1>4
<1>a. \A i \in 1..Len(stack) : /\ moved[i].hook = stack[i].hook /\ moved[i].node = stack[i].node
                               /\ FrameSound(moved[i])
  BY <1>1, <1>2, <1>3, <1>5
<1>6. \A y : HookUses(moved, y) = HookUses(stack, y) /\ NodeUses(moved, y) = NodeUses(stack, y)
  BY <1>1, <1>5, <1>a, UsesSame
<1>7. CASE hk_state[p] = "valid" /\ hk_key[p].node \in Sink
  <2>1. /\ stack' = Append(moved, RcvFrame(p)) /\ hk_refs' = [hk_refs EXCEPT ![p] = @ + 1]
        /\ UNCHANGED <<nd_state, nd_refs, hk_state, hk_key, hk_peers>>
    BY <1>7 DEF Deliver, moved, f
  <2>2. Allocated(p)
    BY <1>7 DEF Allocated
  <2>3. QED
    BY <1>5, <1>a, <1>6, <2>1, <2>2, HoldHookInv, FrameTypes
<1>8. CASE ~(hk_state[p] = "valid" /\ hk_key[p].node \in Sink)
  <2>1. stack' = moved /\ UNCHANGED <<nd_state, nd_refs, hk_state, hk_key, hk_peers, hk_refs>>
    BY <1>8 DEF Deliver, moved, f
  <2>2. NextStack
    BY <1>5, <1>a, <2>1 DEF NextStack
  <2>3. hk_refs' \in [Hook -> Nat] /\ nd_refs' \in [Node -> Nat]
    BY <2>1 DEF GraphInv, TypeOK
  <2>4. \A h \in Hook : hk_refs'[h] = Cardinality(Holders(hk_peers, h)) + HookUses(stack', h)
    BY <1>6, <2>1, Counts
  <2>5. \A n \in Node : nd_refs'[n] = (IF nd_state[n] = "valid" THEN 1 ELSE 0)
                                      + Cardinality(HooksOf(n)) + NodeUses(stack', n)
    BY <1>6, <2>1, Counts
  <2>6. QED
    BY <2>1, <2>2, <2>3, <2>4, <2>5, CallKeepsInv
<1>9. QED
  BY <1>7, <1>8
-----------------------------------------------------------------------------
(* Commands: the response pushes two frames, which hold t and a.           *)

\* The stack a command leaves, and what it uses.
LEMMA Responds ==
  ASSUME GraphInv, NEW a \in Node, NEW t \in Node, NEW ns,
         NEW frames \in Seq(Frame), \A i \in 1..Len(frames) : FrameSound(frames[i]),
         \A x : HookUses(frames, x) = HookUses(stack, x) /\ NodeUses(frames, x) = NodeUses(stack, x),
         stack' = StackAfter(a, t, ns, frames)
  PROVE  /\ NextStack
         /\ \A h \in Hook : HookUses(stack', h) = HookUses(stack, h)
         /\ \A n \in Node : /\ NodeUses(stack', n) \in Nat /\ NodeUses(stack, n) \in Nat
                            /\ NodeUses(stack', n)
                                 = NodeUses(stack, n) + (IF Answered(a, ns) THEN Held(a, t)[n] ELSE 0)
<1>0. \A x : HookUses(stack, x) \in Nat /\ NodeUses(stack, x) \in Nat
  BY StackNow, UsesNat
<1>1. CASE ~Answered(a, ns)
  <2>1. stack' = frames
    BY <1>1 DEF StackAfter
  <2>2. \A n \in Node : NodeUses(stack', n) = NodeUses(stack, n) + 0
    BY <1>0, <2>1
  <2>3. QED
    BY <1>0, <1>1, <2>1, <2>2 DEF NextStack
<1>2. CASE Answered(a, ns)
  <2> DEFINE held == Append(frames, HoldFrame(t))
  <2>1. stack' = Append(held, RunFrame(a))
    BY <1>2 DEF StackAfter
  <2>2. /\ held \in Seq(Frame) /\ \A i \in 1..Len(held) : FrameSound(held[i])
        /\ \A x : /\ HookUses(held, x) = HookUses(frames, x) + (IF NoHook = x THEN 1 ELSE 0)
                  /\ NodeUses(held, x) = NodeUses(frames, x) + (IF t = x THEN 1 ELSE 0)
    BY Push, FrameTypes
  <2> HIDE DEF held
  <2>3. /\ NextStack
        /\ \A x : /\ HookUses(stack', x) = HookUses(held, x) + (IF NoHook = x THEN 1 ELSE 0)
                  /\ NodeUses(stack', x) = NodeUses(held, x) + (IF a = x THEN 1 ELSE 0)
    <3>1. /\ RunFrame(a) \in Frame /\ FrameSound(RunFrame(a))
          /\ RunFrame(a).node = a /\ RunFrame(a).hook = NoHook
      BY FrameTypes
    <3> DEFINE r == RunFrame(a)
    <3>2. stack' = Append(held, r)
      BY <2>1
    <3> HIDE DEF r
    <3>3. /\ r \in Frame /\ FrameSound(r) /\ r.node = a /\ r.hook = NoHook
      BY <3>1 DEF r
    <3>4. /\ Append(held, r) \in Seq(Frame)
          /\ \A i \in 1..Len(Append(held, r)) : FrameSound(Append(held, r)[i])
          /\ \A x : /\ HookUses(Append(held, r), x) = HookUses(held, x) + (IF r.hook = x THEN 1 ELSE 0)
                    /\ NodeUses(Append(held, r), x) = NodeUses(held, x) + (IF r.node = x THEN 1 ELSE 0)
      BY <2>2, <3>3, Push
    <3>5. QED
      BY <3>2, <3>3, <3>4 DEF NextStack
  <2>4. ASSUME NEW h \in Hook PROVE HookUses(stack', h) = HookUses(stack, h)
    <3>1. NoHook # h
      BY GraphAssumption
    <3>2. QED
      BY <1>0, <2>2, <2>3, <3>1
  <2>5. ASSUME NEW n \in Node
        PROVE  NodeUses(stack', n) \in Nat /\ NodeUses(stack', n) = NodeUses(stack, n) + Held(a, t)[n]
    <3>1. Held(a, t)[n] = (IF n = a THEN 1 ELSE 0) + (IF n = t THEN 1 ELSE 0)
      BY DEF Held
    <3>2. /\ NodeUses(stack', n) = NodeUses(held, n) + (IF a = n THEN 1 ELSE 0)
          /\ NodeUses(held, n) = NodeUses(stack, n) + (IF t = n THEN 1 ELSE 0)
          /\ NodeUses(stack, n) \in Nat
      BY <1>0, <2>2, <2>3
    <3>3. QED
      BY <3>1, <3>2
  <2>6. QED
    BY <1>0, <1>2, <2>3, <2>4, <2>5
<1>3. QED
  BY <1>1, <1>2

\* The counts of nodes grow by what the frames of the response hold.
LEMMA RespondsCounts ==
  ASSUME NEW a \in Node, NEW t \in Node, NEW ns, NEW nr \in [Node -> Nat], NEW n \in Node
  PROVE  /\ Held(a, t)[n] \in Nat
         /\ Held(a, t)[n] = 0 <=> n # a /\ n # t
         /\ NodeRefsAfter(a, t, ns, nr)[n]
              = nr[n] + (IF Answered(a, ns) THEN Held(a, t)[n] ELSE 0)
<1>1. Held(a, t)[n] = (IF n = a THEN 1 ELSE 0) + (IF n = t THEN 1 ELSE 0)
  BY DEF Held
<1>2. nr[n] \in Nat
  OBVIOUS
<1>3. NodeRefsAfter(a, t, ns, nr)[n] = nr[n] + (IF Answered(a, ns) THEN Held(a, t)[n] ELSE 0)
  BY <1>1, <1>2 DEF NodeRefsAfter
<1>4. QED
  BY <1>1, <1>3

LEMMA NodeRefsAfterType ==
  ASSUME NEW a, NEW t, NEW ns, NEW nr \in [Node -> Nat]
  PROVE  NodeRefsAfter(a, t, ns, nr) \in [Node -> Nat]
<1>1. \A n \in Node : Held(a, t)[n] \in Nat /\ nr[n] \in Nat
  BY DEF Held
<1>2. QED
  BY <1>1 DEF NodeRefsAfter

\* Commands that release references leave the counts NodeCounts asks for.
LEMMA CommandNodeCounts ==
  ASSUME GraphInv, NEW a \in Node, NEW t \in Node, NEW ns, NEW nr \in [Node -> Nat],
         nd_state[t] = "valid", ns[a] = "valid" => nd_state[a] = "valid",
         \A n \in Node : /\ nr[n] = (IF ns[n] = "valid" THEN 1 ELSE 0)
                                    + Cardinality(HooksOf(n)) + NodeUses(stack, n)
                         /\ ~InNodelist(n) => nr[n] = 0,
         \A n \in Node : /\ NodeUses(stack', n) \in Nat
                         /\ NodeUses(stack', n)
                              = NodeUses(stack, n) + (IF Answered(a, ns) THEN Held(a, t)[n] ELSE 0)
  PROVE  NodeCounts(NodeRefsAfter(a, t, ns, nr), ns)
<1> SUFFICES ASSUME NEW n \in Node
             PROVE  /\ ~InNodelist(n) => NodeRefsAfter(a, t, ns, nr)[n] = 0
                    /\ NodeRefsAfter(a, t, ns, nr)[n]
                         = (IF ns[n] = "valid" THEN 1 ELSE 0)
                           + Cardinality(HooksOf(n)) + NodeUses(stack', n)
  BY DEF NodeCounts
<1> DEFINE base == (IF ns[n] = "valid" THEN 1 ELSE 0) + Cardinality(HooksOf(n))
           after == NodeRefsAfter(a, t, ns, nr)[n]
<1>1. base \in Nat /\ NodeUses(stack, n) \in Nat /\ NodeUses(stack', n) \in Nat
  BY Counts
<1>2. nr[n] = base + NodeUses(stack, n) /\ (~InNodelist(n) => nr[n] = 0)
  OBVIOUS
<1>3. NodeUses(stack', n) = NodeUses(stack, n) + (IF Answered(a, ns) THEN Held(a, t)[n] ELSE 0)
  OBVIOUS
<1> DEFINE held == Held(a, t)[n]
<1>4. /\ held \in Nat
      /\ held = 0 <=> n # a /\ n # t
      /\ after = nr[n] + (IF Answered(a, ns) THEN held ELSE 0)
  BY RespondsCounts
<1>a. NodeUses(stack', n) = NodeUses(stack, n) + (IF Answered(a, ns) THEN held ELSE 0)
  BY <1>3
<1> HIDE DEF base, held, after
<1>b. /\ after = base + NodeUses(stack', n)
      /\ after = 0 <=> nr[n] = 0 /\ (Answered(a, ns) => held = 0)
  BY <1>1, <1>2, <1>a, <1>4
<1>5. ~InNodelist(n) => (Answered(a, ns) => n # a /\ n # t)
  BY DEF InNodelist, Answered
<1>6. ~InNodelist(n) => after = 0
  BY <1>2, <1>4, <1>5, <1>b
<1>7. QED
  BY <1>b, <1>6 DEF base, after
-----------------------------------------------------------------------------
(* NODEDISCONNECT and NODERM: removing list cells on both sides.           *)

\* Cells that are in the lists, each with its mirror image.
CellsSound(cells) ==
  \A c \in cells : /\ c \in Hook \X Hook /\ c[2] \in hk_peers[c[1]]
                   /\ <<c[2], c[1]>> \in cells

\* Removing them takes exactly the references they hold.
LEMMA CutCounts ==
  ASSUME GraphInv, NEW cells, CellsSound(cells), hk_peers' = PeersWithout(cells),
         \A h \in Hook : HookUses(stack', h) = HookUses(stack, h)
  PROVE  RefsWithout(cells) \in [Hook -> Nat] /\ HookCounts(RefsWithout(cells))
<1>1. ASSUME NEW h \in Hook
      PROVE  /\ RefsWithout(cells)[h] \in Nat
             /\ RefsWithout(cells)[h] = Cardinality(Holders(hk_peers', h)) + HookUses(stack', h)
             /\ ~Allocated(h) => RefsWithout(cells)[h] = 0
  <2> DEFINE old  == Holders(hk_peers, h)
             lost == {x \in Hook : <<x, h>> \in cells}
             new  == Holders(hk_peers', h)
  <2>1. lost \subseteq old /\ new = old \ lost
    BY DEF CellsSound, Holders, PeersWithout
  <2>2. RefsWithout(cells)[h] = hk_refs[h] - Cardinality(lost)
    BY DEF RefsWithout
  <2>3. IsFiniteSet(old)
    BY HooksFinite
  <2>4. /\ hk_refs[h] \in Nat /\ HookUses(stack, h) \in Nat
        /\ hk_refs[h] = Cardinality(old) + HookUses(stack, h)
        /\ ~Allocated(h) => hk_refs[h] = 0
    BY Counts
  <2> HIDE DEF old, lost, new
  <2>5. /\ Cardinality(old) \in Nat /\ Cardinality(lost) \in Nat /\ Cardinality(new) \in Nat
        /\ Cardinality(new) = Cardinality(old) - Cardinality(lost)
    BY <2>1, <2>3, CardSplit
  <2>6. HookUses(stack', h) = HookUses(stack, h)
    OBVIOUS
  <2>7. QED
    BY <2>2, <2>4, <2>5, <2>6 DEF new
<1>2. RefsWithout(cells) = [h \in Hook |-> RefsWithout(cells)[h]]
  BY DEF RefsWithout
<1>3. QED
  BY <1>1, <1>2 DEF HookCounts

\* What is left is as symmetric as it was, and its hooks are as valid.
LEMMA CutPeers ==
  ASSUME GraphInv, NEW cells, CellsSound(cells), hk_peers' = PeersWithout(cells),
         NEW ns, NEW hs,
         \A h \in Hook : \A p \in hk_peers[h] : <<h, p>> \notin cells =>
            hs[h] = hk_state[h] /\ ns[hk_key[h].node] = nd_state[hk_key[h].node]
  PROVE  NextPeers(ns, hs)
<1>1. hk_peers \in [Hook -> SUBSET Hook] /\ ConnectionsSound
  BY DEF GraphInv, TypeOK
<1>2. hk_peers' \in [Hook -> SUBSET Hook]
  BY <1>1 DEF PeersWithout
<1>3. ASSUME NEW h \in Hook, NEW p \in hk_peers'[h]
      PROVE  /\ h \in hk_peers'[p] /\ hk_key[h].dir # hk_key[p].dir
             /\ hs[h] = "valid" /\ ns[hk_key[h].node] = "valid"
  <2>1. p \in hk_peers[h] /\ <<h, p>> \notin cells /\ p \in Hook
    BY <1>1 DEF PeersWithout
  <2>2. <<p, h>> \notin cells
    BY <2>1 DEF CellsSound
  <2>3. h \in hk_peers[p] /\ hk_key[h].dir # hk_key[p].dir
    BY <1>1, <2>1 DEF ConnectionsSound
  <2>4. hk_state[h] = "valid" /\ nd_state[hk_key[h].node] = "valid"
    BY <1>1, <2>1 DEF ConnectionsSound
  <2>5. QED
    BY <2>1, <2>2, <2>3, <2>4 DEF PeersWithout
<1>4. QED
  BY <1>2, <1>3 DEF NextPeers

\* Cursors that lose a cell still belong to sound frames with the same uses.
LEMMA UnlinkedUses ==
  ASSUME GraphInv, NEW cells
  PROVE  /\ Unlinked(stack, cells) \in Seq(Frame)
         /\ \A i \in 1..Len(Unlinked(stack, cells)) : FrameSound(Unlinked(stack, cells)[i])
         /\ \A x : /\ HookUses(Unlinked(stack, cells), x) = HookUses(stack, x)
                   /\ NodeUses(Unlinked(stack, cells), x) = NodeUses(stack, x)
<1> DEFINE su == Unlinked(stack, cells)
           g(i) == [stack[i] EXCEPT !.todo = {p \in @ : <<stack[i].hook, p>> \notin cells}]
<1>1. stack \in Seq(Frame) /\ \A i \in 1..Len(stack) : FrameSound(stack[i])
  BY StackNow
<1>2. DOMAIN stack = 1..Len(stack) /\ Len(stack) \in Nat
  BY <1>1
<1>3. su = [i \in 1..Len(stack) |-> g(i)]
  BY <1>2 DEF Unlinked
<1>4. ASSUME NEW i \in 1..Len(stack)
      PROVE  /\ g(i) \in Frame /\ g(i).hook = stack[i].hook /\ g(i).node = stack[i].node
             /\ FrameSound(g(i))
  <2>1. stack[i] \in Frame /\ FrameSound(stack[i])
    BY <1>1
  <2>2. QED
    BY <2>1 DEF Frame, FrameSound
<1> HIDE DEF g, su
<1>5. su \in Seq(Frame) /\ Len(su) = Len(stack)
  BY <1>2, <1>3, <1>4
<1>6. \A i \in 1..Len(stack) : su[i] = g(i)
  BY <1>3
<1>7. \A x : HookUses(su, x) = HookUses(stack, x) /\ NodeUses(su, x) = NodeUses(stack, x)
  BY <1>1, <1>4, <1>5, <1>6, UsesSame
<1>8. QED
  BY <1>4, <1>5, <1>6, <1>7 DEF su

LEMMA NodeDisconnectInv ==
  ASSUME GraphInv, NEW a \in Node, NEW t \in Node, NEW dst \in Node, NEW srchook, NEW dsthook,
         NEW s \in Hook, NEW d \in Hook, NodeDisconnect(a, t, dst, srchook, dsthook, s, d)
  PROVE  GraphInv' /\ NodesAre(nd_state)
<1> DEFINE cells == {<<s, d>>, <<d, s>>}
           nr == NodeRefsAfter(a, t, nd_state, nd_refs)
<1>1. /\ nd_state[t] = "valid" /\ d \in hk_peers[s]
      /\ Release(RefsWithout(cells), nr, nd_state, hk_state)
      /\ hk_peers' = PeersWithout(cells)
      /\ stack' = StackAfter(a, t, nd_state, Unlinked(stack, cells))
  BY DEF NodeDisconnect, Command
<1>2. s \in hk_peers[d]
  BY <1>1 DEF GraphInv, ConnectionsSound
<1>3. CellsSound(cells)
  BY <1>1, <1>2 DEF CellsSound
<1> HIDE DEF cells
<1>4. /\ NextStack
      /\ \A h \in Hook : HookUses(stack', h) = HookUses(stack, h)
      /\ \A n \in Node :
           /\ NodeUses(stack', n) \in Nat
           /\ NodeUses(stack', n)
                = NodeUses(stack, n) + (IF Answered(a, nd_state) THEN Held(a, t)[n] ELSE 0)
  BY <1>1, UnlinkedUses, Responds
<1>5. RefsWithout(cells) \in [Hook -> Nat] /\ HookCounts(RefsWithout(cells))
  BY <1>1, <1>3, <1>4, CutCounts
<1>6. NextPeers(nd_state, hk_state)
  BY <1>1, <1>3, CutPeers
<1>7. /\ nd_refs \in [Node -> Nat]
      /\ nd_state \in [Node -> NodeState] /\ hk_state \in [Hook -> HookState]
  BY DEF GraphInv, TypeOK, NodeState, HookState
<1>8. nr \in [Node -> Nat]
  BY <1>7, NodeRefsAfterType
<1>9. NodeCounts(nr, nd_state)
  <2>1. \A n \in Node : /\ nd_refs[n] = (IF nd_state[n] = "valid" THEN 1 ELSE 0)
                                        + Cardinality(HooksOf(n)) + NodeUses(stack, n)
                        /\ ~InNodelist(n) => nd_refs[n] = 0
    BY Counts
  <2>2. QED
    BY <1>1, <1>4, <1>7, <2>1, CommandNodeCounts
<1> HIDE DEF nr
<1>10. QED
  BY <1>1, <1>4, <1>5, <1>6, <1>7, <1>8, <1>9, FlagsNow, ReleaseKeepsInv

LEMMA NodeRemoveInv ==
  ASSUME GraphInv, NEW a \in Node, NEW t \in Node, NodeRemove(a, t)
  PROVE  GraphInv' /\ NodesAre([nd_state EXCEPT ![t] = "invalid"])
<1> DEFINE own   == HooksOf(t)
           cells == CellsOf(own)
           ns    == [nd_state EXCEPT ![t] = "invalid"]
           hs    == [h \in Hook |-> IF h \in own THEN "invalid" ELSE hk_state[h]]
           nr0   == [nd_refs EXCEPT ![t] = @ - 1]
           nr    == NodeRefsAfter(a, t, ns, nr0)
<1>1. /\ nd_state[t] = "valid"
      /\ Release(RefsWithout(cells), nr, ns, hs)
      /\ hk_peers' = PeersWithout(cells)
      /\ stack' = StackAfter(a, t, ns, Unlinked(stack, cells))
  BY DEF NodeRemove, Command
<1>2. /\ nd_refs \in [Node -> Nat] /\ hk_peers \in [Hook -> SUBSET Hook]
      /\ nd_state \in [Node -> NodeState] /\ hk_state \in [Hook -> HookState]
      /\ ConnectionsSound /\ MemorySound
  BY DEF GraphInv, TypeOK, NodeState, HookState
<1>3. CellsSound(cells)
  BY <1>2 DEF CellsSound, CellsOf, ConnectionsSound
<1>4. /\ ns \in [Node -> NodeState] /\ hs \in [Hook -> HookState]
      /\ \A n \in Node : ns[n] = IF n = t THEN "invalid" ELSE nd_state[n]
  BY <1>2 DEF NodeState, HookState
<1>5. FlagsSound(ns, hs)
  <2>1. \A n \in Node : ns[n] = nd_state[n] \/ (nd_state[n] = "valid" /\ ns[n] = "invalid")
    BY <1>1, <1>4
  <2>2. ASSUME NEW h \in Hook
        PROVE  /\ hs[h] = "free" <=> hk_state[h] = "free"
               /\ Allocated(h) => hs[h] = ns[hk_key[h].node]
    <3>1. Allocated(h) => /\ hk_key[h].node \in Node /\ nd_state[hk_key[h].node] = hk_state[h]
                          /\ h \in own <=> hk_key[h].node = t
      BY <1>2 DEF MemorySound, Key, HooksOf
    <3>2. h \in own => Allocated(h)
      BY DEF HooksOf
    <3>3. QED
      BY <1>4, <3>1, <3>2 DEF Allocated
  <2>3. QED
    BY <2>1, <2>2 DEF FlagsSound
<1>6. ASSUME NEW h \in Hook, NEW p \in hk_peers[h], <<h, p>> \notin cells
      PROVE  hs[h] = hk_state[h] /\ ns[hk_key[h].node] = nd_state[hk_key[h].node]
  <2>1. p \in Hook /\ h \notin own
    BY <1>2, <1>6 DEF CellsOf
  <2>2. hk_state[h] = "valid"
    BY <1>2 DEF ConnectionsSound
  <2>3. hk_key[h].node \in Node /\ hk_key[h].node # t
    BY <1>2, <2>1, <2>2 DEF HooksOf, Allocated, MemorySound, Key
  <2>4. QED
    BY <1>4, <2>1, <2>3
<1> HIDE DEF cells, ns, hs, own
<1>7. /\ NextStack
      /\ \A h \in Hook : HookUses(stack', h) = HookUses(stack, h)
      /\ \A n \in Node :
           /\ NodeUses(stack', n) \in Nat
           /\ NodeUses(stack', n)
                = NodeUses(stack, n) + (IF Answered(a, ns) THEN Held(a, t)[n] ELSE 0)
  BY <1>1, UnlinkedUses, Responds
<1>8. RefsWithout(cells) \in [Hook -> Nat] /\ HookCounts(RefsWithout(cells))
  BY <1>1, <1>3, <1>7, CutCounts
<1>9. NextPeers(ns, hs)
  BY <1>1, <1>3, <1>6, CutPeers
<1>10. ASSUME NEW n \in Node
       PROVE /\ nr0[n] \in Nat
             /\ nr0[n] = (IF ns[n] = "valid" THEN 1 ELSE 0)
                         + Cardinality(HooksOf(n)) + NodeUses(stack, n)
             /\ ~InNodelist(n) => nr0[n] = 0
  <2>1. nr0[n] = nd_refs[n] - (IF n = t THEN 1 ELSE 0)
    BY <1>2
  <2>2. /\ Cardinality(HooksOf(n)) \in Nat /\ NodeUses(stack, n) \in Nat
        /\ nd_refs[n] = (IF nd_state[n] = "valid" THEN 1 ELSE 0)
                        + Cardinality(HooksOf(n)) + NodeUses(stack, n)
        /\ ~InNodelist(n) => nd_refs[n] = 0
    BY Counts
  <2>3. /\ (IF ns[n] = "valid" THEN 1 ELSE 0)
             = (IF nd_state[n] = "valid" THEN 1 ELSE 0) - (IF n = t THEN 1 ELSE 0)
        /\ n = t => InNodelist(n)
    BY <1>1, <1>4 DEF InNodelist
  <2> HIDE DEF nr0
  <2>4. CASE n = t
    BY <1>1, <1>4, <2>1, <2>2, <2>3, <2>4
  <2>5. CASE n # t
    BY <1>4, <2>1, <2>2, <2>5
  <2>6. QED
    BY <2>4, <2>5
<1>11. nr0 \in [Node -> Nat]
  BY <1>2, <1>10
<1> HIDE DEF nr0
<1>12. nr \in [Node -> Nat]
  BY <1>11, NodeRefsAfterType
<1>13. NodeCounts(nr, ns)
  <2>1. ns[a] = "valid" => nd_state[a] = "valid"
    BY <1>4
  <2>2. QED
    BY <1>1, <1>7, <1>10, <1>11, <2>1, CommandNodeCounts
<1> HIDE DEF nr
<1>14. QED
  BY <1>1, <1>4, <1>5, <1>7, <1>8, <1>9, <1>12, <1>13, ReleaseKeepsInv DEF ns
-----------------------------------------------------------------------------
(* NODECREATE and NODECONNECT: new memory starts with the references that  *)
(* the lists and the frames hold.                                          *)

\* A command that changes nothing still holds both nodes for its response.
LEMMA RefusedInv ==
  ASSUME GraphInv, NEW a \in Node, NEW t \in Node, Refused(a, t)
  PROVE  GraphInv'
<1>1. /\ nd_state[t] = "valid" /\ nd_state[a] = "valid" /\ Answered(a, nd_state)
      /\ nd_refs' = NodeRefsAfter(a, t, nd_state, nd_refs)
      /\ stack' = StackAfter(a, t, nd_state, stack)
      /\ UNCHANGED <<nd_state, hk_state, hk_key, hk_refs, hk_peers>>
  BY DEF Refused, Command, Answered
<1>2. /\ NextStack
      /\ \A h \in Hook : HookUses(stack', h) = HookUses(stack, h)
      /\ \A n \in Node :
           /\ NodeUses(stack', n) \in Nat /\ NodeUses(stack, n) \in Nat
           /\ NodeUses(stack', n) = NodeUses(stack, n) + Held(a, t)[n]
  BY <1>1, StackNow, Responds
<1>3. hk_refs \in [Hook -> Nat] /\ nd_refs \in [Node -> Nat] /\ MemorySound
  BY DEF GraphInv, TypeOK
<1>4. nd_refs' \in [Node -> Nat]
  BY <1>1, <1>3, NodeRefsAfterType
<1>5. ASSUME NEW h \in Hook
      PROVE hk_refs'[h] = Cardinality(Holders(hk_peers, h)) + HookUses(stack', h)
  BY <1>1, <1>2, Counts
<1>6. ASSUME NEW n \in Node
      PROVE /\ nd_refs'[n] = (IF nd_state[n] = "valid" THEN 1 ELSE 0)
                             + Cardinality(HooksOf(n)) + NodeUses(stack', n)
            /\ nd_refs'[n] # 0 <=> nd_refs[n] # 0
  <2> DEFINE held == Held(a, t)[n]
             base == (IF nd_state[n] = "valid" THEN 1 ELSE 0) + Cardinality(HooksOf(n))
  <2>1. /\ held \in Nat
        /\ held = 0 <=> n # a /\ n # t
        /\ nd_refs'[n] = nd_refs[n] + held
    BY <1>1, <1>3, RespondsCounts
  <2>2. NodeUses(stack', n) = NodeUses(stack, n) + held
    BY <1>2
  <2>3. /\ Cardinality(HooksOf(n)) \in Nat /\ NodeUses(stack, n) \in Nat /\ nd_refs[n] \in Nat
        /\ nd_refs[n] = base + NodeUses(stack, n)
    BY Counts
  <2>4. base \in Nat
    BY <2>3
  <2>5. nd_refs[n] = 0 => n # a /\ n # t
    BY <1>1, <1>3 DEF MemorySound, InNodelist
  <2> HIDE DEF held, base
  <2>6. nd_refs'[n] = base + NodeUses(stack', n)
    BY <2>1, <2>2, <2>3, <2>4
  <2>7. nd_refs'[n] # 0 <=> nd_refs[n] # 0
    BY <2>1, <2>3, <2>5
  <2>8. QED
    BY <2>6, <2>7 DEF base
<1>7. QED
  BY <1>1, <1>2, <1>3, <1>4, <1>5, <1>6, CallKeepsInv

LEMMA NodeCreateInv ==
  ASSUME GraphInv, NEW a \in Node, NEW t \in Node, NEW new \in Node, NodeCreate(a, t, new)
  PROVE  GraphInv'
<1> DEFINE nr == [nd_refs EXCEPT ![new] = 1]
<1>1. /\ nd_state[t] = "valid" /\ nd_state[new] = "unborn"
      /\ nd_state' = [nd_state EXCEPT ![new] = "valid"]
      /\ nd_refs' = NodeRefsAfter(a, t, nd_state, nr)
      /\ stack' = StackAfter(a, t, nd_state, stack)
      /\ UNCHANGED <<hk_state, hk_key, hk_refs, hk_peers>>
  BY DEF NodeCreate, Command
<1>2. /\ nd_refs \in [Node -> Nat] /\ nd_state \in [Node -> NodeState]
      /\ TypeOK /\ ConnectionsSound /\ MemorySound
  BY DEF GraphInv, TypeOK, NodeState
<1>3. /\ NextStack
      /\ \A h \in Hook : HookUses(stack', h) = HookUses(stack, h)
      /\ \A n \in Node :
           /\ NodeUses(stack', n) \in Nat /\ NodeUses(stack, n) \in Nat
           /\ NodeUses(stack', n)
                = NodeUses(stack, n) + (IF Answered(a, nd_state) THEN Held(a, t)[n] ELSE 0)
  BY <1>1, StackNow, Responds
<1>4. nr \in [Node -> Nat] /\ \A n \in Node : nr[n] = IF n = new THEN 1 ELSE nd_refs[n]
  BY <1>2
<1> HIDE DEF nr
<1>5. nd_refs' \in [Node -> Nat]
  BY <1>1, <1>4, NodeRefsAfterType
<1>6. \A n \in Node : nd_state'[n] = IF n = new THEN "valid" ELSE nd_state[n]
  BY <1>1, <1>2
<1>7. \A n : HooksOf(n)' = HooksOf(n)
  BY <1>1 DEF HooksOf, Allocated
<1>8. ~InNodelist(new)
  BY <1>1 DEF InNodelist
<1>9. ASSUME NEW n \in Node
      PROVE  /\ nd_refs'[n] = (IF nd_state'[n] = "valid" THEN 1 ELSE 0)
                              + Cardinality(HooksOf(n)) + NodeUses(stack', n)
             /\ nd_refs'[n] # 0 <=> (n = new \/ nd_refs[n] # 0)
  <2> DEFINE held == Held(a, t)[n]
             base == (IF nd_state'[n] = "valid" THEN 1 ELSE 0) + Cardinality(HooksOf(n))
  <2>1. /\ held \in Nat
        /\ held = 0 <=> n # a /\ n # t
        /\ nd_refs'[n] = nr[n] + (IF Answered(a, nd_state) THEN held ELSE 0)
    BY <1>1, <1>4, RespondsCounts
  <2>2. NodeUses(stack', n) = NodeUses(stack, n) + (IF Answered(a, nd_state) THEN held ELSE 0)
    BY <1>3
  <2>3. nr[n] = IF n = new THEN 1 ELSE nd_refs[n]
    BY <1>4
  <2>4. /\ Cardinality(HooksOf(n)) \in Nat /\ NodeUses(stack, n) \in Nat /\ nd_refs[n] \in Nat
        /\ nd_refs[n] = (IF nd_state[n] = "valid" THEN 1 ELSE 0)
                        + Cardinality(HooksOf(n)) + NodeUses(stack, n)
        /\ ~InNodelist(n) => nd_refs[n] = 0
    BY Counts
  <2>5. base \in Nat /\ nr[n] = base + NodeUses(stack, n)
    <3> DEFINE k == Cardinality(HooksOf(n))
               u == NodeUses(stack, n)
    <3>0. k \in Nat /\ u \in Nat
      BY <2>4
    <3>1. CASE n = new
      <4>1. nd_refs[n] = 0 /\ nd_refs[n] = 0 + k + u
        BY <1>1, <1>8, <2>4, <3>1
      <4>2. nr[n] = 1 /\ base = 1 + k
        BY <1>6, <2>3, <3>1
      <4> HIDE DEF k, u, base
      <4>3. k = 0 /\ u = 0
        BY <3>0, <4>1
      <4>4. base \in Nat /\ nr[n] = base + u
        BY <4>2, <4>3
      <4>5. QED
        BY <4>4 DEF u
    <3>2. CASE n # new
      BY <1>6, <2>3, <2>4, <3>2
    <3>3. QED
      BY <3>1, <3>2
  <2>6. Answered(a, nd_state) /\ nd_refs[n] = 0 => n # a /\ n # t
    BY <1>1, <1>2 DEF Answered, MemorySound, InNodelist
  <2> HIDE DEF held, base
  <2>7. nd_refs'[n] = base + NodeUses(stack', n)
    BY <2>1, <2>2, <2>4, <2>5
  <2>8. nd_refs'[n] # 0 <=> (n = new \/ nd_refs[n] # 0)
    <3>1. CASE n = new
      BY <2>1, <2>3, <3>1
    <3>2. CASE n # new
      <4>1. nd_refs'[n] = nd_refs[n] + (IF Answered(a, nd_state) THEN held ELSE 0)
        BY <2>1, <2>3, <3>2
      <4>2. Answered(a, nd_state) /\ nd_refs[n] = 0 => held = 0
        BY <2>1, <2>6
      <4>3. held \in Nat /\ nd_refs[n] \in Nat
        BY <2>1, <2>4
      <4>4. QED
        BY <3>2, <4>1, <4>2, <4>3
    <3>3. QED
      BY <3>1, <3>2
  <2>9. QED
    BY <2>7, <2>8 DEF base
<1>10. TypeOK'
  BY <1>1, <1>2, <1>3, <1>5, <1>6 DEF TypeOK, NextStack, NodeState
<1>11. HookRefsExact'
  BY <1>1, <1>3 DEF GraphInv, HookRefsExact
<1>12. NodeRefsExact'
  BY <1>7, <1>9 DEF NodeRefsExact
<1>13. ASSUME NEW h \in Hook, Allocated(h)
       PROVE  hk_key[h].node \in Node /\ nd_state'[hk_key[h].node] = nd_state[hk_key[h].node]
  <2>1. /\ hk_key[h].node \in Node /\ nd_state[hk_key[h].node] = hk_state[h]
        /\ hk_state[h] \in {"valid", "invalid"}
    BY <1>2, <1>13 DEF MemorySound, Key, Allocated, TypeOK
  <2>2. QED
    BY <1>1, <1>6, <2>1
<1>14. ConnectionsSound'
  <2> SUFFICES ASSUME NEW h \in Hook, NEW p \in hk_peers[h]
               PROVE nd_state'[hk_key[h].node] = nd_state[hk_key[h].node]
    BY <1>1, <1>2 DEF ConnectionsSound
  <2>1. hk_state[h] = "valid"
    BY <1>2 DEF ConnectionsSound
  <2>2. QED
    BY <1>13, <2>1 DEF Allocated
<1>15. MemorySound'
  <2>1. \A n \in Node : nd_state'[n] \in {"valid", "invalid"} <=> nd_refs'[n] # 0
    BY <1>2, <1>6, <1>9 DEF MemorySound, InNodelist
  <2>2. \A h \in Hook : IF Allocated(h)
          THEN hk_key[h] \in Key /\ hk_refs[h] # 0 /\ nd_state'[hk_key[h].node] = hk_state[h]
          ELSE hk_refs[h] = 0
    BY <1>2, <1>13 DEF MemorySound
  <2>3. QED
    BY <1>1, <1>3, <2>1, <2>2 DEF MemorySound, NextStack, Allocated, InNodelist, Depth, FrameSound
<1>16. QED
  BY <1>10, <1>11, <1>12, <1>14, <1>15 DEF GraphInv

\* What dmm_hook_get finds or creates, for both ends of a connection.
LEMMA Ends ==
  ASSUME GraphInv, NEW t \in Node, NEW dst \in Node, NEW s \in Hook, NEW d \in Hook,
         NEW srchook \in Name, NEW dsthook \in Name,
         nd_state[t] = "valid", Gets(s, t, "out", srchook), Gets(d, dst, "in", dsthook)
  PROVE  /\ nd_state[dst] = "valid"
         /\ Allocated(s) => /\ hk_state[s] = "valid"
                            /\ hk_key[s] = [node |-> t, dir |-> "out", name |-> srchook]
         /\ Allocated(d) => /\ hk_state[d] = "valid"
                            /\ hk_key[d] = [node |-> dst, dir |-> "in", name |-> dsthook]
<1>1. MemorySound
  BY DEF GraphInv
<1>2. Allocated(s) => s \in Found(t, "out", srchook)
  BY DEF Gets
<1>3. Allocated(d) => d \in Found(dst, "in", dsthook)
  BY DEF Gets
<1>4. d \in Found(dst, "in", dsthook) => nd_state[dst] = "valid"
  BY <1>1 DEF Found, MemorySound, Allocated
<1>5. nd_state[dst] = "valid"
  BY <1>4 DEF Gets
<1>6. QED
  BY <1>2, <1>3, <1>5 DEF Found

LEMMA NodeConnectInv ==
  ASSUME GraphInv, NEW a \in Node, NEW t \in Node, NEW dst \in Node,
         NEW srchook \in Name, NEW dsthook \in Name, NEW s \in Hook, NEW d \in Hook,
         NodeConnect(a, t, dst, srchook, dsthook, s, d)
  PROVE  GraphInv'
<1> DEFINE fresh  == {h \in {s, d} : ~Allocated(h)}
           key(h) == IF h = s THEN [node |-> t, dir |-> "out", name |-> srchook]
                              ELSE [node |-> dst, dir |-> "in", name |-> dsthook]
           newOf(n) == {h \in fresh : key(h).node = n}
           nr == [n \in Node |-> nd_refs[n] + Cardinality(newOf(n))]
<1>1. /\ nd_state[t] = "valid" /\ s # d /\ d \notin hk_peers[s]
      /\ hk_state' = [h \in Hook |-> IF h \in fresh THEN "valid" ELSE hk_state[h]]
      /\ hk_key' = [h \in Hook |-> IF h \in fresh THEN key(h) ELSE hk_key[h]]
      /\ hk_peers' = [hk_peers EXCEPT ![s] = @ \cup {d}, ![d] = @ \cup {s}]
      /\ hk_refs' = [hk_refs EXCEPT ![s] = @ + 1, ![d] = @ + 1]
      /\ nd_refs' = NodeRefsAfter(a, t, nd_state, nr)
      /\ stack' = StackAfter(a, t, nd_state, stack)
      /\ nd_state' = nd_state
  BY DEF NodeConnect, Command
<1>2. /\ nd_state[dst] = "valid"
      /\ Allocated(s) => hk_state[s] = "valid" /\ hk_key[s] = key(s)
      /\ Allocated(d) => hk_state[d] = "valid" /\ hk_key[d] = key(d)
  BY <1>1, Ends DEF NodeConnect
<1>3. /\ nd_refs \in [Node -> Nat] /\ hk_refs \in [Hook -> Nat] /\ hk_peers \in [Hook -> SUBSET Hook]
      /\ TypeOK /\ ConnectionsSound /\ MemorySound
  BY DEF GraphInv, TypeOK
<1>4. /\ key(s) \in Key /\ key(s).node = t /\ key(s).dir = "out"
      /\ key(d) \in Key /\ key(d).node = dst /\ key(d).dir = "in"
      /\ fresh \subseteq {s, d} /\ \A h \in fresh : ~Allocated(h)
      /\ \A h \in {s, d} : h \in fresh \/ Allocated(h)
  BY <1>1 DEF Key
<1> HIDE DEF fresh, key
<1>5. /\ \A h \in {s, d} : hk_state'[h] = "valid" /\ hk_key'[h] = key(h)
      /\ \A h \in Hook \ {s, d} : hk_state'[h] = hk_state[h] /\ hk_key'[h] = hk_key[h]
      /\ \A h \in Hook : Allocated(h) => hk_state'[h] = hk_state[h] /\ hk_key'[h] = hk_key[h]
  BY <1>1, <1>2, <1>4
<1>6. /\ NextStack
      /\ \A h \in Hook : HookUses(stack', h) = HookUses(stack, h)
      /\ \A n \in Node :
           /\ NodeUses(stack', n) \in Nat /\ NodeUses(stack, n) \in Nat
           /\ NodeUses(stack', n)
                = NodeUses(stack, n) + (IF Answered(a, nd_state) THEN Held(a, t)[n] ELSE 0)
  BY <1>1, StackNow, Responds
<1>7. ASSUME NEW n \in Node
      PROVE  /\ newOf(n) \cap HooksOf(n) = {} /\ HooksOf(n)' = HooksOf(n) \cup newOf(n)
             /\ IsFiniteSet(newOf(n))
  <2>1. newOf(n) \subseteq Hook /\ \A h \in newOf(n) : ~Allocated(h)
    BY <1>4
  <2>2. HooksOf(n)' = {h \in Hook : hk_state'[h] # "free" /\ hk_key'[h].node = n}
    BY DEF HooksOf, Allocated
  <2>3. HooksOf(n) = {h \in Hook : hk_state[h] # "free" /\ hk_key[h].node = n}
    BY DEF HooksOf, Allocated
  <2>4. ASSUME NEW h \in Hook
        PROVE  h \in HooksOf(n)' <=> h \in HooksOf(n) \/ h \in newOf(n)
    <3>1. CASE h \in fresh
      BY <1>4, <1>5, <2>2, <2>3, <3>1 DEF Allocated
    <3>2. CASE h \notin fresh /\ h \in {s, d}
      BY <1>4, <1>5, <2>2, <2>3, <3>2 DEF Allocated
    <3>3. CASE h \notin {s, d}
      BY <1>4, <1>5, <2>2, <2>3, <3>3
    <3>4. QED
      BY <3>1, <3>2, <3>3
  <2>5. IsFiniteSet(newOf(n))
    BY <2>1, GraphAssumption, FS_Subset
  <2>6. QED
    BY <2>1, <2>2, <2>3, <2>4, <2>5 DEF Allocated
<1> HIDE DEF newOf
<1>8. ASSUME NEW n \in Node
      PROVE  /\ Cardinality(HooksOf(n)) \in Nat /\ Cardinality(newOf(n)) \in Nat
             /\ Cardinality(HooksOf(n)') = Cardinality(HooksOf(n)) + Cardinality(newOf(n))
             /\ Cardinality(newOf(n)) # 0 => nd_state[n] = "valid"
  <2>1. /\ IsFiniteSet(newOf(n)) /\ IsFiniteSet(HooksOf(n))
        /\ Cardinality(HooksOf(n)) \in Nat /\ Cardinality(newOf(n)) \in Nat
    BY <1>7, HooksFinite, CardPositive
  <2>2. /\ Cardinality(HooksOf(n) \cup newOf(n))
             = Cardinality(HooksOf(n)) + Cardinality(newOf(n)) - Cardinality(HooksOf(n) \cap newOf(n))
    BY <2>1, FS_Union
  <2>3. Cardinality(HooksOf(n) \cap newOf(n)) = 0
    BY <1>7, FS_EmptySet
  <2>4. Cardinality(newOf(n)) # 0 => newOf(n) # {}
    BY <2>1, CardPositive
  <2>5. newOf(n) # {} => nd_state[n] = "valid"
    BY <1>1, <1>2, <1>4 DEF newOf
  <2>6. HooksOf(n)' = HooksOf(n) \cup newOf(n)
    BY <1>7
  <2>7. Cardinality(HooksOf(n) \cup newOf(n)) = Cardinality(HooksOf(n)) + Cardinality(newOf(n))
    BY <2>1, <2>2, <2>3
  <2>8. QED
    BY <2>1, <2>4, <2>5, <2>6, <2>7
<1>9. nr \in [Node -> Nat] /\ \A n \in Node : nr[n] = nd_refs[n] + Cardinality(newOf(n))
  BY <1>3, <1>8
<1> HIDE DEF nr
<1>10. nd_refs' \in [Node -> Nat]
  BY <1>1, <1>9, NodeRefsAfterType
<1>11. ASSUME NEW n \in Node
       PROVE  /\ nd_refs'[n] = (IF nd_state[n] = "valid" THEN 1 ELSE 0)
                               + Cardinality(HooksOf(n)') + NodeUses(stack', n)
              /\ nd_refs'[n] # 0 <=> nd_refs[n] # 0
  <2> DEFINE held == Held(a, t)[n]
             base == IF nd_state[n] = "valid" THEN 1 ELSE 0
             old  == Cardinality(HooksOf(n))
             new  == Cardinality(newOf(n))
  <2>1. /\ held \in Nat
        /\ held = 0 <=> n # a /\ n # t
        /\ nd_refs'[n] = nr[n] + (IF Answered(a, nd_state) THEN held ELSE 0)
    BY <1>1, <1>9, RespondsCounts
  <2>2. /\ NodeUses(stack', n) = NodeUses(stack, n) + (IF Answered(a, nd_state) THEN held ELSE 0)
        /\ NodeUses(stack, n) \in Nat
    BY <1>6
  <2>3. nd_refs[n] \in Nat /\ nd_refs[n] = base + old + NodeUses(stack, n)
    BY Counts
  <2>4. /\ old \in Nat /\ new \in Nat /\ Cardinality(HooksOf(n)') = old + new
        /\ new # 0 => nd_state[n] = "valid"
    BY <1>8
  <2>5. base \in Nat /\ nr[n] = nd_refs[n] + new
    BY <1>9
  <2>6. /\ Answered(a, nd_state) /\ nd_refs[n] = 0 => n # a /\ n # t
        /\ nd_refs[n] = 0 => nd_state[n] # "valid"
    BY <1>1, <1>3 DEF Answered, MemorySound, InNodelist
  <2> HIDE DEF held, base, old, new
  <2>7. nd_refs'[n] = base + Cardinality(HooksOf(n)') + NodeUses(stack', n)
    BY <2>1, <2>2, <2>3, <2>4, <2>5
  <2>8. nd_refs'[n] # 0 <=> nd_refs[n] # 0
    BY <2>1, <2>3, <2>4, <2>5, <2>6
  <2>9. QED
    BY <2>7, <2>8 DEF base
<1>12. s \notin hk_peers[d] /\ d \notin hk_peers[s]
  BY <1>1, <1>3 DEF ConnectionsSound
<1>13. /\ hk_peers' \in [Hook -> SUBSET Hook]
       /\ \A h \in Hook : hk_peers'[h] = hk_peers[h] \cup (IF h = s THEN {d} ELSE {})
                                                     \cup (IF h = d THEN {s} ELSE {})
       /\ hk_refs' \in [Hook -> Nat]
       /\ \A h \in Hook : hk_refs'[h] = hk_refs[h] + (IF h \in {s, d} THEN 1 ELSE 0)
  BY <1>1, <1>3
<1>14. ASSUME NEW h \in Hook
       PROVE  Cardinality(Holders(hk_peers', h))
                = Cardinality(Holders(hk_peers, h)) + (IF h \in {s, d} THEN 1 ELSE 0)
  <2> DEFINE old == Holders(hk_peers, h)
             new == Holders(hk_peers', h)
  <2>1. IsFiniteSet(old) /\ Cardinality(old) \in Nat
    BY HooksFinite
  <2>2. CASE h = s
    <3>1. d \notin old /\ new = old \cup {d}
      BY <1>1, <1>12, <1>13, <2>2 DEF Holders
    <3> HIDE DEF old, new
    <3>2. Cardinality(new) = Cardinality(old) + 1
      BY <2>1, <3>1, CardAdd
    <3>3. QED
      BY <2>2, <3>2 DEF old, new
  <2>3. CASE h = d
    <3>1. s \notin old /\ new = old \cup {s}
      BY <1>1, <1>12, <1>13, <2>3 DEF Holders
    <3> HIDE DEF old, new
    <3>2. Cardinality(new) = Cardinality(old) + 1
      BY <2>1, <3>1, CardAdd
    <3>3. QED
      BY <2>3, <3>2 DEF old, new
  <2>4. CASE h \notin {s, d}
    <3>1. new = old
      BY <1>13, <2>4 DEF Holders
    <3>2. QED
      BY <2>1, <2>4, <3>1
  <2>5. QED
    BY <2>2, <2>3, <2>4
<1>15. TypeOK'
  <2>1. hk_state' \in [Hook -> HookState] /\ hk_key' \in [Hook -> Key \cup {NoKey}]
    BY <1>1, <1>3, <1>4 DEF TypeOK, HookState
  <2>2. QED
    BY <1>1, <1>3, <1>6, <1>10, <1>13, <2>1 DEF TypeOK, NextStack, HookState
<1>16. HookRefsExact'
  <2> SUFFICES ASSUME NEW h \in Hook
               PROVE hk_refs'[h] = Cardinality(Holders(hk_peers', h)) + HookUses(stack', h)
    BY DEF HookRefsExact
  <2>1. /\ Cardinality(Holders(hk_peers, h)) \in Nat /\ HookUses(stack, h) \in Nat
        /\ hk_refs[h] = Cardinality(Holders(hk_peers, h)) + HookUses(stack, h)
    BY Counts
  <2>2. HookUses(stack', h) = HookUses(stack, h)
    BY <1>6
  <2>3. QED
    BY <1>13, <1>14, <2>1, <2>2
<1>17. NodeRefsExact'
  BY <1>1, <1>11 DEF NodeRefsExact
<1>18. ConnectionsSound'
  <2> SUFFICES ASSUME NEW h \in Hook, NEW p \in hk_peers'[h]
               PROVE /\ h \in hk_peers'[p] /\ hk_key'[h].dir # hk_key'[p].dir
                     /\ hk_state'[h] = "valid" /\ nd_state[hk_key'[h].node] = "valid"
    BY <1>1 DEF ConnectionsSound
  <2>1. CASE p \in hk_peers[h]
    <3>1. /\ h \in hk_peers[p] /\ hk_key[h].dir # hk_key[p].dir /\ p \in Hook
          /\ hk_state[h] = "valid" /\ nd_state[hk_key[h].node] = "valid"
      BY <1>3, <2>1 DEF ConnectionsSound
    <3>2. hk_state[p] = "valid"
      BY <1>3, <3>1 DEF ConnectionsSound
    <3>3. QED
      BY <1>5, <1>13, <3>1, <3>2 DEF Allocated
  <2>2. CASE p \notin hk_peers[h]
    <3>1. (h = s /\ p = d) \/ (h = d /\ p = s)
      BY <1>13, <2>2
    <3>2. QED
      BY <1>1, <1>2, <1>4, <1>5, <1>13, <3>1
  <2>3. QED
    BY <2>1, <2>2
<1>19. MemorySound'
  <2>1. \A n \in Node : nd_state'[n] \in {"valid", "invalid"} <=> nd_refs'[n] # 0
    BY <1>1, <1>3, <1>11 DEF MemorySound, InNodelist
  <2>2. ASSUME NEW h \in Hook
        PROVE  IF hk_state'[h] # "free"
               THEN hk_key'[h] \in Key /\ hk_refs'[h] # 0 /\ nd_state'[hk_key'[h].node] = hk_state'[h]
               ELSE hk_refs'[h] = 0
    <3>1. CASE h \in {s, d}
      <4>1. hk_refs'[h] # 0
        BY <1>3, <1>13, <3>1
      <4>2. QED
        BY <1>1, <1>2, <1>4, <1>5, <3>1, <4>1
    <3>2. CASE h \notin {s, d}
      <4>1. hk_refs'[h] = hk_refs[h]
        BY <1>3, <1>13, <3>2
      <4>2. QED
        BY <1>1, <1>3, <1>5, <3>2, <4>1 DEF MemorySound, Allocated
    <3>3. QED
      BY <3>1, <3>2
  <2>3. QED
    BY <1>6, <2>1, <2>2 DEF MemorySound, NextStack, Allocated, InNodelist, Depth, FrameSound
<1>20. QED
  BY <1>15, <1>16, <1>17, <1>18, <1>19 DEF GraphInv
-----------------------------------------------------------------------------
(* The invariant, and what it says.                                        *)

\* Initially there is one node, referenced by the node list alone.
LEMMA InitInv == Init => GraphInv
<1> SUFFICES ASSUME Init PROVE GraphInv
  OBVIOUS
<1>1. PICK n0 \in Sink :
        /\ nd_state = [m \in Node |-> IF m = n0 THEN "valid" ELSE "unborn"]
        /\ nd_refs = [m \in Node |-> IF m = n0 THEN 1 ELSE 0]
  BY DEF Init
<1>2. /\ hk_state = [h \in Hook |-> "free"] /\ hk_key = [h \in Hook |-> NoKey]
      /\ hk_refs = [h \in Hook |-> 0] /\ hk_peers = [h \in Hook |-> {}] /\ stack = <<>>
  BY DEF Init
<1>3. TypeOK
  BY <1>1, <1>2 DEF TypeOK
<1>4. Len(stack) = 0 /\ 1..Len(stack) = {}
  BY <1>2
<1>5. \A x : HookUses(stack, x) = 0 /\ NodeUses(stack, x) = 0
  <2>1. stack \in Seq(Frame)
    BY <1>3 DEF TypeOK
  <2>2. QED
    BY <1>4, <2>1, UsesNat
<1>6. \A h \in Hook : Holders(hk_peers, h) = {}
  BY <1>2 DEF Holders
<1>7. \A n \in Node : HooksOf(n) = {}
  BY <1>2 DEF HooksOf, Allocated
<1>8. HookRefsExact
  <2>1. \A h \in Hook : /\ Cardinality(Holders(hk_peers, h)) = 0 /\ hk_refs[h] = 0
                        /\ HookUses(stack, h) = 0
    BY <1>2, <1>5, <1>6, FS_EmptySet
  <2>2. QED
    BY <2>1 DEF HookRefsExact
<1>9. NodeRefsExact
  BY <1>1, <1>5, <1>7, FS_EmptySet DEF NodeRefsExact
<1>10. ConnectionsSound
  BY <1>2 DEF ConnectionsSound
<1>11. MemorySound
  BY <1>1, <1>2, <1>4 DEF MemorySound, Allocated, InNodelist, Depth
<1>12. QED
  BY <1>3, <1>8, <1>9, <1>10, <1>11 DEF GraphInv

\* A step that changes nothing.
LEMMA StutterInv ==
  ASSUME GraphInv, UNCHANGED vars
  PROVE  GraphInv'
<1>1. /\ UNCHANGED <<nd_state, nd_refs, hk_state, hk_key, hk_refs, hk_peers>> /\ stack' = stack
  BY DEF vars
<1>2. NextStack
  BY <1>1, StackNow DEF NextStack
<1>3. hk_refs' \in [Hook -> Nat] /\ nd_refs' \in [Node -> Nat]
  BY <1>1 DEF GraphInv, TypeOK
<1>4. \A h \in Hook : hk_refs'[h] = Cardinality(Holders(hk_peers, h)) + HookUses(stack', h)
  BY <1>1, Counts
<1>5. \A n \in Node : nd_refs'[n] = (IF nd_state[n] = "valid" THEN 1 ELSE 0)
                                    + Cardinality(HooksOf(n)) + NodeUses(stack', n)
  BY <1>1, Counts
<1>6. QED
  BY <1>1, <1>2, <1>3, <1>4, <1>5, CallKeepsInv

\* The invariant holds whatever the handlers of the modules do: no order of
\* nested calls, commands and returns breaks a count, a list or a flag.
THEOREM GraphInvariant == Spec => []GraphInv
<1>1. Init => GraphInv
  BY InitInv
<1>2. GraphInv /\ [Next]_vars => GraphInv'
  <2> SUFFICES ASSUME GraphInv, [Next]_vars PROVE GraphInv'
    OBVIOUS
  <2>1. CASE Call
    BY <2>1, WakeInv, DataSendInv, DeliverInv DEF Call
  <2>2. CASE ReturnHook
    BY <2>2, ReturnHookInv
  <2>3. CASE ReturnNode
    BY <2>3, ReturnNodeInv
  <2>4. ASSUME NEW a \in Node, NEW t \in Node, NodeRemove(a, t) PROVE GraphInv'
    BY <2>4, NodeRemoveInv
  <2>5. ASSUME NEW a \in Node, NEW t \in Node, NEW new \in Node, NodeCreate(a, t, new)
        PROVE GraphInv'
    BY <2>5, NodeCreateInv
  <2>6. ASSUME NEW a \in Node, NEW t \in Node, NEW dst \in Node,
               NEW srchook \in Name, NEW dsthook \in Name, NEW s \in Hook, NEW d \in Hook,
               NodeConnect(a, t, dst, srchook, dsthook, s, d)
        PROVE GraphInv'
    BY <2>6, NodeConnectInv
  <2>7. ASSUME NEW a \in Node, NEW t \in Node, NEW dst \in Node,
               NEW srchook \in Name, NEW dsthook \in Name, NEW s \in Hook, NEW d \in Hook,
               NodeDisconnect(a, t, dst, srchook, dsthook, s, d)
        PROVE GraphInv'
    BY <2>7, NodeDisconnectInv
  <2>8. CASE Commands
    BY <2>4, <2>5, <2>6, <2>7, <2>8, RefusedInv DEF Commands
  <2>9. CASE UNCHANGED vars
    BY <2>9, StutterInv
  <2>10. QED
    BY <2>1, <2>2, <2>3, <2>8, <2>9 DEF Next
<1>3. QED
  BY <1>1, <1>2, PTL DEF Spec

\* Every state is well typed: no count goes below zero, which is the
\* assertion of refrelease (dmm_memman.h).
THEOREM TypeCorrect == Spec => []TypeOK
<1>1. GraphInv => TypeOK
  BY DEF GraphInv
<1>2. QED
  BY <1>1, GraphInvariant, PTL

\* A hook's count is the number of peer lists and running calls that use it.
THEOREM HookCountsExact == Spec => []HookRefsExact
<1>1. GraphInv => HookRefsExact
  BY DEF GraphInv
<1>2. QED
  BY <1>1, GraphInvariant, PTL

\* A node's count is one until NODERM, plus its hooks and running handlers.
THEOREM NodeCountsExact == Spec => []NodeRefsExact
<1>1. GraphInv => NodeRefsExact
  BY DEF GraphInv
<1>2. QED
  BY <1>1, GraphInvariant, PTL

\* Both ends of a connection know it, and both are valid.
THEOREM ConnectionsAreSound == Spec => []ConnectionsSound
<1>1. GraphInv => ConnectionsSound
  BY DEF GraphInv
<1>2. QED
  BY <1>1, GraphInvariant, PTL

\* No list, owner or running function refers to freed memory, however deep
\* the calls are nested and whatever they remove.
THEOREM NothingDangles == Spec => []NoDangling
<1>1. ASSUME GraphInv PROVE NoDangling
  <2>1. MemorySound /\ ConnectionsSound /\ stack \in Seq(Frame) /\ hk_peers \in [Hook -> SUBSET Hook]
        /\ hk_state \in [Hook -> {"free", "valid", "invalid"}]
    BY <1>1 DEF GraphInv, TypeOK
  <2>2. ASSUME NEW h \in Hook, Allocated(h)
        PROVE  hk_key[h] # NoKey /\ InNodelist(hk_key[h].node)
    BY <2>1, <2>2, GraphAssumption DEF MemorySound, Allocated, InNodelist, Key
  <2>3. ASSUME NEW h \in Hook, NEW p \in hk_peers[h]
        PROVE  Allocated(h) /\ Allocated(p)
    BY <2>1 DEF ConnectionsSound, Allocated
  <2>4. ASSUME NEW i \in 1..Depth
        PROVE  IF stack[i].kind \in {"run", "hold"} THEN InNodelist(stack[i].node)
                                                     ELSE Allocated(stack[i].hook)
    <3>1. FrameSound(stack[i]) /\ i \in 1..Len(stack)
      BY <2>1 DEF MemorySound, Depth
    <3>2. QED
      BY <1>1, <3>1, Unreferenced DEF FrameSound
  <2>5. QED
    BY <2>1, <2>2, <2>3, <2>4 DEF NoDangling
<1>2. QED
  BY <1>1, GraphInvariant, PTL

\* When the main loop is idle, what was removed has been freed and every
\* hook is connected: reference counting loses nothing, for it has no cycles
\* that NODERM does not cut.
THEOREM NothingLeaks == Spec => []NoLeakWhenIdle
<1>1. ASSUME GraphInv PROVE NoLeakWhenIdle
  <2> SUFFICES ASSUME stack = <<>>
               PROVE  /\ \A h \in Hook : Allocated(h) => hk_peers[h] # {}
                      /\ \A n \in Node : nd_state[n] # "invalid"
    BY DEF NoLeakWhenIdle
  <2>1. /\ MemorySound /\ ConnectionsSound /\ stack \in Seq(Frame)
        /\ hk_peers \in [Hook -> SUBSET Hook]
        /\ hk_state \in [Hook -> {"free", "valid", "invalid"}]
    BY <1>1 DEF GraphInv, TypeOK
  <2>2. \A x : HookUses(stack, x) = 0 /\ NodeUses(stack, x) = 0
    <3>1. Len(stack) = 0 /\ 1..Len(stack) = {}
      OBVIOUS
    <3>2. QED
      BY <2>1, <3>1, UsesNat
  <2>3. ASSUME NEW h \in Hook, Allocated(h) PROVE hk_peers[h] # {} /\ hk_state[h] = "valid"
    <3>1. hk_refs[h] # 0 /\ hk_refs[h] = Cardinality(Holders(hk_peers, h)) + HookUses(stack, h)
          /\ Cardinality(Holders(hk_peers, h)) \in Nat
      BY <1>1, <2>1, <2>3, Counts DEF MemorySound
    <3>2. Cardinality(Holders(hk_peers, h)) # 0
      BY <2>2, <3>1
    <3>3. PICK a \in Hook : h \in hk_peers[a]
      BY <3>2, FS_EmptySet DEF Holders
    <3>4. a \in hk_peers[h]
      BY <2>1, <3>3 DEF ConnectionsSound
    <3>5. QED
      <4>1. hk_peers[h] # {} /\ \A p \in hk_peers[h] : hk_state[h] = "valid"
        BY <2>1, <3>4 DEF ConnectionsSound
      <4>2. QED
        BY <3>4, <4>1
  <2>4. ASSUME NEW n \in Node, nd_state[n] = "invalid" PROVE FALSE
    <3>1. nd_refs[n] # 0 /\ nd_refs[n] = 0 + Cardinality(HooksOf(n)) + NodeUses(stack, n)
          /\ Cardinality(HooksOf(n)) \in Nat
      BY <1>1, <2>1, <2>4, Counts DEF MemorySound, InNodelist
    <3>2. Cardinality(HooksOf(n)) # 0
      BY <2>2, <3>1
    <3>3. PICK h \in Hook : Allocated(h) /\ hk_key[h].node = n
      BY <3>2, FS_EmptySet DEF HooksOf
    <3>4. hk_state[h] = "invalid"
      BY <2>1, <2>4, <3>3 DEF MemorySound
    <3>5. QED
      BY <2>3, <3>3, <3>4
  <2>5. QED
    BY <2>3, <2>4
<1>2. QED
  BY <1>1, GraphInvariant, PTL
-----------------------------------------------------------------------------
(* Steps, by what they do to hooks.                                        *)

\* No hook is created, and a hook that stays keeps its key.
KeysKept == \A h \in Hook : Allocated(h)' => Allocated(h) /\ hk_key'[h] = hk_key[h]

\* What Release frees is only ever taken away.
LEMMA ReleaseKeepsKeys ==
  ASSUME NEW hr, NEW nr, NEW ns, NEW hs, Release(hr, nr, ns, hs),
         \A h \in Hook : hs[h] = "free" <=> hk_state[h] = "free"
  PROVE  KeysKept
<1>1. /\ hk_state' = [h \in Hook |-> IF h \in Dead(hr) THEN "free" ELSE hs[h]]
      /\ hk_key' = [h \in Hook |-> IF h \in Dead(hr) THEN NoKey ELSE hk_key[h]]
  BY DEF Release
<1>2. QED
  BY <1>1 DEF KeysKept, Allocated

\* Calls and refused commands touch no hook.
LEMMA UnchangedKeepsKeys ==
  ASSUME UNCHANGED <<hk_state, hk_key>>
  PROVE  KeysKept
BY DEF KeysKept, Allocated

\* The commands but NODECONNECT.
OtherCommands ==
  \E a, t \in Node :
    \/ NodeRemove(a, t)
    \/ Refused(a, t)
    \/ \E new \in Node : NodeCreate(a, t, new)
    \/ \E dst \in Node, srchook, dsthook \in Name, s, d \in Hook :
         NodeDisconnect(a, t, dst, srchook, dsthook, s, d)

Connecting ==
  \E a, t, dst \in Node, srchook, dsthook \in Name, s, d \in Hook :
    NodeConnect(a, t, dst, srchook, dsthook, s, d)

\* A command connects, or is one of the others.
LEMMA CommandKinds == Commands => OtherCommands \/ Connecting
BY DEF Commands, OtherCommands, Connecting

\* Every step but NODECONNECT leaves the keys of the hooks alone.
LEMMA StepKeepsKeys ==
  ASSUME Call \/ ReturnHook \/ ReturnNode \/ OtherCommands \/ UNCHANGED vars
  PROVE  KeysKept
<1>1. CASE Call
  BY <1>1, UnchangedKeepsKeys DEF Call, Wake, DataSend, Deliver
<1>2. CASE ReturnHook
  <2>1. Release([hk_refs EXCEPT ![Top.hook] = @ - 1], nd_refs, nd_state, hk_state)
    BY <1>2 DEF ReturnHook
  <2>2. QED
    BY <2>1, ReleaseKeepsKeys
<1>3. CASE ReturnNode
  <2>1. Release(hk_refs, [nd_refs EXCEPT ![Top.node] = @ - 1], nd_state, hk_state)
    BY <1>3 DEF ReturnNode
  <2>2. QED
    BY <2>1, ReleaseKeepsKeys
<1>4. ASSUME NEW a \in Node, NEW t \in Node, NodeRemove(a, t)
      PROVE  KeysKept
  <2> DEFINE cells == CellsOf(HooksOf(t))
             ns == [nd_state EXCEPT ![t] = "invalid"]
             hs == [h \in Hook |-> IF h \in HooksOf(t) THEN "invalid" ELSE hk_state[h]]
             nr == NodeRefsAfter(a, t, ns, [nd_refs EXCEPT ![t] = @ - 1])
  <2>1. Release(RefsWithout(cells), nr, ns, hs)
    BY <1>4 DEF NodeRemove
  <2>2. \A h \in Hook : hs[h] = "free" <=> hk_state[h] = "free"
    BY DEF HooksOf, Allocated
  <2> HIDE DEF cells, ns, hs, nr
  <2>3. QED
    BY <2>1, <2>2, ReleaseKeepsKeys
<1>5. ASSUME NEW a \in Node, NEW t \in Node, NEW dst \in Node,
             NEW srchook \in Name, NEW dsthook \in Name, NEW s \in Hook, NEW d \in Hook,
             NodeDisconnect(a, t, dst, srchook, dsthook, s, d)
      PROVE  KeysKept
  <2>1. Release(RefsWithout({<<s, d>>, <<d, s>>}), NodeRefsAfter(a, t, nd_state, nd_refs),
                nd_state, hk_state)
    BY <1>5 DEF NodeDisconnect
  <2>2. QED
    BY <2>1, ReleaseKeepsKeys
<1>6. ASSUME NEW a \in Node, NEW t \in Node,
             Refused(a, t) \/ \E new \in Node : NodeCreate(a, t, new)
      PROVE  KeysKept
  BY <1>6, UnchangedKeepsKeys DEF Refused, NodeCreate
<1>7. CASE OtherCommands
  BY <1>4, <1>5, <1>6, <1>7 DEF OtherCommands
<1>8. CASE UNCHANGED vars
  BY <1>8, UnchangedKeepsKeys DEF vars
<1>9. QED
  BY <1>1, <1>2, <1>3, <1>7, <1>8

\* dmm_hook_get never makes a second hook of a key: an invalid hook belongs
\* to an invalid node, and gets no namesake there.
LEMMA NoSecondHook ==
  ASSUME GraphInv, NEW n \in Node, NEW dir, NEW name, nd_state[n] = "valid",
         Found(n, dir, name) = {}, NEW h \in Hook, Allocated(h)
  PROVE  hk_key[h] # [node |-> n, dir |-> dir, name |-> name]
<1>1. nd_state[hk_key[h].node] = hk_state[h]
  BY DEF GraphInv, MemorySound
<1>2. QED
  BY <1>1 DEF Found

\* What NODECONNECT does to the hooks and the lists.
LEMMA ConnectEffect ==
  ASSUME GraphInv, NEW a \in Node, NEW t \in Node, NEW dst \in Node,
         NEW srchook \in Name, NEW dsthook \in Name, NEW s \in Hook, NEW d \in Hook,
         NodeConnect(a, t, dst, srchook, dsthook, s, d)
  PROVE  /\ nd_state[t] = "valid" /\ nd_state[dst] = "valid" /\ nd_state' = nd_state
         /\ s # d /\ d \notin hk_peers[s]
         /\ hk_key'[s] = [node |-> t, dir |-> "out", name |-> srchook]
         /\ hk_key'[d] = [node |-> dst, dir |-> "in", name |-> dsthook]
         /\ Allocated(s)' /\ Allocated(d)'
         /\ \A h \in Hook \ {s, d} : /\ hk_key'[h] = hk_key[h]
                                     /\ hk_peers'[h] = hk_peers[h]
                                     /\ Allocated(h)' <=> Allocated(h)
         /\ hk_peers'[s] = hk_peers[s] \cup {d} /\ hk_peers'[d] = hk_peers[d] \cup {s}
         /\ \A h \in Hook : Allocated(h) => hk_key'[h] = hk_key[h]
<1> DEFINE fresh  == {h \in {s, d} : ~Allocated(h)}
           key(h) == IF h = s THEN [node |-> t, dir |-> "out", name |-> srchook]
                              ELSE [node |-> dst, dir |-> "in", name |-> dsthook]
<1>1. /\ nd_state[t] = "valid" /\ s # d /\ d \notin hk_peers[s] /\ nd_state' = nd_state
      /\ hk_state' = [h \in Hook |-> IF h \in fresh THEN "valid" ELSE hk_state[h]]
      /\ hk_key' = [h \in Hook |-> IF h \in fresh THEN key(h) ELSE hk_key[h]]
      /\ hk_peers' = [hk_peers EXCEPT ![s] = @ \cup {d}, ![d] = @ \cup {s}]
  BY DEF NodeConnect, Command
<1>2. /\ nd_state[dst] = "valid"
      /\ Allocated(s) => hk_state[s] = "valid" /\ hk_key[s] = key(s)
      /\ Allocated(d) => hk_state[d] = "valid" /\ hk_key[d] = key(d)
  BY <1>1, Ends DEF NodeConnect
<1>3. /\ key(s) = [node |-> t, dir |-> "out", name |-> srchook]
      /\ key(d) = [node |-> dst, dir |-> "in", name |-> dsthook]
  BY <1>1
<1>4. hk_peers \in [Hook -> SUBSET Hook]
  BY DEF GraphInv, TypeOK
<1>5. /\ fresh \subseteq {s, d} /\ \A h \in Hook : h \in fresh => ~Allocated(h)
      /\ \A h \in {s, d} : h \in fresh \/ Allocated(h)
  OBVIOUS
<1> HIDE DEF fresh, key
<1>6. /\ hk_key'[s] = key(s) /\ hk_key'[d] = key(d)
      /\ hk_state'[s] = "valid" /\ hk_state'[d] = "valid"
  BY <1>1, <1>2, <1>5
<1>7. \A h \in Hook \ {s, d} : hk_key'[h] = hk_key[h] /\ hk_state'[h] = hk_state[h]
  BY <1>1, <1>5
<1>8. \A h \in Hook : Allocated(h) => hk_key'[h] = hk_key[h]
  BY <1>1, <1>5
<1>9. /\ \A h \in Hook \ {s, d} : hk_peers'[h] = hk_peers[h]
      /\ hk_peers'[s] = hk_peers[s] \cup {d} /\ hk_peers'[d] = hk_peers[d] \cup {s}
  BY <1>1, <1>4
<1>10. QED
  BY <1>1, <1>2, <1>3, <1>6, <1>7, <1>8, <1>9 DEF Allocated

\* The end of a connection is the only hook of its key.
LEMMA EndIsOnly ==
  ASSUME GraphInv, HookNamesUnique, NEW n \in Node, NEW dir, NEW name, nd_state[n] = "valid",
         NEW h \in Hook, NEW g \in Hook, Gets(h, n, dir, name),
         Allocated(g), hk_key[g] = [node |-> n, dir |-> dir, name |-> name]
  PROVE  g = h /\ Allocated(h)
<1>1. CASE h \in Found(n, dir, name)
  BY <1>1 DEF Found, HookNamesUnique, Allocated
<1>2. CASE h \notin Found(n, dir, name)
  BY <1>2, NoSecondHook DEF Gets
<1>3. QED
  BY <1>1, <1>2
-----------------------------------------------------------------------------
(* Hook names.                                                             *)

\* Steps that create no hook keep the names unique.
LEMMA NamesStay ==
  ASSUME HookNamesUnique, KeysKept
  PROVE  HookNamesUnique'
BY DEF HookNamesUnique, KeysKept

\* NODECONNECT creates a hook only where the search found none.
LEMMA ConnectKeepsNames ==
  ASSUME GraphInv, HookNamesUnique, NEW a \in Node, NEW t \in Node, NEW dst \in Node,
         NEW srchook \in Name, NEW dsthook \in Name, NEW s \in Hook, NEW d \in Hook,
         NodeConnect(a, t, dst, srchook, dsthook, s, d)
  PROVE  HookNamesUnique'
<1>1. /\ nd_state[t] = "valid" /\ nd_state[dst] = "valid" /\ s # d
      /\ hk_key'[s] = [node |-> t, dir |-> "out", name |-> srchook]
      /\ hk_key'[d] = [node |-> dst, dir |-> "in", name |-> dsthook]
      /\ \A h \in Hook \ {s, d} : hk_key'[h] = hk_key[h] /\ (Allocated(h)' <=> Allocated(h))
  BY ConnectEffect
<1>2. Gets(s, t, "out", srchook) /\ Gets(d, dst, "in", dsthook)
  BY DEF NodeConnect
<1>3. hk_key'[s] # hk_key'[d]
  BY <1>1
<1>4. ASSUME NEW h \in Hook \ {s, d}, Allocated(h)
      PROVE  hk_key'[h] # hk_key'[s] /\ hk_key'[h] # hk_key'[d]
  BY <1>1, <1>2, <1>4, EndIsOnly
<1>5. ASSUME NEW h \in Hook, NEW g \in Hook, Allocated(h)', Allocated(g)', hk_key'[h] = hk_key'[g]
      PROVE  h = g
  BY <1>1, <1>3, <1>4, <1>5 DEF HookNamesUnique
<1>6. QED
  BY <1>5 DEF HookNamesUnique

\* No two hooks of a node have the same direction and name, the allocated
\* hooks of removed nodes included: a search finds at most one.
THEOREM NamesAreUnique == Spec => []HookNamesUnique
<1>1. Init => HookNamesUnique
  BY DEF Init, HookNamesUnique, Allocated
<1>2. GraphInv /\ HookNamesUnique /\ [Next]_vars => HookNamesUnique'
  <2>1. GraphInv /\ HookNamesUnique /\ Connecting => HookNamesUnique'
    BY ConnectKeepsNames DEF Connecting
  <2>2. QED
    BY <2>1, StepKeepsKeys, NamesStay, CommandKinds DEF Next
<1>3. QED
  BY <1>1, <1>2, GraphInvariant, PTL DEF Spec
-----------------------------------------------------------------------------
(* The promise of DmmTopology.                                             *)

\* Links, as a function of the lists and the keys.
LinkBy(keys, h, p) == <<keys[h].node, keys[h].name, keys[p].node, keys[p].name>>
CellsBy(peers, keys) == {c \in Hook \X Hook : c[2] \in peers[c[1]] /\ keys[c[1]].dir = "out"}
LinksBy(peers, keys) == {LinkBy(keys, c[1], c[2]) : c \in CellsBy(peers, keys)}

\* Links and the next Links are that function of the state.
LEMMA LinksAreBy ==
  Links = LinksBy(hk_peers, hk_key) /\ Links' = LinksBy(hk_peers', hk_key')
BY DEF Links, LinkOf, Cells, LinksBy, LinkBy, CellsBy

\* Which links there are, said of the two hooks.
LEMMA LinkIn ==
  ASSUME NEW peers \in [Hook -> SUBSET Hook], NEW keys, NEW l
  PROVE  l \in LinksBy(peers, keys)
           <=> \E h, p \in Hook : /\ p \in peers[h] /\ keys[h].dir = "out"
                                  /\ l = LinkBy(keys, h, p)
<1>1. \A h, p \in Hook : <<h, p>> \in CellsBy(peers, keys) <=> p \in peers[h] /\ keys[h].dir = "out"
  BY DEF CellsBy
<1>2. ASSUME l \in LinksBy(peers, keys)
      PROVE  \E h, p \in Hook : <<h, p>> \in CellsBy(peers, keys) /\ l = LinkBy(keys, h, p)
  <2>1. PICK c \in CellsBy(peers, keys) : l = LinkBy(keys, c[1], c[2])
    BY <1>2 DEF LinksBy
  <2>2. c[1] \in Hook /\ c[2] \in Hook /\ c = <<c[1], c[2]>>
    BY DEF CellsBy
  <2>3. QED
    BY <2>1, <2>2
<1>3. ASSUME NEW h \in Hook, NEW p \in Hook, <<h, p>> \in CellsBy(peers, keys)
      PROVE  LinkBy(keys, h, p) \in LinksBy(peers, keys)
  <2>1. LinkBy(keys, <<h, p>>[1], <<h, p>>[2]) \in LinksBy(peers, keys)
    BY <1>3 DEF LinksBy
  <2>2. QED
    BY <2>1
<1>4. QED
  BY <1>1, <1>2, <1>3

\* Links only look at the keys of hooks that have peers.
LEMMA LinksSameKeys ==
  ASSUME NEW peers \in [Hook -> SUBSET Hook], NEW keys, NEW K,
         \A h \in Hook : \A p \in peers[h] : keys[h] = K[h] /\ keys[p] = K[p]
  PROVE  LinksBy(peers, keys) = LinksBy(peers, K)
<1>1. \A h \in Hook : \A p \in peers[h] : LinkBy(keys, h, p) = LinkBy(K, h, p)
  BY DEF LinkBy
<1>2. ASSUME NEW l PROVE l \in LinksBy(peers, keys) <=> l \in LinksBy(peers, K)
  BY <1>1, LinkIn
<1>3. QED
  BY <1>2

\* Hooks with peers are allocated and belong to valid nodes.
LEMMA PeersAre ==
  ASSUME GraphInv, NEW h \in Hook, NEW p \in hk_peers[h]
  PROVE  /\ p \in Hook /\ h \in hk_peers[p] /\ hk_key[h].dir # hk_key[p].dir
         /\ Allocated(h) /\ Allocated(p)
         /\ hk_key[h] \in Key /\ hk_key[p] \in Key
         /\ nd_state[hk_key[h].node] = "valid" /\ nd_state[hk_key[p].node] = "valid"
         /\ hk_key[h].dir = "out" => hk_key[p].dir = "in" /\ LinkOf(h, p) \in Topology!Link
<1>1. hk_peers \in [Hook -> SUBSET Hook] /\ ConnectionsSound /\ MemorySound
  BY DEF GraphInv, TypeOK
<1>2. p \in Hook /\ h \in hk_peers[p]
  BY <1>1 DEF ConnectionsSound
<1>3. /\ hk_state[h] = "valid" /\ nd_state[hk_key[h].node] = "valid"
      /\ hk_state[p] = "valid" /\ nd_state[hk_key[p].node] = "valid"
      /\ hk_key[h].dir # hk_key[p].dir
  BY <1>1, <1>2 DEF ConnectionsSound
<1>4. hk_key[h] \in Key /\ hk_key[p] \in Key
  BY <1>1, <1>2, <1>3 DEF MemorySound, Allocated
<1>5. hk_key[h].dir = "out" => hk_key[p].dir = "in" /\ LinkOf(h, p) \in Topology!Link
  BY <1>3, <1>4 DEF Key, LinkOf, Topology!Link
<1>6. QED
  BY <1>2, <1>3, <1>4, <1>5 DEF Allocated

Live == {n \in Node : nd_state[n] = "valid"}
Used == {n \in Node : nd_state[n] # "unborn"}

\* A step that creates no hook shows by its lists and its nodes only.
LEMMA LinksAfter ==
  ASSUME GraphInv', KeysKept
  PROVE  /\ Links' = LinksBy(hk_peers', hk_key)
         /\ hk_peers' \in [Hook -> SUBSET Hook]
<1>1. hk_peers' \in [Hook -> SUBSET Hook]
      /\ \A h \in Hook : \A p \in hk_peers'[h] : h \in hk_peers'[p] /\ hk_state'[h] = "valid"
  BY DEF GraphInv, TypeOK, ConnectionsSound
<1>2. \A h \in Hook : \A p \in hk_peers'[h] : hk_key'[h] = hk_key[h] /\ hk_key'[p] = hk_key[p]
  BY <1>1 DEF KeysKept, Allocated
<1>3. QED
  BY <1>1, <1>2, LinksSameKeys, LinksAreBy

\* A step that keeps lists, keys and the states of nodes does not show.
LEMMA SilentStep ==
  ASSUME GraphInv', KeysKept, NodesAre(nd_state), hk_peers' = hk_peers
  PROVE  UNCHANGED <<Live, Used, Links>>
<1>1. UNCHANGED <<Live, Used>>
  BY DEF Live, Used, NodesAre
<1>2. Links' = Links
  BY LinksAfter, LinksAreBy
<1>3. QED
  BY <1>1, <1>2
-----------------------------------------------------------------------------
(* Each command is the step it promises.                                   *)

\* NODECREATE adds one node.
LEMMA CreateShows ==
  ASSUME GraphInv, GraphInv', NEW a \in Node, NEW t \in Node, NEW new \in Node,
         NodeCreate(a, t, new), KeysKept
  PROVE  /\ new \notin Used /\ Live' = Live \cup {new} /\ Used' = Used \cup {new}
         /\ Links' = Links
<1>1. /\ nd_state[new] = "unborn" /\ nd_state' = [nd_state EXCEPT ![new] = "valid"]
      /\ hk_peers' = hk_peers /\ nd_state \in [Node -> NodeState]
  BY DEF NodeCreate, GraphInv, TypeOK, NodeState
<1>2. \A n \in Node : nd_state'[n] = IF n = new THEN "valid" ELSE nd_state[n]
  BY <1>1
<1>3. Links' = Links
  BY <1>1, LinksAfter, LinksAreBy
<1>4. QED
  BY <1>1, <1>2, <1>3 DEF Live, Used

\* A cell of the graph is the link of its keys, and no other cell is.
LEMMA CellOfLink ==
  ASSUME GraphInv, HookNamesUnique,
         NEW h \in Hook, NEW p \in hk_peers[h], hk_key[h].dir = "out",
         NEW g \in Hook, NEW q \in hk_peers[g], hk_key[g].dir = "out",
         LinkBy(hk_key, h, p) = LinkBy(hk_key, g, q)
  PROVE  h = g /\ p = q
<1>1. /\ Allocated(h) /\ Allocated(p) /\ Allocated(g) /\ Allocated(q) /\ p \in Hook /\ q \in Hook
      /\ hk_key[h] \in Key /\ hk_key[p] \in Key /\ hk_key[g] \in Key /\ hk_key[q] \in Key
      /\ hk_key[p].dir = "in" /\ hk_key[q].dir = "in"
  BY PeersAre
<1>2. hk_key[h] = hk_key[g] /\ hk_key[p] = hk_key[q]
  BY <1>1 DEF LinkBy, Key
<1>3. QED
  BY <1>1, <1>2 DEF HookNamesUnique

\* NODECONNECT adds the link of its two names, which was not there.
LEMMA ConnectShows ==
  ASSUME GraphInv, GraphInv', HookNamesUnique,
         NEW a \in Node, NEW t \in Node, NEW dst \in Node,
         NEW srchook \in Name, NEW dsthook \in Name, NEW s \in Hook, NEW d \in Hook,
         NodeConnect(a, t, dst, srchook, dsthook, s, d)
  PROVE  LET l == <<t, srchook, dst, dsthook>>
         IN  /\ l \notin Links /\ t \in Live /\ dst \in Live
             /\ Links' = Links \cup {l} /\ UNCHANGED <<Live, Used>>
<1> DEFINE l == <<t, srchook, dst, dsthook>>
<1>1. /\ nd_state[t] = "valid" /\ nd_state[dst] = "valid" /\ nd_state' = nd_state
      /\ s # d /\ d \notin hk_peers[s]
      /\ hk_key'[s] = [node |-> t, dir |-> "out", name |-> srchook]
      /\ hk_key'[d] = [node |-> dst, dir |-> "in", name |-> dsthook]
      /\ \A h \in Hook \ {s, d} : hk_peers'[h] = hk_peers[h]
      /\ hk_peers'[s] = hk_peers[s] \cup {d} /\ hk_peers'[d] = hk_peers[d] \cup {s}
      /\ \A h \in Hook : Allocated(h) => hk_key'[h] = hk_key[h]
  BY ConnectEffect
<1>2. hk_peers \in [Hook -> SUBSET Hook] /\ hk_peers' \in [Hook -> SUBSET Hook]
  BY DEF GraphInv, TypeOK
<1>3. l \notin LinksBy(hk_peers, hk_key)
  <2> SUFFICES ASSUME NEW h \in Hook, NEW p \in hk_peers[h], hk_key[h].dir = "out",
                      l = LinkBy(hk_key, h, p)
               PROVE  FALSE
    BY <1>2, LinkIn
  <2>1. /\ Allocated(h) /\ Allocated(p) /\ p \in Hook /\ hk_key[p].dir = "in"
        /\ hk_key[h] \in Key /\ hk_key[p] \in Key
    BY PeersAre
  <2>2. /\ hk_key[h] = [node |-> t, dir |-> "out", name |-> srchook]
        /\ hk_key[p] = [node |-> dst, dir |-> "in", name |-> dsthook]
    BY <2>1 DEF LinkBy, Key
  <2>3. Gets(s, t, "out", srchook) /\ Gets(d, dst, "in", dsthook)
    BY DEF NodeConnect
  <2>4. h = s /\ p = d
    BY <1>1, <2>1, <2>2, <2>3, EndIsOnly
  <2>5. QED
    BY <1>1, <2>4
<1>4. ASSUME NEW h \in Hook, NEW p \in hk_peers[h]
      PROVE  p \in hk_peers'[h] /\ hk_key'[h] = hk_key[h] /\ hk_key'[p] = hk_key[p]
  BY <1>1, PeersAre
<1>5. ASSUME NEW h \in Hook, NEW p \in hk_peers'[h], hk_key'[h].dir = "out"
      PROVE  p \in hk_peers[h] \/ (h = s /\ p = d)
  BY <1>1, <1>5
<1>6. ASSUME NEW m
      PROVE  m \in LinksBy(hk_peers', hk_key') <=> m \in LinksBy(hk_peers, hk_key) \/ m = l
  <2>1. m \in LinksBy(hk_peers', hk_key') <=>
          \E h, p \in Hook : /\ p \in hk_peers'[h] /\ hk_key'[h].dir = "out"
                             /\ m = LinkBy(hk_key', h, p)
    BY <1>2, LinkIn
  <2>2. m \in LinksBy(hk_peers, hk_key) <=>
          \E h, p \in Hook : /\ p \in hk_peers[h] /\ hk_key[h].dir = "out"
                             /\ m = LinkBy(hk_key, h, p)
    BY <1>2, LinkIn
  <2>3. LinkBy(hk_key', s, d) = l /\ hk_key'[s].dir = "out" /\ d \in hk_peers'[s]
    BY <1>1 DEF LinkBy
  <2>4. \A h, p \in Hook : p \in hk_peers[h] => LinkBy(hk_key', h, p) = LinkBy(hk_key, h, p)
    BY <1>4 DEF LinkBy
  <2> HIDE DEF l
  <2>5. QED
    BY <1>4, <1>5, <2>1, <2>2, <2>3, <2>4
<1>7. Links' = Links \cup {l}
  BY <1>6, LinksAreBy
<1>8. QED
  BY <1>1, <1>3, <1>7, LinksAreBy DEF Live, Used

\* NODEDISCONNECT takes away that link and no other.
LEMMA DisconnectShows ==
  ASSUME GraphInv, GraphInv', HookNamesUnique, KeysKept, NodesAre(nd_state),
         NEW a \in Node, NEW t \in Node, NEW dst \in Node,
         NEW srchook \in Name, NEW dsthook \in Name, NEW s \in Hook, NEW d \in Hook,
         NodeDisconnect(a, t, dst, srchook, dsthook, s, d)
  PROVE  LET l == <<t, srchook, dst, dsthook>>
         IN  /\ l \in Links /\ Links' = Links \ {l} /\ UNCHANGED <<Live, Used>>
<1> DEFINE l == <<t, srchook, dst, dsthook>>
           cells == {<<s, d>>, <<d, s>>}
<1>1. /\ hk_key[s] = [node |-> t, dir |-> "out", name |-> srchook]
      /\ hk_key[d] = [node |-> dst, dir |-> "in", name |-> dsthook]
      /\ d \in hk_peers[s] /\ hk_peers' = PeersWithout(cells)
  BY DEF NodeDisconnect, Found
<1>2. hk_peers \in [Hook -> SUBSET Hook] /\ hk_peers' \in [Hook -> SUBSET Hook]
  BY DEF GraphInv, TypeOK
<1>3. l = LinkBy(hk_key, s, d) /\ hk_key[s].dir = "out" /\ hk_key[d].dir = "in"
  BY <1>1 DEF LinkBy
<1>4. ASSUME NEW h \in Hook, NEW p \in Hook, hk_key[h].dir = "out"
      PROVE  p \in hk_peers'[h] <=> p \in hk_peers[h] /\ ~(h = s /\ p = d)
  BY <1>1, <1>3, <1>4 DEF PeersWithout
<1> HIDE DEF l, cells
<1>5. l \in LinksBy(hk_peers, hk_key)
  BY <1>1, <1>2, <1>3, LinkIn
<1>6. ASSUME NEW m
      PROVE  m \in LinksBy(hk_peers', hk_key) <=> m \in LinksBy(hk_peers, hk_key) /\ m # l
  <2>1. m \in LinksBy(hk_peers', hk_key) <=>
          \E h, p \in Hook : /\ p \in hk_peers'[h] /\ hk_key[h].dir = "out"
                             /\ m = LinkBy(hk_key, h, p)
    BY <1>2, LinkIn
  <2>2. m \in LinksBy(hk_peers, hk_key) <=>
          \E h, p \in Hook : /\ p \in hk_peers[h] /\ hk_key[h].dir = "out"
                             /\ m = LinkBy(hk_key, h, p)
    BY <1>2, LinkIn
  <2>3. \A h \in Hook : \A p \in hk_peers[h] :
          hk_key[h].dir = "out" => (LinkBy(hk_key, h, p) = l <=> h = s /\ p = d)
    BY <1>1, <1>3, CellOfLink
  <2>4. QED
    BY <1>4, <2>1, <2>2, <2>3
<1>7. Links' = Links \ {l}
  BY <1>6, LinksAfter, LinksAreBy
<1>8. QED
  BY <1>5, <1>7, LinksAreBy DEF Live, Used, NodesAre, l

\* NODERM takes away the node with every link at it.
LEMMA RemoveShows ==
  ASSUME GraphInv, GraphInv', KeysKept,
         NEW a \in Node, NEW t \in Node, NodeRemove(a, t),
         NodesAre([nd_state EXCEPT ![t] = "invalid"])
  PROVE  /\ t \in Live /\ Live' = Live \ {t} /\ Used' = Used
         /\ Links' = {l \in Links : ~(l[1] = t \/ l[3] = t)}
<1> DEFINE own == HooksOf(t)
           cells == CellsOf(own)
<1>1. nd_state[t] = "valid" /\ hk_peers' = PeersWithout(cells)
  BY DEF NodeRemove, Command
<1>2. /\ hk_peers \in [Hook -> SUBSET Hook] /\ hk_peers' \in [Hook -> SUBSET Hook]
      /\ nd_state \in [Node -> NodeState]
  BY DEF GraphInv, TypeOK, NodeState
<1>3. ASSUME NEW h \in Hook, NEW p \in Hook
      PROVE  p \in hk_peers'[h] <=> p \in hk_peers[h] /\ hk_key[h].node # t /\ hk_key[p].node # t
  <2>1. p \in hk_peers'[h] <=> p \in hk_peers[h] /\ <<h, p>> \notin cells
    BY <1>1 DEF PeersWithout
  <2>2. p \in hk_peers[h] => /\ h \in hk_peers[p] /\ Allocated(h) /\ Allocated(p)
    BY PeersAre
  <2>3. p \in hk_peers[h] => (<<h, p>> \in cells <=> h \in own \/ p \in own)
    BY <2>2 DEF CellsOf
  <2>4. p \in hk_peers[h] => /\ h \in own <=> hk_key[h].node = t
                             /\ p \in own <=> hk_key[p].node = t
    BY <2>2 DEF HooksOf
  <2>5. QED
    BY <2>1, <2>3, <2>4
<1> HIDE DEF cells, own
<1>4. ASSUME NEW m
      PROVE  m \in LinksBy(hk_peers', hk_key)
               <=> m \in LinksBy(hk_peers, hk_key) /\ ~(m[1] = t \/ m[3] = t)
  <2>1. m \in LinksBy(hk_peers', hk_key) <=>
          \E h, p \in Hook : /\ p \in hk_peers'[h] /\ hk_key[h].dir = "out"
                             /\ m = LinkBy(hk_key, h, p)
    BY <1>2, LinkIn
  <2>2. m \in LinksBy(hk_peers, hk_key) <=>
          \E h, p \in Hook : /\ p \in hk_peers[h] /\ hk_key[h].dir = "out"
                             /\ m = LinkBy(hk_key, h, p)
    BY <1>2, LinkIn
  <2>3. \A h, p \in Hook : /\ LinkBy(hk_key, h, p)[1] = hk_key[h].node
                           /\ LinkBy(hk_key, h, p)[3] = hk_key[p].node
    BY DEF LinkBy
  <2>4. QED
    BY <1>3, <2>1, <2>2, <2>3
<1>5. Links' = {l \in Links : ~(l[1] = t \/ l[3] = t)}
  BY <1>4, LinksAfter, LinksAreBy
<1>6. \A n \in Node : /\ nd_state'[n] = "valid" <=> nd_state[n] = "valid" /\ n # t
                      /\ nd_state'[n] = "unborn" <=> nd_state[n] = "unborn"
  BY <1>1, <1>2 DEF NodesAre
<1>7. QED
  BY <1>1, <1>5, <1>6 DEF Live, Used
-----------------------------------------------------------------------------
(* The refinement.                                                         *)

\* dmm_startup: one live node and no links.
LEMMA InitShows ==
  ASSUME Init
  PROVE  Topology!Init
<1>1. PICK n \in Sink : nd_state = [m \in Node |-> IF m = n THEN "valid" ELSE "unborn"]
  BY DEF Init
<1>2. n \in Node /\ Live = {n} /\ Used = {n}
  BY <1>1, GraphAssumption DEF Live, Used
<1>3. Links = {}
  BY DEF Init, Links, Cells
<1>4. QED
  BY <1>2, <1>3 DEF Topology!Init, Live, Used

\* Calls, returns and commands that change no list and no node do not show.
LEMMA SilentSteps ==
  ASSUME GraphInv, GraphInv', KeysKept,
         \/ Call \/ ReturnHook \/ ReturnNode \/ UNCHANGED vars
         \/ \E a, t \in Node : Refused(a, t)
  PROVE  UNCHANGED <<Live, Used, Links>>
<1>1. hk_peers' = hk_peers
  BY DEF Call, Wake, DataSend, Deliver, ReturnHook, ReturnNode, vars, Refused
<1>2. CASE ReturnHook \/ ReturnNode
  <2>1. NodesAre(nd_state)
    BY <1>2, ReturnHookInv, ReturnNodeInv
  <2>2. QED
    BY <1>1, <2>1, SilentStep
<1>3. CASE ~(ReturnHook \/ ReturnNode)
  <2>1. nd_state' = nd_state
    BY <1>3 DEF Call, Wake, DataSend, Deliver, vars, Refused
  <2>2. QED
    BY <1>1, <2>1, SilentStep DEF NodesAre
<1>4. QED
  BY <1>2, <1>3

\* A command is one step of the promise.
LEMMA CommandsShow ==
  ASSUME GraphInv, GraphInv', HookNamesUnique, Commands
  PROVE  [Topology!Next]_(Topology!topology)
<1>0. (KeysKept /\ OtherCommands) \/ Connecting
  BY StepKeepsKeys, CommandKinds
<1>1. ASSUME NEW a \in Node, NEW t \in Node, NEW dst \in Node,
             NEW srchook \in Name, NEW dsthook \in Name, NEW s \in Hook, NEW d \in Hook,
             NodeConnect(a, t, dst, srchook, dsthook, s, d)
      PROVE  Topology!Next
  <2> DEFINE l == <<t, srchook, dst, dsthook>>
  <2>1. /\ l \notin Links /\ t \in Live /\ dst \in Live
        /\ Links' = Links \cup {l} /\ UNCHANGED <<Live, Used>>
    BY <1>1, ConnectShows
  <2>2. l \in Topology!Link /\ l[1] = t /\ l[3] = dst
    BY DEF Topology!Link
  <2> HIDE DEF l
  <2>3. Topology!Connect(l)
    BY <2>1, <2>2 DEF Topology!Connect, Live, Used
  <2>4. QED
    BY <2>2, <2>3 DEF Topology!Next
<1>2. ASSUME KeysKept, NEW a \in Node, NEW t \in Node, NEW dst \in Node,
             NEW srchook \in Name, NEW dsthook \in Name, NEW s \in Hook, NEW d \in Hook,
             NodeDisconnect(a, t, dst, srchook, dsthook, s, d)
      PROVE  Topology!Next
  <2> DEFINE l == <<t, srchook, dst, dsthook>>
  <2>1. NodesAre(nd_state)
    BY <1>2, NodeDisconnectInv
  <2>2. l \in Links /\ Links' = Links \ {l} /\ UNCHANGED <<Live, Used>>
    BY <1>2, <2>1, DisconnectShows
  <2> HIDE DEF l
  <2>3. Topology!Disconnect(l)
    BY <2>2 DEF Topology!Disconnect, Live, Used
  <2>4. QED
    BY <2>2, <2>3 DEF Topology!Next
<1>3. ASSUME KeysKept, NEW a \in Node, NEW t \in Node, NodeRemove(a, t)
      PROVE  Topology!Next
  <2>1. NodesAre([nd_state EXCEPT ![t] = "invalid"])
    BY <1>3, NodeRemoveInv
  <2>2. /\ t \in Live /\ Live' = Live \ {t} /\ Used' = Used
        /\ Links' = {l \in Links : ~(l[1] = t \/ l[3] = t)}
    BY <1>3, <2>1, RemoveShows
  <2>3. Links' = Links \ {l \in Links : l[1] = t \/ l[3] = t}
    BY <2>2
  <2>4. Topology!Remove(t)
    BY <2>2, <2>3 DEF Topology!Remove, Topology!LinksOf, Live, Used
  <2>5. QED
    BY <2>4 DEF Topology!Next
<1>4. ASSUME KeysKept, NEW a \in Node, NEW t \in Node, NEW new \in Node, NodeCreate(a, t, new)
      PROVE  Topology!Next
  <2>1. /\ new \notin Used /\ Live' = Live \cup {new} /\ Used' = Used \cup {new}
        /\ Links' = Links
    BY <1>4, CreateShows
  <2>2. Topology!Create(new)
    BY <2>1 DEF Topology!Create, Live, Used
  <2>3. QED
    BY <2>2 DEF Topology!Next
<1>5. ASSUME KeysKept, NEW a \in Node, NEW t \in Node, Refused(a, t)
      PROVE  UNCHANGED Topology!topology
  BY <1>5, SilentSteps DEF Topology!topology, Live, Used
<1>6. QED
  BY <1>0, <1>1, <1>2, <1>3, <1>4, <1>5 DEF OtherCommands, Connecting

\* Every step of the code is one step of the graph that the control messages
\* promise, or none: a connection is identified by the names of its hooks,
\* and no command does half of its work.
THEOREM GraphImplementsTopology == Spec => ImplementsTopology
<1>1. Init => Topology!Init
  BY InitShows
<1>2. ASSUME GraphInv, GraphInv', HookNamesUnique, [Next]_vars
      PROVE  [Topology!Next]_(Topology!topology)
  <2>1. CASE Commands
    BY <1>2, <2>1, CommandsShow
  <2>2. CASE Call \/ ReturnHook \/ ReturnNode \/ UNCHANGED vars
    <3>1. UNCHANGED <<Live, Used, Links>>
      BY <1>2, <2>2, StepKeepsKeys, SilentSteps
    <3>2. QED
      BY <3>1 DEF Topology!topology, Live, Used
  <2>3. QED
    BY <1>2, <2>1, <2>2 DEF Next
<1>3. QED
  BY <1>1, <1>2, GraphInvariant, NamesAreUnique, PTL DEF Spec, ImplementsTopology, Topology!Spec
=============================================================================
