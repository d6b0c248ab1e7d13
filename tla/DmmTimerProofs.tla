---------------------------- MODULE DmmTimerProofs ----------------------------
(***************************************************************************)
(* Timers, for any number of nodes and timers and any times: references,   *)
(* subscriptions and the trigger list stay in order through whatever       *)
(* handlers do while the loop triggers, under the condition that none of   *)
(* them removes the cell or the timer that the loop has saved              *)
(* (RemoveNext = FALSE).                                                   *)
(***************************************************************************)
EXTENDS DmmTimer, DmmEventProofs, WellFoundedInduction

\* The list is in the order of these times.
SortedBy(q, when) == \A i, j \in DOMAIN q : i < j => when[q[i]] <= when[q[j]]

\* The trigger list holds valid timers, each once, the earliest first.
ListInv ==
  /\ queue \in Seq(Timer) /\ NoTwice(queue) /\ SortedBy(queue, tm_next)
  /\ \A t \in Timer : Registered(t) => ev_state[t] = "valid"

\* References, counted by the subscribers that the nodes know of.
CountsInv ==
  \A t \in Timer :
    ev_refs[t] = (IF ev_state[t] = "valid" THEN 1 ELSE 0)
                 + Cardinality(NodesOf(nd_events, t))
                 + (IF Registered(t) THEN 1 ELSE 0) + (IF tm = t THEN 1 ELSE 0)

\* Only valid timers have subscribers; an invalid one is in the loop's hands,
\* and what is in its hands has been created.
LifeInv ==
  /\ \A t \in Timer : NodesOf(nd_events, t) # {} => ev_state[t] = "valid"
  /\ \A t \in Timer : ev_state[t] = "invalid" => tm = t
  /\ tm # NoTimer => ev_state[tm] \in {"valid", "invalid"}

\* The loop sends the timer it triggers, has saved one that comes after it in
\* the list, and forces a trigger only with the first timer of a timeout.
CursorInv ==
  /\ sending = tm /\ (loop = "send" <=> tm # NoTimer)
  /\ loop = "idle" => tmptm = NoTimer
  /\ tmptm # NoTimer => Registered(tmptm) /\ tmptm # tm
  /\ limit <= clock + Coalesce
  /\ loop = "check" /\ force => tmptm # NoTimer /\ tm_next[tmptm] <= clock + Coalesce

\* Inductive.
TimerInv ==
  /\ SubsInv /\ TypeOK
  /\ ListInv /\ CountsInv /\ LifeInv /\ CursorInv /\ RegisteredAsSet
-----------------------------------------------------------------------------
(* The trigger list.                                                       *)

\* Removing timers keeps the order.
LEMMA KeptSorted ==
  ASSUME NEW T, NEW q \in Seq(T), NEW gone, NEW when \in [T -> Nat], SortedBy(q, when)
  PROVE  SortedBy(Kept(q, gone), when)
<1> DEFINE t == Kept(q, gone)
<1>1. t \in Seq(T) /\ InOrderOf(t, q)
  BY KeptIs
<1> HIDE DEF t
<1>2. ASSUME NEW k \in DOMAIN t, NEW l \in DOMAIN t, k < l
      PROVE  when[t[k]] <= when[t[l]]
  <2>1. PICK i, j \in DOMAIN q : i < j /\ t[k] = q[i] /\ t[l] = q[j]
    BY <1>1, <1>2 DEF InOrderOf
  <2>2. QED
    BY <2>1 DEF SortedBy
<1>3. SortedBy(t, when)
  BY <1>2 DEF SortedBy
<1>4. QED
  BY <1>3 DEF t

\* A set of positions has a first one.
LEMMA FirstPosition ==
  ASSUME NEW S \in SUBSET Nat, S # {}
  PROVE  \E i \in S : \A j \in S : i <= j
<1> DEFINE R == OpToRel(<, Nat)
<1>1. IsWellFoundedOn(R, Nat)
  BY NatLessThanWellFounded
<1>2. \A x, y \in Nat : x < y => <<x, y>> \in R
  BY DEF OpToRel
<1> HIDE DEF R
<1>3. PICK x \in S : \A y \in S : <<y, x>> \notin R
  BY <1>1, WFMin
<1>4. \A y \in S : x \in Nat /\ y \in Nat /\ ~(y < x)
  BY <1>2, <1>3
<1>5. \A y \in S : x <= y
  BY <1>4
<1>6. QED
  BY <1>5

\* dmm_timer_register: the timer joins the list, at its place.
LEMMA PlaceIs ==
  ASSUME NEW T, NEW q \in Seq(T), NoTwice(q), NEW t \in T, t \notin Members(q),
         NEW when \in [T -> Nat], SortedBy(q, when)
  PROVE  /\ Place(q, t, when) \in Seq(T) /\ NoTwice(Place(q, t, when))
         /\ SortedBy(Place(q, t, when), when)
         /\ Members(Place(q, t, when)) = Members(q) \cup {t}
<1> DEFINE n == Len(q)
           later == {i \in DOMAIN q : when[q[i]] > when[t]}
           k == IF later = {} THEN n + 1
                ELSE CHOOSE i \in later : \A j \in later : i <= j
           p == Place(q, t, when)
<1>1. n \in Nat /\ DOMAIN q = 1..n /\ \A i \in 1..n : q[i] \in T
  OBVIOUS
<1>2. /\ k \in 1..(n + 1)
      /\ \A i \in 1..n : i < k => when[q[i]] <= when[t]
      /\ k <= n => when[q[k]] > when[t]
  <2>1. CASE later = {}
    <3>1. k = n + 1
      BY <2>1
    <3>2. \A i \in 1..n : ~(when[q[i]] > when[t])
      BY <1>1, <2>1
    <3>3. QED
      BY <1>1, <3>1, <3>2
  <2>2. CASE later # {}
    <3>1. later \in SUBSET Nat
      BY <1>1
    <3>2. \E i \in later : \A j \in later : i <= j
      BY <2>2, <3>1, FirstPosition
    <3>3. k \in later /\ \A j \in later : k <= j
      BY <2>2, <3>2
    <3>4. k \in 1..n /\ when[q[k]] > when[t]
      BY <1>1, <3>3
    <3> HIDE DEF k
    <3>5. ASSUME NEW i \in 1..n, i < k PROVE when[q[i]] <= when[t]
      <4>1. i \notin later
        BY <3>1, <3>3, <3>5
      <4>2. QED
        BY <1>1, <4>1
    <3>6. QED
      BY <1>1, <3>4, <3>5
  <2>3. QED
    BY <2>1, <2>2
<1>3. p = SubSeq(q, 1, k - 1) \o <<t>> \o SubSeq(q, k, n)
  BY DEF Place
<1> HIDE DEF n, later, k, p
<1>4. /\ p \in Seq(T) /\ Len(p) = n + 1 /\ DOMAIN p = 1..(n + 1)
      /\ \A i \in 1..(n + 1) : p[i] = IF i < k THEN q[i] ELSE IF i = k THEN t ELSE q[i - 1]
  <2> DEFINE a == SubSeq(q, 1, k - 1)
             b == SubSeq(q, k, n)
  <2>1. k \in Int /\ k - 1 \in Int /\ n \in Int /\ 1 \in Int
    BY <1>1, <1>2
  <2>2. /\ a \in Seq(T) /\ Len(a) = k - 1 /\ \A i \in 1..(k - 1) : a[i] = q[i]
    <3>1. \A i \in 1..(k - 1) : q[i] \in T
      BY <1>1, <1>2
    <3>2. /\ a \in Seq(T) /\ Len(a) = IF 1 <= k - 1 THEN k - 1 - 1 + 1 ELSE 0
          /\ \A i \in 1..(k - 1 - 1 + 1) : a[i] = q[1 + i - 1]
      BY <2>1, <3>1, SubSeqProperties
    <3> HIDE DEF a
    <3>3. QED
      BY <1>2, <2>1, <3>2
  <2>3. /\ b \in Seq(T) /\ Len(b) = n - k + 1 /\ \A i \in 1..(n - k + 1) : b[i] = q[k + i - 1]
    <3>1. \A i \in k..n : q[i] \in T
      BY <1>1, <1>2
    <3>2. /\ b \in Seq(T) /\ Len(b) = IF k <= n THEN n - k + 1 ELSE 0
          /\ \A i \in 1..(n - k + 1) : b[i] = q[k + i - 1]
      BY <2>1, <3>1, SubSeqProperties
    <3> HIDE DEF b
    <3>3. QED
      BY <1>1, <1>2, <2>1, <3>2
  <2> HIDE DEF a, b
  <2>4. <<t>> \in Seq(T) /\ Len(<<t>>) = 1 /\ <<t>>[1] = t
    OBVIOUS
  <2> DEFINE c == a \o <<t>>
  <2>5. /\ c \in Seq(T) /\ Len(c) = k
        /\ \A i \in 1..k : c[i] = IF i < k THEN q[i] ELSE t
    <3> DEFINE d == <<t>>
    <3>1. d \in Seq(T) /\ Len(d) = 1 /\ d[1] = t /\ c = a \o d
      BY <2>4
    <3> HIDE DEF c, d
    <3>2. /\ c \in Seq(T) /\ Len(c) = (k - 1) + 1
          /\ \A i \in 1..((k - 1) + 1) : c[i] = IF i <= k - 1 THEN a[i] ELSE d[i - (k - 1)]
      <4>1. /\ a \o d \in Seq(T) /\ Len(a \o d) = Len(a) + Len(d)
            /\ \A i \in 1..(Len(a) + Len(d)) : (a \o d)[i] = IF i <= Len(a) THEN a[i]
                                                              ELSE d[i - Len(a)]
        BY <2>2, <3>1, ConcatProperties
      <4>2. QED
        BY <2>2, <3>1, <4>1
    <3>3. Len(c) = k
      BY <2>1, <3>2
    <3>4. ASSUME NEW i \in 1..k PROVE c[i] = IF i < k THEN q[i] ELSE t
      <4>1. i \in 1..((k - 1) + 1)
        BY <2>1
      <4>2. CASE i < k
        <5>1. i \in 1..(k - 1) /\ i <= k - 1
          BY <2>1, <4>2
        <5>2. c[i] = a[i]
          BY <3>2, <4>1, <5>1
        <5>3. QED
          BY <2>2, <4>2, <5>1, <5>2
      <4>3. CASE i = k
        <5>1. c[i] = d[i - (k - 1)] /\ i - (k - 1) = 1
          BY <2>1, <3>2, <4>1, <4>3
        <5>2. QED
          BY <3>1, <4>3, <5>1
      <4>4. QED
        BY <2>1, <4>2, <4>3
    <3>5. QED
      BY <3>2, <3>3, <3>4
  <2> HIDE DEF c
  <2>6. p = c \o b
    BY <1>3 DEF a, b, c
  <2>7. /\ p \in Seq(T) /\ Len(p) = k + (n - k + 1)
        /\ \A i \in 1..(k + (n - k + 1)) : p[i] = IF i <= k THEN c[i] ELSE b[i - k]
    <3>1. /\ c \o b \in Seq(T) /\ Len(c \o b) = Len(c) + Len(b)
          /\ \A i \in 1..(Len(c) + Len(b)) : (c \o b)[i] = IF i <= Len(c) THEN c[i]
                                                            ELSE b[i - Len(c)]
      BY <2>3, <2>5, ConcatProperties
    <3>2. QED
      BY <2>3, <2>5, <2>6, <3>1
  <2>8. ASSUME NEW i \in 1..(n + 1)
        PROVE  p[i] = IF i < k THEN q[i] ELSE IF i = k THEN t ELSE q[i - 1]
    <3>1. i \in 1..(k + (n - k + 1))
      BY <1>1, <1>2
    <3>2. CASE i <= k
      BY <1>2, <2>5, <2>7, <3>1, <3>2
    <3>3. CASE i > k
      <4>1. i - k \in 1..(n - k + 1) /\ k + (i - k) - 1 = i - 1
        BY <1>1, <1>2, <3>3
      <4>2. p[i] = b[i - k] /\ b[i - k] = q[k + (i - k) - 1]
        BY <1>2, <2>3, <2>7, <3>1, <3>3, <4>1
      <4>3. QED
        BY <1>2, <3>3, <4>1, <4>2
    <3>4. QED
      BY <1>2, <3>2, <3>3
  <2>9. QED
    BY <1>1, <1>2, <2>7, <2>8
<1>5. \A i \in 1..n : q[i] # t
  BY <1>1 DEF Members
<1>6. NoTwice(p)
  <2> SUFFICES ASSUME NEW i \in 1..(n + 1), NEW j \in 1..(n + 1), p[i] = p[j] PROVE i = j
    BY <1>4 DEF NoTwice
  <2>1. \A x, y \in 1..n : q[x] = q[y] => x = y
    BY <1>1 DEF NoTwice
  <2>2. /\ i < k => i \in 1..n
        /\ j < k => j \in 1..n
        /\ i > k => i - 1 \in 1..n
        /\ j > k => j - 1 \in 1..n
    BY <1>1, <1>2
  <2>3. i \in Int /\ j \in Int /\ k \in Int
    BY <1>1, <1>2
  <2>4. /\ i < k => p[i] = q[i]
        /\ i = k => p[i] = t
        /\ i > k => p[i] = q[i - 1]
    BY <1>4, <2>3
  <2>5. /\ j < k => p[j] = q[j]
        /\ j = k => p[j] = t
        /\ j > k => p[j] = q[j - 1]
    BY <1>4, <2>3
  <2> HIDE DEF p
  <2>6. CASE i < k
    BY <1>5, <2>1, <2>2, <2>3, <2>4, <2>5, <2>6
  <2>7. CASE i = k
    BY <1>5, <2>2, <2>3, <2>4, <2>5, <2>7
  <2>8. CASE i > k
    BY <1>5, <2>1, <2>2, <2>3, <2>4, <2>5, <2>8
  <2>9. QED
    BY <2>3, <2>6, <2>7, <2>8
<1>7. SortedBy(p, when)
  <2> SUFFICES ASSUME NEW i \in 1..(n + 1), NEW j \in 1..(n + 1), i < j
               PROVE  when[p[i]] <= when[p[j]]
    BY <1>4 DEF SortedBy
  <2>1. \A x, y \in 1..n : x < y => when[q[x]] <= when[q[y]]
    BY <1>1 DEF SortedBy
  <2>2. \A x \in 1..n : when[q[x]] \in Nat
    BY <1>1
  <2>3. when[t] \in Nat
    OBVIOUS
  <2>4. CASE j < k
    <3>1. i \in 1..n /\ j \in 1..n /\ p[i] = q[i] /\ p[j] = q[j]
      BY <1>1, <1>2, <1>4, <2>4
    <3>2. QED
      BY <2>1, <3>1
  <2>5. CASE j = k
    <3>1. i \in 1..n /\ p[i] = q[i] /\ p[j] = t
      BY <1>1, <1>2, <1>4, <2>5
    <3>2. QED
      BY <1>2, <2>5, <3>1
  <2>6. CASE j > k
    <3>1. j - 1 \in 1..n /\ p[j] = q[j - 1] /\ k <= j - 1 /\ k \in 1..n
      BY <1>1, <1>2, <1>4, <2>6
    <3>2. CASE i < k
      <4>1. i \in 1..n /\ p[i] = q[i] /\ i < j - 1
        BY <1>1, <1>2, <1>4, <2>6, <3>2
      <4>2. QED
        BY <2>1, <3>1, <4>1
    <3>3. CASE i = k
      <4>1. p[i] = t /\ when[t] < when[q[k]]
        BY <1>2, <1>4, <2>2, <2>3, <3>1, <3>3
      <4>2. when[q[k]] <= when[q[j - 1]]
        BY <1>2, <2>1, <2>2, <3>1
      <4>3. QED
        BY <2>2, <2>3, <3>1, <4>1, <4>2
    <3>4. CASE i > k
      <4>1. i - 1 \in 1..n /\ p[i] = q[i - 1] /\ i - 1 < j - 1
        BY <1>1, <1>2, <1>4, <3>4
      <4>2. QED
        BY <2>1, <3>1, <4>1
    <3>5. QED
      BY <1>2, <3>2, <3>3, <3>4
  <2>7. QED
    BY <1>2, <2>4, <2>5, <2>6
<1>8. Members(p) = Members(q) \cup {t}
  <2>1. ASSUME NEW i \in 1..(n + 1) PROVE p[i] \in Members(q) \cup {t}
    <3>1. i < k => i \in 1..n
      BY <1>1, <1>2
    <3>2. i > k => i - 1 \in 1..n
      BY <1>1, <1>2
    <3>3. CASE i < k
      BY <1>1, <1>4, <3>1, <3>3 DEF Members
    <3>4. CASE i = k
      BY <1>2, <1>4, <3>4
    <3>5. CASE i > k
      <4>1. p[i] = q[i - 1]
        BY <1>2, <1>4, <3>5
      <4>2. QED
        BY <1>1, <3>2, <3>5, <4>1 DEF Members
    <3>6. QED
      BY <1>2, <3>3, <3>4, <3>5
  <2>2. t \in Members(p)
    <3>1. k \in DOMAIN p /\ p[k] = t
      BY <1>2, <1>4
    <3>2. QED
      BY <3>1 DEF Members
  <2>3. ASSUME NEW i \in 1..n PROVE q[i] \in Members(p)
    <3>1. CASE i < k
      <4>1. i \in 1..(n + 1) /\ p[i] = q[i]
        BY <1>1, <1>2, <1>4, <3>1
      <4>2. QED
        BY <1>4, <4>1 DEF Members
    <3>2. CASE i >= k
      <4>1. i + 1 \in 1..(n + 1) /\ i + 1 > k /\ (i + 1) - 1 = i
        BY <1>1, <1>2, <3>2
      <4>2. p[i + 1] = q[i]
        BY <1>2, <1>4, <4>1
      <4>3. QED
        BY <1>4, <4>1, <4>2 DEF Members
    <3>3. QED
      BY <1>2, <3>1, <3>2
  <2>4. QED
    BY <1>1, <1>4, <2>1, <2>2, <2>3 DEF Members
<1>9. QED
  BY <1>4, <1>6, <1>7, <1>8 DEF p

\* dmm_timer_register of a timer at a new time, whether it was in the list or
\* not: the list stays in order, and has this timer besides the others.
LEMMA RequeueIs ==
  ASSUME ListInv, NEW t \in Timer, tm_next \in [Timer -> Nat], NEW when \in [Timer -> Nat],
         \A u \in Timer \ {t} : when[u] = tm_next[u]
  PROVE  LET q == Place(Without(queue, t), t, when)
         IN  /\ q \in Seq(Timer) /\ NoTwice(q) /\ SortedBy(q, when)
             /\ Members(q) = Members(queue) \cup {t}
<1> DEFINE r == Without(queue, t)
<1>1. queue \in Seq(Timer) /\ NoTwice(queue) /\ SortedBy(queue, tm_next)
  BY DEF ListInv
<1>2. /\ r \in Seq(Timer) /\ Members(r) = Members(queue) \ {t}
      /\ NoTwice(r) /\ SortedBy(r, tm_next)
  <2>1. r \in Seq(Timer) /\ Members(r) = Members(queue) \ {t}
    BY <1>1, KeptIs DEF Without
  <2>2. NoTwice(r)
    BY <1>1, KeptNoTwice DEF Without
  <2>3. SortedBy(r, tm_next)
    BY <1>1, KeptSorted DEF Without
  <2>4. QED
    BY <2>1, <2>2, <2>3
<1> HIDE DEF r
<1>3. \A i \in DOMAIN r : r[i] \in Timer \ {t}
  <2>1. \A i \in DOMAIN r : r[i] \in Members(r)
    BY DEF Members
  <2>2. \A i \in DOMAIN r : r[i] \in Timer
    BY <1>2
  <2>3. QED
    BY <1>2, <2>1, <2>2
<1>4. SortedBy(r, when)
  <2> SUFFICES ASSUME NEW i \in DOMAIN r, NEW j \in DOMAIN r, i < j
               PROVE  when[r[i]] <= when[r[j]]
    BY DEF SortedBy
  <2>1. when[r[i]] = tm_next[r[i]] /\ when[r[j]] = tm_next[r[j]]
    BY <1>3
  <2>2. QED
    BY <1>2, <2>1 DEF SortedBy
<1>5. t \notin Members(r) /\ Members(r) \cup {t} = Members(queue) \cup {t}
  BY <1>2
<1>6. QED
  BY <1>2, <1>4, <1>5, PlaceIs DEF r
-----------------------------------------------------------------------------
(* References.                                                             *)

\* There are finitely many subscribers.
LEMMA NodesOfCounted ==
  ASSUME NEW events, NEW e
  PROVE  /\ IsFiniteSet(NodesOf(events, e)) /\ Cardinality(NodesOf(events, e)) \in Nat
         /\ Cardinality(NodesOf(events, e)) = 0 <=> NodesOf(events, e) = {}
<1>1. NodesOf(events, e) \subseteq Node
  BY DEF NodesOf
<1>2. IsFiniteSet(NodesOf(events, e))
  BY <1>1, EventAssumption, FS_Subset
<1>3. QED
  BY <1>2, FS_CardinalityType, FS_EmptySet

\* dmm_event_unref: when the counts er are exact for the flags es, releasing
\* destroys just the timers that nobody holds any more.
LEMMA Released ==
  ASSUME SubsInv', NEW er, NEW es,
         ev_refs' = [t \in Timer |-> ev_refs'[t]], ev_state' = [t \in Timer |-> ev_state'[t]],
         tm' \in Timer \cup {NoTimer},
         tm' # NoTimer => es[tm'] \in {"valid", "invalid"},
         \A t \in Timer :
           /\ es[t] \in {"unborn", "valid", "invalid", "freed"}
           /\ ev_refs'[t] = er[t]
           /\ er[t] = (IF es[t] = "valid" THEN 1 ELSE 0)
                      + Cardinality(NodesOf(nd_events', t))
                      + (IF t \in Members(queue') THEN 1 ELSE 0) + (IF tm' = t THEN 1 ELSE 0)
           /\ es[t] # "valid" => t \notin Members(queue') /\ NodesOf(nd_events', t) = {}
           /\ \/ ev_state'[t] = es[t] /\ (es[t] = "invalid" => tm' = t)
              \/ ev_state'[t] = IF es[t] \in {"valid", "invalid"} /\ er[t] = 0
                                THEN "freed" ELSE es[t]
  PROVE  /\ EventTypeOK' /\ CountsInv' /\ LifeInv'
         /\ \A t \in Timer : /\ ev_state'[t] = "valid" <=> es[t] = "valid"
                             /\ t \in Members(queue') => ev_state'[t] = "valid"
<1> DEFINE subs(t) == Cardinality(NodesOf(nd_events', t))
           reg(t)  == IF t \in Members(queue') THEN 1 ELSE 0
           held(t) == IF tm' = t THEN 1 ELSE 0
<1>1. ASSUME NEW t \in Timer
      PROVE  /\ er[t] \in Nat
             /\ es[t] = "valid" => ev_state'[t] = "valid"
             /\ tm' = t => ev_state'[t] = es[t]
             /\ ev_state'[t] = "valid" => es[t] = "valid"
             /\ ev_state'[t] = "invalid" => tm' = t
             /\ ev_state'[t] \in {"unborn", "valid", "invalid", "freed"}
  <2>1. subs(t) \in Nat /\ reg(t) \in Nat /\ held(t) \in Nat /\ (tm' = t <=> held(t) = 1)
        /\ (NodesOf(nd_events', t) = {} => subs(t) = 0)
        /\ (t \notin Members(queue') => reg(t) = 0)
        /\ (tm' # t => held(t) = 0)
    BY NodesOfCounted
  <2>2. er[t] = (IF es[t] = "valid" THEN 1 ELSE 0) + subs(t) + reg(t) + held(t)
    OBVIOUS
  <2>3. es[t] # "valid" => subs(t) = 0 /\ reg(t) = 0
    BY <2>1
  <2>4. \/ ev_state'[t] = es[t] /\ (es[t] = "invalid" => tm' = t)
        \/ ev_state'[t] = IF es[t] \in {"valid", "invalid"} /\ er[t] = 0 THEN "freed" ELSE es[t]
    OBVIOUS
  <2>5. es[t] \in {"unborn", "valid", "invalid", "freed"}
    OBVIOUS
  <2> HIDE DEF subs, reg, held
  <2>6. er[t] \in Nat /\ (es[t] = "valid" => er[t] # 0) /\ (tm' = t => er[t] # 0)
    BY <2>1, <2>2
  <2>7. es[t] = "invalid" /\ er[t] # 0 => tm' = t
    BY <2>1, <2>2, <2>3
  <2>8. QED
    BY <2>4, <2>5, <2>6, <2>7
<1>2. EventTypeOK'
  <2>1. ev_refs' \in [Event -> Nat] /\ ev_state' \in [Event -> {"unborn", "valid", "invalid", "freed"}]
    BY <1>1 DEF Timer
  <2>2. QED
    BY <2>1 DEF SubsInv, SubsTypeOK, EventTypeOK
<1>3. \A t \in Timer : ev_state'[t] = "valid" <=> es[t] = "valid"
  BY <1>1
<1>4. CountsInv'
  BY <1>3 DEF CountsInv, Registered
<1>5. LifeInv'
  BY <1>1, <1>3 DEF LifeInv
<1>6. QED
  BY <1>2, <1>3, <1>4, <1>5

\* What the proofs of the steps use of TimerInv.
LEMMA TimerInvFacts ==
  ASSUME TimerInv
  PROVE  /\ ev_state \in [Timer -> {"unborn", "valid", "invalid", "freed"}]
         /\ ev_refs \in [Timer -> Nat] /\ nd_events \in [Node -> SUBSET Timer]
         /\ nd_state \in [Node -> {"valid", "invalid", "freed"}] /\ nd_refs \in [Node -> Nat]
         /\ tm_next \in [Timer -> Nat] /\ tm_interval \in [Timer -> Interval \cup {0}]
         /\ queue \in Seq(Timer) /\ clock \in 1..MaxTime /\ limit \in Nat
         /\ tm \in Timer \cup {NoTimer} /\ tmptm \in Timer \cup {NoTimer}
         /\ armed \in [Timer -> BOOLEAN]
         /\ loop \in {"idle", "check", "send"} /\ force \in BOOLEAN
         /\ NoTimer \notin Timer
         /\ \A t \in Timer : Registered(t) => ev_state[t] = "valid"
         /\ \A t \in Timer : NodesOf(nd_events, t) # {} => ev_state[t] = "valid"
         /\ \A t \in Timer : ev_state[t] = "invalid" => tm = t
         /\ tm # NoTimer => ev_state[tm] \in {"valid", "invalid"}
         /\ \A t \in Timer :
              ev_refs[t] = (IF ev_state[t] = "valid" THEN 1 ELSE 0)
                           + Cardinality(NodesOf(nd_events, t))
                           + (IF t \in Members(queue) THEN 1 ELSE 0) + (IF tm = t THEN 1 ELSE 0)
BY EventAssumption
   DEF TimerInv, TypeOK, EventTypeOK, ListInv, LifeInv, CountsInv, Registered, Timer, NoTimer

\* Steps that leave subscriptions, references and the list alone; a handler's
\* return releases what it finds, and finds no timer to destroy.
LEMMA Untouched ==
  ASSUME TimerInv, SubsInv', UNCHANGED <<nd_events, ev_refs, timers, armed, tm>>,
         \/ UNCHANGED ev_state
         \/ ev_state' = [t \in Timer |->
              IF ev_state[t] \in {"valid", "invalid"} /\ ev_refs[t] = 0 THEN "freed"
              ELSE ev_state[t]]
  PROVE  /\ EventTypeOK' /\ ListInv' /\ CountsInv' /\ LifeInv' /\ RegisteredAsSet'
         /\ UNCHANGED <<tm_next, tm_interval, queue, armed, tm>>
<1>1. UNCHANGED <<nd_events, ev_refs, tm_next, tm_interval, queue, armed, tm>>
  BY DEF timers
<1>2. /\ ev_refs' = [t \in Timer |-> ev_refs'[t]] /\ ev_state' = [t \in Timer |-> ev_state'[t]]
      /\ tm' \in Timer \cup {NoTimer}
      /\ tm' # NoTimer => ev_state[tm'] \in {"valid", "invalid"}
  BY <1>1, TimerInvFacts
<1>3. ASSUME NEW t \in Timer
      PROVE  /\ ev_state[t] \in {"unborn", "valid", "invalid", "freed"}
             /\ ev_refs'[t] = ev_refs[t]
             /\ ev_refs[t] = (IF ev_state[t] = "valid" THEN 1 ELSE 0)
                      + Cardinality(NodesOf(nd_events', t))
                      + (IF t \in Members(queue') THEN 1 ELSE 0) + (IF tm' = t THEN 1 ELSE 0)
             /\ ev_state[t] # "valid" => t \notin Members(queue') /\ NodesOf(nd_events', t) = {}
             /\ \/ ev_state'[t] = ev_state[t] /\ (ev_state[t] = "invalid" => tm' = t)
                \/ ev_state'[t] = IF ev_state[t] \in {"valid", "invalid"} /\ ev_refs[t] = 0
                                  THEN "freed" ELSE ev_state[t]
  <2>1. /\ ev_state[t] # "valid" => t \notin Members(queue) /\ NodesOf(nd_events, t) = {}
        /\ ev_state[t] = "invalid" => tm = t
    BY TimerInvFacts DEF Registered
  <2>2. /\ ev_state[t] \in {"unborn", "valid", "invalid", "freed"}
        /\ ev_refs[t] = (IF ev_state[t] = "valid" THEN 1 ELSE 0)
                      + Cardinality(NodesOf(nd_events, t))
                      + (IF t \in Members(queue) THEN 1 ELSE 0) + (IF tm = t THEN 1 ELSE 0)
    BY TimerInvFacts
  <2>3. \/ ev_state'[t] = ev_state[t]
        \/ ev_state'[t] = IF ev_state[t] \in {"valid", "invalid"} /\ ev_refs[t] = 0
                          THEN "freed" ELSE ev_state[t]
    OBVIOUS
  <2>4. QED
    BY <1>1, <2>1, <2>2, <2>3
<1>4. /\ EventTypeOK' /\ CountsInv' /\ LifeInv'
      /\ \A t \in Timer : /\ ev_state'[t] = "valid" <=> ev_state[t] = "valid"
                          /\ t \in Members(queue') => ev_state'[t] = "valid"
  BY <1>2, <1>3, Released
<1>5. ListInv'
  BY <1>1, <1>4 DEF TimerInv, ListInv, SortedBy, Registered
<1>6. RegisteredAsSet'
  BY <1>1, <1>4
     DEF TimerInv, RegisteredAsSet, PeriodicStaysRegistered, OneShotOnce, Registered
<1>7. QED
  BY <1>1, <1>4, <1>5, <1>6

\* The handlers of the loop: a trigger is sent, a handler returns.
LEMMA SendReturnInv ==
  ASSUME TimerInv, Send \/ Returns
  PROVE  TimerInv'
<1>1. /\ UNCHANGED <<timers, cursor, clock, armed>> /\ UNCHANGED <<nd_events, ev_refs, sending>>
      /\ \/ UNCHANGED ev_state
         \/ ev_state' = [t \in Timer |->
              IF ev_state[t] \in {"valid", "invalid"} /\ ev_refs[t] = 0 THEN "freed"
              ELSE ev_state[t]]
  <2>1. CASE Send
    BY <2>1 DEF Send, SendStep, subscriptions
  <2>2. CASE Returns
    BY <2>2 DEF Returns, HandlerReturns, Release, subscriptions, Timer
  <2>3. QED
    BY <2>1, <2>2
<1>2. SubsInv'
  <2>1. SendStep \/ HandlerReturns
    BY DEF Send, Returns
  <2>2. QED
    BY <2>1, SendStepInv, HandlerReturnsInv DEF TimerInv
<1>3. UNCHANGED <<loop, tm, tmptm, limit, force, clock>>
  BY <1>1 DEF cursor
<1>4. /\ EventTypeOK' /\ ListInv' /\ CountsInv' /\ LifeInv' /\ RegisteredAsSet'
      /\ UNCHANGED <<tm_next, tm_interval, queue, armed, tm>>
  BY <1>1, <1>2, <1>3, Untouched
<1>5. TypeOK'
  BY <1>3, <1>4 DEF TimerInv, TypeOK
<1>6. CursorInv'
  BY <1>1, <1>3, <1>4 DEF TimerInv, CursorInv, Registered
<1>7. QED
  BY <1>2, <1>4, <1>5, <1>6 DEF TimerInv

\* Time passes, between the waves and during them.
LEMMA TickInv ==
  ASSUME TimerInv, Tick
  PROVE  TimerInv'
<1>1. /\ UNCHANGED <<timers, cursor, armed>> /\ UNCHANGED <<nd_events, ev_refs, ev_state, sending>>
      /\ UNCHANGED <<loop, tm, tmptm, limit, force>> /\ UNCHANGED subsVars
      /\ clock < MaxTime /\ clock' = clock + 1
  BY DEF Tick, eventVars, subscriptions, objects, delivery, subsVars, cursor
<1>2. SubsInv'
  BY <1>1, SubsInvStutter DEF TimerInv
<1>3. /\ EventTypeOK' /\ ListInv' /\ CountsInv' /\ LifeInv' /\ RegisteredAsSet'
      /\ UNCHANGED <<tm_next, tm_interval, queue, armed, tm>>
  BY <1>1, <1>2, Untouched
<1>4. clock \in 1..MaxTime /\ clock' \in 1..MaxTime /\ MaxTime \in Nat /\ Coalesce \in Nat
  BY <1>1, TimerInvFacts, TimerAssumption
<1>5. TypeOK'
  BY <1>1, <1>3, <1>4 DEF TimerInv, TypeOK
<1>6. CursorInv'
  <2>1. limit' <= clock' + Coalesce
    BY <1>1, <1>4, TimerInvFacts DEF TimerInv, CursorInv
  <2>2. ASSUME loop = "check", force
        PROVE  tmptm # NoTimer /\ tm_next[tmptm] <= clock' + Coalesce
    <3>1. tmptm \in Timer /\ tm_next[tmptm] <= clock + Coalesce
      BY <2>2, TimerInvFacts DEF TimerInv, CursorInv
    <3>2. tm_next[tmptm] \in Nat
      BY <3>1, TimerInvFacts
    <3>3. QED
      BY <1>1, <1>4, <3>1, <3>2, TimerInvFacts
  <2>3. QED
    BY <1>1, <1>3, <2>1, <2>2 DEF TimerInv, CursorInv, Registered
<1>7. QED
  BY <1>2, <1>3, <1>5, <1>6 DEF TimerInv

\* A wave begins with the first timer; a timeout forces it to trigger, and is
\* up no earlier than coalesce_interval before its time.
LEMMA WaveInv ==
  ASSUME TimerInv, NEW f \in BOOLEAN, Wave(f)
  PROVE  TimerInv'
<1>1. /\ UNCHANGED <<timers, armed, clock, tm>> /\ UNCHANGED <<nd_events, ev_refs, ev_state, sending>>
      /\ UNCHANGED subsVars
      /\ loop = "idle" /\ loop' = "check" /\ force' = f /\ limit' = clock + Coalesce
      /\ tmptm' = FirstOf(queue, NoTimer) /\ (f => TimedOut)
  BY DEF Wave, eventVars, subscriptions, objects, delivery, subsVars
<1>2. SubsInv'
  BY <1>1, SubsInvStutter DEF TimerInv
<1>3. /\ EventTypeOK' /\ ListInv' /\ CountsInv' /\ LifeInv' /\ RegisteredAsSet'
      /\ UNCHANGED <<tm_next, tm_interval, queue, armed, tm>>
  BY <1>1, <1>2, Untouched
<1>4. tm = NoTimer /\ clock \in Nat /\ Coalesce \in Nat /\ NoTimer \notin Timer
  BY <1>1, TimerInvFacts, TimerAssumption DEF TimerInv, CursorInv
<1>5. tmptm' \in Members(queue) \cup {NoTimer} /\ Members(queue) \subseteq Timer
  BY <1>1, NextIs, NoTwiceLength DEF TimerInv, ListInv
<1>6. TypeOK'
  BY <1>1, <1>3, <1>4, <1>5 DEF TimerInv, TypeOK
<1>7. ASSUME f PROVE tmptm' # NoTimer /\ tm_next[tmptm'] <= clock + Coalesce
  <2>1. queue # <<>> /\ tm_next[queue[1]] < clock + Coalesce
    BY <1>1, <1>7 DEF TimedOut
  <2>2. tmptm' = queue[1] /\ queue[1] \in Timer
    BY <1>1, <2>1, TimerInvFacts DEF FirstOf
  <2>3. tm_next[queue[1]] \in Nat
    BY <2>2, TimerInvFacts
  <2>4. QED
    BY <1>4, <2>1, <2>2, <2>3
<1>8. CursorInv'
  BY <1>1, <1>3, <1>4, <1>5, <1>7 DEF TimerInv, CursorInv, Registered
<1>9. QED
  BY <1>2, <1>3, <1>6, <1>8 DEF TimerInv

\* It ends when the next timer is not due.
LEMMA WaveEndInv ==
  ASSUME TimerInv, WaveEnd
  PROVE  TimerInv'
<1>1. /\ UNCHANGED <<timers, armed, clock, tm>> /\ UNCHANGED <<nd_events, ev_refs, ev_state, sending>>
      /\ UNCHANGED subsVars
      /\ loop = "check" /\ loop' = "idle" /\ force' = FALSE /\ limit' = 0 /\ tmptm' = NoTimer
  BY DEF WaveEnd, eventVars, subscriptions, objects, delivery, subsVars
<1>2. SubsInv'
  BY <1>1, SubsInvStutter DEF TimerInv
<1>3. /\ EventTypeOK' /\ ListInv' /\ CountsInv' /\ LifeInv' /\ RegisteredAsSet'
      /\ UNCHANGED <<tm_next, tm_interval, queue, armed, tm>>
  BY <1>1, <1>2, Untouched
<1>4. clock \in Nat /\ Coalesce \in Nat
  BY TimerInvFacts, TimerAssumption
<1>5. TypeOK'
  BY <1>1, <1>3 DEF TimerInv, TypeOK
<1>6. sending = tm /\ tm = NoTimer /\ UNCHANGED <<sending, tm, clock>> /\ 0 <= clock + Coalesce
  BY <1>1, <1>4 DEF TimerInv, CursorInv
<1>7. CursorInv'
  BY <1>1, <1>6 DEF CursorInv
<1>8. QED
  BY <1>2, <1>3, <1>5, <1>7 DEF TimerInv

\* DMM_TIMER_REF: the loop holds the timer it triggers, and has saved another.
LEMMA TriggerInv ==
  ASSUME TimerInv, Trigger
  PROVE  TimerInv'
<1> DEFINE t == tmptm
<1>1. /\ loop = "check" /\ t # NoTimer /\ loop' = "send" /\ tm' = t
      /\ tmptm' = NextOf(queue, t, NoTimer) /\ SendStart(t)
      /\ ev_refs' = [ev_refs EXCEPT ![t] = @ + 1] /\ armed' = [armed EXCEPT ![t] = FALSE]
      /\ UNCHANGED <<subscriptions, nd_events, nd_state, nd_refs, ev_state>>
      /\ UNCHANGED <<tm_next, tm_interval, queue, limit, force, clock>>
  BY DEF Trigger, ToTrigger, timers, subscriptions
<1>2. /\ t \in Timer /\ t \in Members(queue) /\ ev_state[t] = "valid"
      /\ tm = NoTimer /\ sending = NoTimer
  BY <1>1, TimerInvFacts DEF TimerInv, CursorInv, Registered
<1>3. SubsInv'
  BY <1>1, <1>2, SendStartInv DEF TimerInv, Timer, NoTimer
<1> HIDE DEF t
<1>4. ASSUME NEW u \in Timer
      PROVE  /\ ev_state[u] \in {"unborn", "valid", "invalid", "freed"}
             /\ ev_refs'[u] = (IF ev_state[u] = "valid" THEN 1 ELSE 0)
                      + Cardinality(NodesOf(nd_events', u))
                      + (IF u \in Members(queue') THEN 1 ELSE 0) + (IF tm' = u THEN 1 ELSE 0)
             /\ ev_state[u] # "valid" => u \notin Members(queue') /\ NodesOf(nd_events', u) = {}
             /\ ev_state'[u] = ev_state[u] /\ (ev_state[u] = "invalid" => tm' = u)
  <2>1. /\ ev_state[u] # "valid" => u \notin Members(queue) /\ NodesOf(nd_events, u) = {}
        /\ ev_state[u] # "invalid" /\ tm # u
    BY <1>2, TimerInvFacts DEF Registered
  <2>2. /\ ev_state[u] \in {"unborn", "valid", "invalid", "freed"}
        /\ ev_refs[u] = (IF ev_state[u] = "valid" THEN 1 ELSE 0)
                      + Cardinality(NodesOf(nd_events, u))
                      + (IF u \in Members(queue) THEN 1 ELSE 0) + (IF tm = u THEN 1 ELSE 0)
    BY TimerInvFacts
  <2>3. /\ Cardinality(NodesOf(nd_events, u)) \in Nat
        /\ ev_refs'[u] = ev_refs[u] + (IF t = u THEN 1 ELSE 0)
    BY <1>1, <1>2, NodesOfCounted, TimerInvFacts
  <2>4. QED
    BY <1>1, <2>1, <2>2, <2>3
<1>5. /\ ev_refs' = [u \in Timer |-> ev_refs'[u]] /\ ev_state' = [u \in Timer |-> ev_state'[u]]
      /\ tm' \in Timer \cup {NoTimer}
      /\ tm' # NoTimer => ev_state[tm'] \in {"valid", "invalid"}
  BY <1>1, <1>2, TimerInvFacts
<1>6. /\ EventTypeOK' /\ CountsInv' /\ LifeInv'
  BY <1>3, <1>4, <1>5, Released
<1>7. tmptm' \in Members(queue) \cup {NoTimer} /\ Members(queue) \subseteq Timer
      /\ (tmptm' # t \/ tmptm' = NoTimer)
  BY <1>1, <1>2, NextIs, NoTwiceLength DEF TimerInv, ListInv
<1>8. TypeOK'
  <2>1. armed' \in [Timer -> BOOLEAN]
    BY <1>1, TimerInvFacts
  <2>2. QED
    BY <1>1, <1>2, <1>6, <1>7, <2>1 DEF TimerInv, TypeOK
<1>9. ListInv'
  BY <1>1 DEF TimerInv, ListInv, SortedBy, Registered
<1>10. RegisteredAsSet'
  <2>1. \A u \in Timer : armed'[u] = IF u = t THEN FALSE ELSE armed[u]
    BY <1>1, <1>2, TimerInvFacts
  <2>2. QED
    BY <1>1, <1>2, <2>1, TimerInvFacts
       DEF TimerInv, RegisteredAsSet, PeriodicStaysRegistered, OneShotOnce, Registered
<1>11. CursorInv'
  <2>1. sending' = tm'
    BY <1>1 DEF SendStart
  <2>2. t # NoTimer
    BY <1>1
  <2>3. QED
    BY <1>1, <1>7, <2>1, <2>2 DEF TimerInv, CursorInv, Registered
<1>12. QED
  BY <1>3, <1>6, <1>8, <1>9, <1>10, <1>11 DEF TimerInv

\* The subscribers have been sent to: the timer stays or leaves as its
\* interval says, unless it has been removed, and the loop lets go of it.
LEMMA TriggeredInv ==
  ASSUME TimerInv, Triggered
  PROVE  TimerInv'
<1> DEFINE t == tm
           valid == ev_state[t] = "valid"
           again == valid /\ Again(t)
           gone  == IF valid /\ ~again /\ Registered(t) THEN 2 ELSE 1
           er == [ev_refs EXCEPT ![t] = @ - gone]
<1>1. /\ loop = "send" /\ SendDone
      /\ tm_next' = IF again THEN [tm_next EXCEPT ![t] = @ + tm_interval[t]] ELSE tm_next
      /\ IF again THEN Requeue(t, tm_next')
         ELSE queue' = IF valid THEN Without(queue, t) ELSE queue
      /\ Release(er, nd_refs, ev_state, nd_state)
      /\ loop' = "check" /\ tm' = NoTimer /\ force' = FALSE
      /\ sending' = NoEvent /\ UNCHANGED <<running, next, subscriptions, nd_events>>
      /\ UNCHANGED <<tm_interval, tmptm, limit, clock, armed>>
  BY DEF Triggered, subscriptions
<1>2. t \in Timer /\ NoTimer \notin Timer
  BY <1>1, TimerInvFacts DEF TimerInv, CursorInv
<1>3. SubsInv'
  BY <1>1, SendDoneInv DEF TimerInv, Release
<1>4. /\ tm_next \in [Timer -> Nat] /\ tm_interval \in [Timer -> Interval \cup {0}]
      /\ ev_refs \in [Timer -> Nat] /\ ListInv
      /\ ev_state \in [Timer -> {"unborn", "valid", "invalid", "freed"}]
  BY TimerInvFacts DEF TimerInv
<1>5. tm_next' \in [Timer -> Nat] /\ \A u \in Timer \ {t} : tm_next'[u] = tm_next[u]
  <2>1. tm_interval[t] \in Nat
    <3>1. tm_interval[t] \in Interval \cup {0}
      BY <1>2, <1>4
    <3>2. Interval \subseteq Nat
      BY TimerAssumption
    <3>3. CASE tm_interval[t] = 0
      BY <3>3
    <3>4. CASE tm_interval[t] \in Interval
      BY <3>2, <3>4
    <3>5. QED
      BY <3>1, <3>3, <3>4
  <2>2. CASE again
    BY <1>1, <1>2, <1>4, <2>1, <2>2
  <2>3. CASE ~again
    BY <1>1, <1>4, <2>3
  <2>4. QED
    BY <2>2, <2>3
<1>6. again => tm_interval[t] # 0 /\ t \in Members(queue)
  BY <1>2 DEF Again, TimerInv, RegisteredAsSet, PeriodicStaysRegistered, Registered
<1>7. ~valid => t \notin Members(queue)
  BY <1>2, TimerInvFacts DEF Registered
<1>8. /\ queue' \in Seq(Timer) /\ NoTwice(queue') /\ SortedBy(queue', tm_next')
      /\ Members(queue') = IF again THEN Members(queue) ELSE Members(queue) \ {t}
  <2>1. CASE again
    <3>1. queue' = Place(Without(queue, t), t, tm_next')
      BY <1>1, <2>1 DEF Requeue
    <3>2. /\ queue' \in Seq(Timer) /\ NoTwice(queue') /\ SortedBy(queue', tm_next')
          /\ Members(queue') = Members(queue) \cup {t}
      BY <1>2, <1>4, <1>5, <3>1, RequeueIs
    <3>3. QED
      BY <1>6, <2>1, <3>2
  <2>2. CASE valid /\ ~again
    <3>1. queue' = Kept(queue, {t}) /\ tm_next' = tm_next
      BY <1>1, <2>2 DEF Without
    <3>2. queue' \in Seq(Timer) /\ Members(queue') = Members(queue) \ {t}
      BY <1>4, <3>1, KeptIs DEF ListInv
    <3>3. NoTwice(queue')
      BY <1>4, <3>1, KeptNoTwice DEF ListInv
    <3>4. SortedBy(queue', tm_next')
      BY <1>4, <3>1, KeptSorted DEF ListInv
    <3>5. QED
      BY <2>2, <3>2, <3>3, <3>4
  <2>3. CASE ~valid
    <3>1. queue' = queue /\ tm_next' = tm_next /\ ~again
      BY <1>1, <2>3
    <3>2. Members(queue) = Members(queue) \ {t}
      BY <1>7, <2>3
    <3>3. queue \in Seq(Timer) /\ NoTwice(queue) /\ SortedBy(queue, tm_next)
      BY <1>4 DEF ListInv
    <3>4. QED
      BY <3>1, <3>2, <3>3
  <2>4. QED
    BY <2>1, <2>2, <2>3
<1>9. ASSUME NEW u \in Timer
      PROVE  /\ ev_state[u] \in {"unborn", "valid", "invalid", "freed"}
             /\ ev_refs'[u] = er[u]
             /\ er[u] = (IF ev_state[u] = "valid" THEN 1 ELSE 0)
                      + Cardinality(NodesOf(nd_events', u))
                      + (IF u \in Members(queue') THEN 1 ELSE 0) + (IF tm' = u THEN 1 ELSE 0)
             /\ ev_state[u] # "valid" => u \notin Members(queue') /\ NodesOf(nd_events', u) = {}
             /\ ev_state'[u] = IF ev_state[u] \in {"valid", "invalid"} /\ er[u] = 0
                               THEN "freed" ELSE ev_state[u]
  <2>1. ev_state[u] # "valid" => u \notin Members(queue) /\ NodesOf(nd_events, u) = {}
    BY TimerInvFacts DEF Registered
  <2>2. /\ ev_state[u] \in {"unborn", "valid", "invalid", "freed"}
        /\ ev_refs[u] = (IF ev_state[u] = "valid" THEN 1 ELSE 0)
                      + Cardinality(NodesOf(nd_events, u))
                      + (IF u \in Members(queue) THEN 1 ELSE 0) + (IF tm = u THEN 1 ELSE 0)
    BY TimerInvFacts
  <2>3. Cardinality(NodesOf(nd_events, u)) \in Nat /\ tm' # u /\ nd_events' = nd_events
    BY <1>1, <1>2, NodesOfCounted
  <2>4. /\ ev_refs'[u] = er[u]
        /\ ev_state'[u] = IF ev_state[u] \in {"valid", "invalid"} /\ er[u] = 0
                          THEN "freed" ELSE ev_state[u]
    BY <1>1 DEF Release, Timer
  <2>5. er[u] = IF u = t THEN ev_refs[u] - gone ELSE ev_refs[u]
    BY <1>2, <1>4
  <2>6. er[u] = (IF ev_state[u] = "valid" THEN 1 ELSE 0)
                      + Cardinality(NodesOf(nd_events, u))
                      + (IF u \in Members(queue') THEN 1 ELSE 0)
    <3>1. CASE u # t
      <4>1. u \in Members(queue') <=> u \in Members(queue)
        BY <1>8, <3>1
      <4>2. QED
        BY <2>2, <2>3, <2>5, <3>1, <4>1
    <3>2. CASE u = t
      <4> DEFINE c == Cardinality(NodesOf(nd_events, u))
      <4>1. c \in Nat
        BY <2>3
      <4>2. ev_refs[u] = (IF valid THEN 1 ELSE 0) + c + (IF u \in Members(queue) THEN 1 ELSE 0) + 1
        BY <2>2, <3>2
      <4>3. er[u] = ev_refs[u] - gone
        BY <2>5, <3>2
      <4>4. gone = IF valid /\ ~again /\ u \in Members(queue) THEN 2 ELSE 1
        BY <3>2 DEF Registered
      <4>5. u \in Members(queue') <=> again /\ u \in Members(queue)
        BY <1>8, <3>2
      <4>6. (again => u \in Members(queue)) /\ (~valid => u \notin Members(queue))
            /\ (again => valid)
        BY <1>6, <1>7, <3>2
      <4>7. ev_state[u] = "valid" <=> valid
        BY <3>2
      <4> HIDE DEF c, er, gone, again, valid
      <4>8. er[u] = (IF valid THEN 1 ELSE 0) + c + (IF u \in Members(queue') THEN 1 ELSE 0)
        BY <4>1, <4>2, <4>3, <4>4, <4>5, <4>6
      <4>9. QED
        BY <4>7, <4>8 DEF c
    <3>3. QED
      BY <3>1, <3>2
  <2>7. Members(queue') \subseteq Members(queue)
    BY <1>8
  <2> HIDE DEF er
  <2>8. QED
    BY <2>1, <2>2, <2>3, <2>4, <2>6, <2>7
<1>10. /\ ev_refs' = [u \in Timer |-> ev_refs'[u]] /\ ev_state' = [u \in Timer |-> ev_state'[u]]
       /\ tm' \in Timer \cup {NoTimer} /\ tm' = NoTimer
  BY <1>1, <1>4 DEF Release, Timer
<1> HIDE DEF er, gone
<1>11. /\ EventTypeOK' /\ CountsInv' /\ LifeInv'
       /\ \A u \in Timer : /\ ev_state'[u] = "valid" <=> ev_state[u] = "valid"
                           /\ u \in Members(queue') => ev_state'[u] = "valid"
  BY <1>3, <1>9, <1>10, Released
<1>12. TypeOK'
  BY <1>1, <1>5, <1>8, <1>11 DEF TimerInv, TypeOK
<1>13. ListInv'
  BY <1>8, <1>11 DEF ListInv, Registered
<1>14. \A u \in Timer : u # t => (u \in Members(queue') <=> u \in Members(queue))
  BY <1>8
<1>15. PeriodicStaysRegistered'
  <2> SUFFICES ASSUME NEW u \in Timer, ev_state[u] = "valid", tm_interval[u] # 0
               PROVE  u \in Members(queue')
    BY <1>1, <1>11 DEF PeriodicStaysRegistered, Registered
  <2>1. u \in Members(queue)
    BY DEF TimerInv, RegisteredAsSet, PeriodicStaysRegistered, Registered
  <2>2. u = t => again
    BY DEF Again
  <2>3. QED
    BY <1>8, <1>14, <2>1, <2>2
<1>16. OneShotOnce'
  <2> SUFFICES ASSUME NEW u \in Timer, ~armed[u], tm_interval[u] = 0
               PROVE  u \notin Members(queue')
    BY <1>1 DEF OneShotOnce, Registered
  <2>1. CASE u = t
    <3>1. ~again
      BY <2>1 DEF Again
    <3>2. QED
      BY <1>8, <2>1, <3>1
  <2>2. CASE u # t
    <3>1. u \notin Members(queue)
      BY <2>2 DEF TimerInv, RegisteredAsSet, OneShotOnce, Registered
    <3>2. QED
      BY <1>14, <2>2, <3>1
  <2>3. QED
    BY <2>1, <2>2
<1>17. CursorInv'
  <2>1. tmptm # NoTimer => tmptm \in Timer /\ tmptm # t /\ tmptm \in Members(queue)
    BY TimerInvFacts DEF TimerInv, CursorInv, Registered
  <2>2. limit <= clock + Coalesce
    BY DEF TimerInv, CursorInv
  <2>3. tmptm' # NoTimer => Registered(tmptm)' /\ tmptm' # tm'
    BY <1>1, <1>14, <2>1 DEF Registered
  <2>4. QED
    BY <1>1, <2>2, <2>3 DEF CursorInv, NoTimer
<1>18. QED
  BY <1>3, <1>11, <1>12, <1>13, <1>15, <1>16, <1>17 DEF TimerInv, RegisteredAsSet
-----------------------------------------------------------------------------
(* Commands.                                                               *)

\* DMM_MSG_TIMERCREATE: one reference, until TIMERRM.
LEMMA TimerCreateInv ==
  ASSUME TimerInv, NEW t \in Timer, TimerCreate(t)
  PROVE  TimerInv'
<1>1. /\ loop # "check" /\ ev_state[t] = "unborn"
      /\ ev_state' = [ev_state EXCEPT ![t] = "valid"] /\ ev_refs' = [ev_refs EXCEPT ![t] = 1]
      /\ tm_next' = [tm_next EXCEPT ![t] = 0] /\ tm_interval' = [tm_interval EXCEPT ![t] = 0]
      /\ UNCHANGED subsVars /\ UNCHANGED nd_events
      /\ UNCHANGED <<queue, loop, tm, tmptm, limit, force, clock, armed, sending>>
  BY DEF TimerCreate, Handling, subscriptions, delivery, subsVars, cursor
<1>2. SubsInv'
  BY <1>1, SubsInvStutter DEF TimerInv
<1>3. t \notin Members(queue) /\ NodesOf(nd_events, t) = {} /\ tm # t
  BY <1>1, TimerInvFacts DEF Registered
<1>4. /\ \A u \in Timer : /\ ev_state'[u] = IF u = t THEN "valid" ELSE ev_state[u]
                          /\ ev_refs'[u] = IF u = t THEN 1 ELSE ev_refs[u]
                          /\ tm_next'[u] = IF u = t THEN 0 ELSE tm_next[u]
                          /\ tm_interval'[u] = IF u = t THEN 0 ELSE tm_interval[u]
      /\ tm_next' \in [Timer -> Nat] /\ tm_interval' \in [Timer -> Interval \cup {0}]
      /\ ev_refs' = [u \in Timer |-> ev_refs'[u]] /\ ev_state' = [u \in Timer |-> ev_state'[u]]
      /\ tm' \in Timer \cup {NoTimer}
      /\ tm' # NoTimer => ev_state'[tm'] \in {"valid", "invalid"}
  BY <1>1, TimerInvFacts
<1>5. ASSUME NEW u \in Timer
      PROVE  /\ ev_state'[u] \in {"unborn", "valid", "invalid", "freed"}
             /\ ev_refs'[u] = (IF ev_state'[u] = "valid" THEN 1 ELSE 0)
                      + Cardinality(NodesOf(nd_events', u))
                      + (IF u \in Members(queue') THEN 1 ELSE 0) + (IF tm' = u THEN 1 ELSE 0)
             /\ ev_state'[u] # "valid" => u \notin Members(queue') /\ NodesOf(nd_events', u) = {}
             /\ ev_state'[u] = "invalid" => tm' = u
  <2>1. CASE u = t
    <3>1. Cardinality(NodesOf(nd_events', t)) = 0
      BY <1>1, <1>3, NodesOfCounted
    <3>2. QED
      BY <1>1, <1>3, <1>4, <2>1, <3>1
  <2>2. CASE u # t
    <3>1. /\ ev_state[u] # "valid" => u \notin Members(queue) /\ NodesOf(nd_events, u) = {}
          /\ ev_state[u] = "invalid" => tm = u
      BY TimerInvFacts DEF Registered
    <3>2. /\ ev_state[u] \in {"unborn", "valid", "invalid", "freed"}
          /\ ev_refs[u] = (IF ev_state[u] = "valid" THEN 1 ELSE 0)
                      + Cardinality(NodesOf(nd_events, u))
                      + (IF u \in Members(queue) THEN 1 ELSE 0) + (IF tm = u THEN 1 ELSE 0)
      BY TimerInvFacts
    <3>3. ev_state'[u] = ev_state[u] /\ ev_refs'[u] = ev_refs[u]
      BY <1>4, <2>2
    <3>4. QED
      BY <1>1, <3>1, <3>2, <3>3
  <2>3. QED
    BY <2>1, <2>2
<1> DEFINE es == ev_state'
           er == ev_refs'
<1>6. /\ EventTypeOK' /\ CountsInv' /\ LifeInv'
      /\ \A u \in Timer : u \in Members(queue') => ev_state'[u] = "valid"
  <2>1. \A u \in Timer : ev_state'[u] = es[u] /\ ev_refs'[u] = er[u]
    OBVIOUS
  <2> HIDE DEF es, er
  <2>2. tm' # NoTimer => es[tm'] \in {"valid", "invalid"}
    BY <1>4 DEF es
  <2>3. \A u \in Timer :
          /\ es[u] \in {"unborn", "valid", "invalid", "freed"}
          /\ er[u] = (IF es[u] = "valid" THEN 1 ELSE 0)
                     + Cardinality(NodesOf(nd_events', u))
                     + (IF u \in Members(queue') THEN 1 ELSE 0) + (IF tm' = u THEN 1 ELSE 0)
          /\ es[u] # "valid" => u \notin Members(queue') /\ NodesOf(nd_events', u) = {}
          /\ es[u] = "invalid" => tm' = u
    BY <1>5 DEF es, er
  <2>4. QED
    BY <1>2, <1>4, <2>1, <2>2, <2>3, Released
<1>7. TypeOK'
  BY <1>1, <1>4, <1>6 DEF TimerInv, TypeOK
<1>8. ListInv'
  <2>1. \A i \in DOMAIN queue : queue[i] \in Timer /\ queue[i] # t
    BY <1>3, TimerInvFacts DEF Members
  <2>2. \A i \in DOMAIN queue : tm_next'[queue[i]] = tm_next[queue[i]]
    BY <1>4, <2>1
  <2>3. SortedBy(queue, tm_next')
    BY <2>2 DEF TimerInv, ListInv, SortedBy
  <2>4. QED
    BY <1>1, <1>6, <2>3 DEF TimerInv, ListInv, Registered
<1>9. RegisteredAsSet'
  <2>1. PeriodicStaysRegistered'
    BY <1>1, <1>4
       DEF TimerInv, RegisteredAsSet, PeriodicStaysRegistered, Registered
  <2>2. OneShotOnce'
    BY <1>1, <1>3, <1>4 DEF TimerInv, RegisteredAsSet, OneShotOnce, Registered
  <2>3. QED
    BY <2>1, <2>2 DEF RegisteredAsSet
<1>10. CursorInv'
  BY <1>1 DEF TimerInv, CursorInv, Registered
<1>11. QED
  BY <1>2, <1>6, <1>7, <1>8, <1>9, <1>10 DEF TimerInv

\* dmm_timer_set: the timer is in the list, at its new time and with one
\* reference for that, whether or not it was before.
LEMMA SetInv ==
  ASSUME TimerInv, loop # "check", NEW t \in Timer, ev_state[t] = "valid",
         NEW when \in Nat, NEW interval \in Interval, Set(t, when, interval)
  PROVE  TimerInv'
<1>1. /\ tm_next' = [tm_next EXCEPT ![t] = when]
      /\ tm_interval' = [tm_interval EXCEPT ![t] = interval]
      /\ queue' = Place(Without(queue, t), t, tm_next')
      /\ ev_refs' = IF t \in Members(queue) THEN ev_refs ELSE [ev_refs EXCEPT ![t] = @ + 1]
      /\ armed' = [armed EXCEPT ![t] = TRUE]
      /\ UNCHANGED subsVars /\ UNCHANGED <<nd_events, ev_state>>
      /\ UNCHANGED <<loop, tm, tmptm, limit, force, clock, sending>>
  BY DEF Set, Requeue, Refs, Registered, subscriptions, delivery, subsVars, cursor
<1>2. SubsInv'
  BY <1>1, SubsInvStutter DEF TimerInv
<1>3. /\ \A u \in Timer : /\ tm_next'[u] = IF u = t THEN when ELSE tm_next[u]
                          /\ tm_interval'[u] = IF u = t THEN interval ELSE tm_interval[u]
                          /\ armed'[u] = IF u = t THEN TRUE ELSE armed[u]
      /\ tm_next' \in [Timer -> Nat] /\ tm_interval' \in [Timer -> Interval \cup {0}]
      /\ armed' \in [Timer -> BOOLEAN]
  BY <1>1, TimerInvFacts
<1>4. /\ queue' \in Seq(Timer) /\ NoTwice(queue') /\ SortedBy(queue', tm_next')
      /\ Members(queue') = Members(queue) \cup {t}
  <2>1. /\ ListInv /\ tm_next \in [Timer -> Nat]
        /\ \A u \in Timer \ {t} : tm_next'[u] = tm_next[u]
    BY <1>3, TimerInvFacts DEF TimerInv
  <2>2. QED
    BY <1>1, <1>3, <2>1, RequeueIs
<1>5. ASSUME NEW u \in Timer
      PROVE  ev_refs'[u] = IF u = t /\ t \notin Members(queue) THEN ev_refs[u] + 1 ELSE ev_refs[u]
  <2>1. CASE t \in Members(queue)
    BY <1>1, <2>1
  <2>2. CASE t \notin Members(queue)
    BY <1>1, <2>2, TimerInvFacts
  <2>3. QED
    BY <2>1, <2>2
<1>6. ev_refs' = [u \in Timer |-> ev_refs'[u]]
  <2>1. CASE t \in Members(queue)
    BY <1>1, <2>1, TimerInvFacts
  <2>2. CASE t \notin Members(queue)
    BY <1>1, <2>2, TimerInvFacts
  <2>3. QED
    BY <2>1, <2>2
<1> DEFINE er == ev_refs'
<1>7. ASSUME NEW u \in Timer
      PROVE  /\ ev_state[u] \in {"unborn", "valid", "invalid", "freed"}
             /\ ev_refs'[u] = er[u]
             /\ er[u] = (IF ev_state[u] = "valid" THEN 1 ELSE 0)
                      + Cardinality(NodesOf(nd_events', u))
                      + (IF u \in Members(queue') THEN 1 ELSE 0) + (IF tm' = u THEN 1 ELSE 0)
             /\ ev_state[u] # "valid" => u \notin Members(queue') /\ NodesOf(nd_events', u) = {}
             /\ ev_state'[u] = ev_state[u] /\ (ev_state[u] = "invalid" => tm' = u)
  <2>1. /\ ev_state[u] # "valid" => u \notin Members(queue) /\ NodesOf(nd_events, u) = {}
        /\ ev_state[u] = "invalid" => tm = u
    BY TimerInvFacts DEF Registered
  <2>2. /\ ev_state[u] \in {"unborn", "valid", "invalid", "freed"}
        /\ ev_refs[u] = (IF ev_state[u] = "valid" THEN 1 ELSE 0)
                      + Cardinality(NodesOf(nd_events, u))
                      + (IF u \in Members(queue) THEN 1 ELSE 0) + (IF tm = u THEN 1 ELSE 0)
    BY TimerInvFacts
  <2>3. Cardinality(NodesOf(nd_events, u)) \in Nat
    BY NodesOfCounted
  <2>4. u \in Members(queue') <=> u = t \/ u \in Members(queue)
    BY <1>4
  <2>5. ev_refs'[u] = (IF ev_state[u] = "valid" THEN 1 ELSE 0)
                      + Cardinality(NodesOf(nd_events, u))
                      + (IF u \in Members(queue') THEN 1 ELSE 0) + (IF tm = u THEN 1 ELSE 0)
    BY <1>5, <2>2, <2>3, <2>4
  <2>6. QED
    BY <1>1, <2>1, <2>2, <2>4, <2>5
<1>8. /\ ev_state' = [u \in Timer |-> ev_state'[u]] /\ tm' \in Timer \cup {NoTimer}
      /\ tm' # NoTimer => ev_state[tm'] \in {"valid", "invalid"}
  BY <1>1, TimerInvFacts
<1> HIDE DEF er
<1>9. /\ EventTypeOK' /\ CountsInv' /\ LifeInv'
      /\ \A u \in Timer : u \in Members(queue') => ev_state'[u] = "valid"
  BY <1>2, <1>6, <1>7, <1>8, Released
<1>10. TypeOK'
  BY <1>1, <1>3, <1>4, <1>9 DEF TimerInv, TypeOK
<1>11. ListInv'
  BY <1>4, <1>9 DEF ListInv, Registered
<1>12. RegisteredAsSet'
  BY <1>1, <1>3, <1>4
     DEF TimerInv, RegisteredAsSet, PeriodicStaysRegistered, OneShotOnce, Registered
<1>13. CursorInv'
  BY <1>1, <1>4 DEF TimerInv, CursorInv, Registered
<1>14. QED
  BY <1>2, <1>9, <1>10, <1>11, <1>12, <1>13 DEF TimerInv

\* DMM_MSG_TIMERSET in its three forms.
LEMMA TimerSetInv ==
  ASSUME TimerInv, NEW t \in Timer, NEW interval \in Interval,
         \/ TimerSetInterval(t, interval)
         \/ \E delay \in Delay : TimerSet(t, delay, interval)
         \/ \E when \in AbsTime : TimerSetAbs(t, when, interval)
  PROVE  TimerInv'
<1>1. Interval \subseteq Nat /\ Delay \subseteq Nat /\ AbsTime \subseteq Nat
  BY TimerAssumption
<1>2. clock \in Nat /\ tm_next[t] \in Nat
  BY TimerInvFacts, TimerAssumption
<1>3. CASE TimerSetInterval(t, interval)
  BY <1>2, <1>3, SetInv DEF TimerSetInterval, Handling
<1>4. ASSUME NEW delay \in Delay, TimerSet(t, delay, interval)
      PROVE  TimerInv'
  <2> DEFINE when == clock + (IF delay = 0 THEN interval ELSE delay)
  <2>1. when \in Nat
    BY <1>1, <1>2
  <2>2. loop # "check" /\ ev_state[t] = "valid" /\ Set(t, when, interval)
    BY <1>4 DEF TimerSet, Handling
  <2> HIDE DEF when
  <2>3. QED
    BY <2>1, <2>2, SetInv
<1>5. ASSUME NEW when \in AbsTime, TimerSetAbs(t, when, interval)
      PROVE  TimerInv'
  BY <1>1, <1>5, SetInv DEF TimerSetAbs, Handling
<1>6. QED
  BY <1>3, <1>4, <1>5

\* What is left of the references to nodes is a number, at least.
LEMMA NodeRefsInt ==
  ASSUME SubsInv, NEW pairs
  PROVE  \A n \in Node : NodeRefsWithout(pairs)[n] \in Int
<1> SUFFICES ASSUME NEW n \in Node PROVE NodeRefsWithout(pairs)[n] \in Int
  OBVIOUS
<1>1. {e \in Event : <<e, n>> \in pairs} \in SUBSET Event
  OBVIOUS
<1>2. Cardinality({e \in Event : <<e, n>> \in pairs}) \in Nat
  BY <1>1, EventAssumption, FS_Subset, FS_CardinalityType
<1>3. QED
  BY <1>2 DEF NodeRefsWithout, SubsInv, SubsTypeOK

\* DMM_MSG_TIMERSUBSCRIBE: a reference for the subscriber.
LEMMA TimerSubscribeInv ==
  ASSUME TimerInv, NEW t \in Timer, NEW n \in Node, TimerSubscribe(t, n)
  PROVE  TimerInv'
<1>1. /\ loop # "check" /\ nd_state[n] = "valid" /\ ev_state[t] = "valid" /\ ~Subscribed(t, n)
      /\ Subscribe(t, n) /\ ev_refs' = [ev_refs EXCEPT ![t] = @ + 1]
      /\ UNCHANGED <<nd_state, ev_state, delivery, sending>>
      /\ UNCHANGED <<tm_next, tm_interval, queue, loop, tm, tmptm, limit, force, clock, armed>>
  BY DEF TimerSubscribe, Handling, timers, cursor, delivery
<1>2. /\ SubsInv' /\ n \notin NodesOf(nd_events, t)
      /\ NodesOf(nd_events', t) = NodesOf(nd_events, t) \cup {n}
      /\ \A u \in Timer \ {t} : NodesOf(nd_events', u) = NodesOf(nd_events, u)
  BY <1>1, SubscribeInv DEF TimerInv, Timer
<1>3. Cardinality(NodesOf(nd_events', t)) = Cardinality(NodesOf(nd_events, t)) + 1
  BY <1>2, NodesOfCounted, CardAdd
<1> DEFINE er == ev_refs'
<1>4. ASSUME NEW u \in Timer
      PROVE  /\ ev_state[u] \in {"unborn", "valid", "invalid", "freed"}
             /\ ev_refs'[u] = er[u]
             /\ er[u] = (IF ev_state[u] = "valid" THEN 1 ELSE 0)
                      + Cardinality(NodesOf(nd_events', u))
                      + (IF u \in Members(queue') THEN 1 ELSE 0) + (IF tm' = u THEN 1 ELSE 0)
             /\ ev_state[u] # "valid" => u \notin Members(queue') /\ NodesOf(nd_events', u) = {}
             /\ ev_state'[u] = ev_state[u] /\ (ev_state[u] = "invalid" => tm' = u)
  <2>1. /\ ev_state[u] # "valid" => u \notin Members(queue) /\ NodesOf(nd_events, u) = {}
        /\ ev_state[u] = "invalid" => tm = u
    BY TimerInvFacts DEF Registered
  <2>2. /\ ev_state[u] \in {"unborn", "valid", "invalid", "freed"}
        /\ ev_refs[u] = (IF ev_state[u] = "valid" THEN 1 ELSE 0)
                      + Cardinality(NodesOf(nd_events, u))
                      + (IF u \in Members(queue) THEN 1 ELSE 0) + (IF tm = u THEN 1 ELSE 0)
    BY TimerInvFacts
  <2>3. Cardinality(NodesOf(nd_events, u)) \in Nat
    BY NodesOfCounted
  <2>4. ev_refs'[u] = IF u = t THEN ev_refs[u] + 1 ELSE ev_refs[u]
    BY <1>1, TimerInvFacts
  <2>5. Cardinality(NodesOf(nd_events', u)) =
          IF u = t THEN Cardinality(NodesOf(nd_events, u)) + 1
          ELSE Cardinality(NodesOf(nd_events, u))
    BY <1>2, <1>3
  <2>6. ev_refs'[u] = (IF ev_state[u] = "valid" THEN 1 ELSE 0)
                      + Cardinality(NodesOf(nd_events', u))
                      + (IF u \in Members(queue) THEN 1 ELSE 0) + (IF tm = u THEN 1 ELSE 0)
    BY <2>2, <2>3, <2>4, <2>5
  <2>7. ev_state[u] # "valid" => NodesOf(nd_events', u) = {}
    BY <1>1, <1>2, <2>1
  <2>8. QED
    BY <1>1, <2>1, <2>2, <2>6, <2>7
<1>5. /\ ev_refs' = [u \in Timer |-> ev_refs'[u]]
      /\ ev_state' = [u \in Timer |-> ev_state'[u]] /\ tm' \in Timer \cup {NoTimer}
      /\ tm' # NoTimer => ev_state[tm'] \in {"valid", "invalid"}
  BY <1>1, TimerInvFacts
<1> HIDE DEF er
<1>6. /\ EventTypeOK' /\ CountsInv' /\ LifeInv'
  BY <1>2, <1>4, <1>5, Released
<1>7. TypeOK' /\ ListInv' /\ RegisteredAsSet' /\ CursorInv'
  <2>1. TypeOK'
    BY <1>1, <1>6 DEF TimerInv, TypeOK
  <2>2. ListInv'
    BY <1>1 DEF TimerInv, ListInv, SortedBy, Registered
  <2>3. RegisteredAsSet'
    BY <1>1 DEF TimerInv, RegisteredAsSet, PeriodicStaysRegistered, OneShotOnce, Registered
  <2>4. CursorInv'
    BY <1>1 DEF TimerInv, CursorInv, Registered
  <2>5. QED
    BY <2>1, <2>2, <2>3, <2>4
<1>8. QED
  BY <1>2, <1>6, <1>7 DEF TimerInv

\* Subscriptions go, by TIMERUNSUBSCRIBE or with the nodes of rm: each gives
\* its reference to the timer back, and no timer is destroyed by that.
LEMMA UnsubscribedInv ==
  ASSUME TimerInv, RemoveNext = FALSE, loop # "check",
         NEW pairs, Removable(pairs), CellsRemoved(pairs),
         NEW rm, \A n \in rm : nd_state[n] = "valid" /\ \A e \in nd_events[n] : <<e, n>> \in pairs,
         NEW nr, nr = [n \in Node |-> nr[n]],
         \A n \in Node : nr[n] = NodeRefsWithout(pairs)[n] - (IF n \in rm THEN 1 ELSE 0),
         NEW ns, \A n \in Node : ns[n] = IF n \in rm THEN "invalid" ELSE nd_state[n],
         Release(EventRefsWithout(pairs), nr, ev_state, ns),
         UNCHANGED <<delivery, timers, cursor, clock, armed>>
  PROVE  TimerInv'
<1> DEFINE er == EventRefsWithout(pairs)
<1>1. /\ Release(er, nr, ev_state, ns) /\ UNCHANGED <<delivery, sending>>
      /\ UNCHANGED <<tm_next, tm_interval, queue, loop, tm, tmptm, limit, force, clock, armed>>
  BY DEF timers, cursor, delivery
<1>2. er = [t \in Timer |-> er[t]]
  BY DEF EventRefsWithout, Timer
<1> HIDE DEF er
<1>3. /\ SubsInv'
      /\ \A t \in Timer :
           /\ NodesOf(nd_events', t) = NodesOf(nd_events, t) \ LeaversOf(pairs, t)
           /\ er[t] = ev_refs[t] - Cardinality(LeaversOf(pairs, t))
           /\ LeaversOf(pairs, t) \subseteq NodesOf(nd_events, t)
  BY <1>1, CellsRemovedInv DEF TimerInv, Timer, er
<1>4. /\ ev_refs' = er
      /\ ev_state' = [t \in Timer |->
           IF ev_state[t] \in {"valid", "invalid"} /\ er[t] = 0 THEN "freed" ELSE ev_state[t]]
  BY <1>1 DEF Release, Timer
<1>5. ASSUME NEW u \in Timer
      PROVE  /\ ev_state[u] \in {"unborn", "valid", "invalid", "freed"}
             /\ ev_refs'[u] = er[u]
             /\ er[u] = (IF ev_state[u] = "valid" THEN 1 ELSE 0)
                      + Cardinality(NodesOf(nd_events', u))
                      + (IF u \in Members(queue') THEN 1 ELSE 0) + (IF tm' = u THEN 1 ELSE 0)
             /\ ev_state[u] # "valid" => u \notin Members(queue') /\ NodesOf(nd_events', u) = {}
             /\ ev_state'[u] = IF ev_state[u] \in {"valid", "invalid"} /\ er[u] = 0
                               THEN "freed" ELSE ev_state[u]
  <2> DEFINE old  == NodesOf(nd_events, u)
             gone == LeaversOf(pairs, u)
  <2>1. ev_state[u] # "valid" => u \notin Members(queue) /\ old = {}
    BY TimerInvFacts DEF Registered
  <2>2. /\ ev_state[u] \in {"unborn", "valid", "invalid", "freed"}
        /\ ev_refs[u] = (IF ev_state[u] = "valid" THEN 1 ELSE 0) + Cardinality(old)
                      + (IF u \in Members(queue) THEN 1 ELSE 0) + (IF tm = u THEN 1 ELSE 0)
    BY TimerInvFacts
  <2>3. /\ NodesOf(nd_events', u) = old \ gone /\ er[u] = ev_refs[u] - Cardinality(gone)
        /\ gone \subseteq old /\ IsFiniteSet(old)
    BY <1>3, NodesOfCounted
  <2> HIDE DEF old, gone
  <2>4. /\ Cardinality(old \ gone) = Cardinality(old) - Cardinality(gone)
        /\ Cardinality(old) \in Nat /\ Cardinality(gone) \in Nat
    BY <2>3, CardSplit
  <2>5. er[u] = (IF ev_state[u] = "valid" THEN 1 ELSE 0) + Cardinality(old \ gone)
                + (IF u \in Members(queue) THEN 1 ELSE 0) + (IF tm = u THEN 1 ELSE 0)
    BY <2>2, <2>3, <2>4
  <2>6. ev_state[u] # "valid" => old \ gone = {}
    BY <2>1
  <2>7. QED
    BY <1>1, <1>4, <2>1, <2>2, <2>3, <2>5, <2>6
<1>6. /\ ev_refs' = [u \in Timer |-> ev_refs'[u]]
      /\ ev_state' = [u \in Timer |-> ev_state'[u]] /\ tm' \in Timer \cup {NoTimer}
      /\ tm' # NoTimer => ev_state[tm'] \in {"valid", "invalid"}
  BY <1>1, <1>2, <1>4, TimerInvFacts
<1>7. /\ EventTypeOK' /\ CountsInv' /\ LifeInv'
      /\ \A t \in Timer : /\ ev_state'[t] = "valid" <=> ev_state[t] = "valid"
                          /\ t \in Members(queue') => ev_state'[t] = "valid"
  BY <1>3, <1>5, <1>6, Released
<1>8. TypeOK'
  BY <1>1, <1>7 DEF TimerInv, TypeOK
<1>9. ListInv'
  BY <1>1, <1>7 DEF TimerInv, ListInv, SortedBy, Registered
<1>10. RegisteredAsSet'
  BY <1>1, <1>7 DEF TimerInv, RegisteredAsSet, PeriodicStaysRegistered, OneShotOnce, Registered
<1>11. CursorInv'
  BY <1>1 DEF TimerInv, CursorInv, Registered
<1>12. QED
  BY <1>3, <1>7, <1>8, <1>9, <1>10, <1>11 DEF TimerInv

\* DMM_MSG_TIMERUNSUBSCRIBE.
LEMMA TimerUnsubscribeInv ==
  ASSUME TimerInv, RemoveNext = FALSE, NEW t \in Timer, NEW n \in Node, TimerUnsubscribe(t, n)
  PROVE  TimerInv'
<1> DEFINE pairs == {<<t, n>>}
           nr == NodeRefsWithout(pairs)
           none == {}
<1>1. /\ loop # "check" /\ Subscribed(t, n) /\ MayRemove(pairs) /\ CellsRemoved(pairs)
      /\ Release(EventRefsWithout(pairs), nr, ev_state, nd_state)
      /\ UNCHANGED <<delivery, timers, cursor, clock, armed>>
  BY DEF TimerUnsubscribe, Handling
<1>2. Removable(pairs)
  BY <1>1 DEF Removable, Subscribed, Timer
<1>3. nr = [m \in Node |-> nr[m]]
  BY DEF NodeRefsWithout
<1>4. \A m \in Node : nr[m] \in Int
  BY NodeRefsInt DEF TimerInv
<1>5. \A m \in Node : nr[m] = NodeRefsWithout(pairs)[m] - (IF m \in none THEN 1 ELSE 0)
  <2>1. \A m \in Node : m \notin none /\ nr[m] = NodeRefsWithout(pairs)[m]
    OBVIOUS
  <2> HIDE DEF pairs, nr, none
  <2>2. QED
    BY <1>4, <2>1
<1>6. \A m \in Node : nd_state[m] = IF m \in none THEN "invalid" ELSE nd_state[m]
  OBVIOUS
<1>7. \A m \in none : nd_state[m] = "valid" /\ \A f \in nd_events[m] : <<f, m>> \in pairs
  OBVIOUS
<1> HIDE DEF pairs, nr, none
<1>8. QED
  BY <1>1, <1>2, <1>3, <1>5, <1>6, <1>7, UnsubscribedInv DEF nr

\* DMM_MSG_NODERM.
LEMMA NodeRmInv ==
  ASSUME TimerInv, RemoveNext = FALSE, NEW n \in Node, NodeRm(n)
  PROVE  TimerInv'
<1> DEFINE pairs == SubscriptionsOf(n)
           refs == NodeRefsWithout(pairs)
           nr == [refs EXCEPT ![n] = @ - 1]
           ns == [nd_state EXCEPT ![n] = "invalid"]
<1>1. /\ loop # "check" /\ nd_state[n] = "valid" /\ MayRemove(pairs) /\ CellsRemoved(pairs)
      /\ Release(EventRefsWithout(pairs), nr, ev_state, ns)
      /\ UNCHANGED <<delivery, timers, cursor, clock, armed>>
  BY DEF NodeRm, NodeRemove
<1>2. Removable(pairs)
  BY <1>1 DEF Removable, SubscriptionsOf, TimerInv, SubsInv, SubsTypeOK
<1>3. \A m \in {n} : nd_state[m] = "valid" /\ \A f \in nd_events[m] : <<f, m>> \in pairs
  BY <1>1 DEF SubscriptionsOf
<1>4. \A m \in Node : refs[m] \in Int
  BY NodeRefsInt DEF TimerInv
<1>5. DOMAIN refs = Node
  BY DEF NodeRefsWithout
<1> HIDE DEF pairs, refs
<1>6. nr = [m \in Node |-> nr[m]]
  BY <1>5
<1>7. \A m \in Node : nr[m] = refs[m] - (IF m \in {n} THEN 1 ELSE 0)
  BY <1>4, <1>5
<1>8. \A m \in Node : ns[m] = IF m \in {n} THEN "invalid" ELSE nd_state[m]
  BY DEF TimerInv, SubsInv, SubsTypeOK
<1> HIDE DEF nr, ns
<1>9. QED
  BY <1>1, <1>2, <1>3, <1>6, <1>7, <1>8, UnsubscribedInv DEF refs

\* DMM_MSG_TIMERRM: the timer is out of the list and has no subscribers, and
\* its first reference goes; it is destroyed, unless the loop holds it.
LEMMA TimerRemoveInv ==
  ASSUME TimerInv, RemoveNext = FALSE, NEW t \in Timer, TimerRemove(t)
  PROVE  TimerInv'
<1> DEFINE pairs == SubscribersOf(t)
           refs == EventRefsWithout(pairs)
           gone == IF Registered(t) THEN 2 ELSE 1
           er == [refs EXCEPT ![t] = @ - gone]
           es == [ev_state EXCEPT ![t] = "invalid"]
           nr == NodeRefsWithout(pairs)
           none == {}
<1>1. /\ loop # "check" /\ ev_state[t] = "valid" /\ MayRemove(pairs) /\ t # tmptm
      /\ CellsRemoved(pairs) /\ Release(er, nr, es, nd_state)
      /\ queue' = Without(queue, t) /\ armed' = [armed EXCEPT ![t] = FALSE]
      /\ UNCHANGED <<delivery, sending>>
      /\ UNCHANGED <<tm_next, tm_interval, loop, tm, tmptm, limit, force, clock>>
  BY DEF TimerRemove, Handling, cursor, delivery
<1>2. Removable(pairs) /\ LeaversOf(pairs, t) = NodesOf(nd_events, t)
      /\ \A u \in Timer \ {t} : LeaversOf(pairs, u) = {}
  <2>1. Members(ev_nodes[t]) = NodesOf(nd_events, t)
    BY DEF TimerInv, SubsInv, Mutual, Timer
  <2>2. pairs = {<<t, n>> : n \in NodesOf(nd_events, t)}
    BY <2>1 DEF SubscribersOf
  <2> HIDE DEF pairs
  <2>3. pairs \in SUBSET (Event \X Node) /\ \A q \in pairs : q[1] \in nd_events[q[2]]
    BY <2>2 DEF NodesOf, Timer
  <2>4. LeaversOf(pairs, t) = NodesOf(nd_events, t)
    BY <2>2 DEF LeaversOf, NodesOf
  <2>5. ASSUME NEW u \in Timer \ {t} PROVE LeaversOf(pairs, u) = {}
    BY <2>2 DEF LeaversOf
  <2>6. QED
    BY <1>1, <2>3, <2>4, <2>5 DEF Removable, pairs
<1>3. nr = [m \in Node |-> nr[m]]
  BY DEF NodeRefsWithout
<1>4. \A m \in Node : nr[m] \in Int
  BY NodeRefsInt DEF TimerInv
<1>5. \A m \in Node : nr[m] = NodeRefsWithout(pairs)[m] - (IF m \in none THEN 1 ELSE 0)
  <2>1. \A m \in Node : m \notin none /\ nr[m] = NodeRefsWithout(pairs)[m]
    OBVIOUS
  <2> HIDE DEF pairs, nr, none
  <2>2. QED
    BY <1>4, <2>1
<1>6. \A m \in Node : nd_state[m] = IF m \in none THEN "invalid" ELSE nd_state[m]
  OBVIOUS
<1>7. \A m \in none : nd_state[m] = "valid" /\ \A f \in nd_events[m] : <<f, m>> \in pairs
  OBVIOUS
<1>8. refs = [u \in Timer |-> refs[u]]
  BY DEF EventRefsWithout, Timer
<1> HIDE DEF pairs, nr, none, refs
<1>9. /\ SubsInv'
      /\ \A u \in Timer :
           /\ NodesOf(nd_events', u) = NodesOf(nd_events, u) \ LeaversOf(pairs, u)
           /\ refs[u] = ev_refs[u] - Cardinality(LeaversOf(pairs, u))
  <2> HIDE DEF er, es
  <2>1. SubsInv /\ UNCHANGED delivery
    BY <1>1 DEF TimerInv
  <2>2. /\ SubsInv'
        /\ \A u \in Event :
             /\ NodesOf(nd_events', u) = NodesOf(nd_events, u) \ LeaversOf(pairs, u)
             /\ EventRefsWithout(pairs)[u] = ev_refs[u] - Cardinality(LeaversOf(pairs, u))
             /\ LeaversOf(pairs, u) \subseteq NodesOf(nd_events, u)
    BY <1>1, <1>2, <1>3, <1>5, <1>6, <1>7, <2>1, CellsRemovedInv
  <2>3. QED
    BY <2>2 DEF refs, Timer
<1>10. \A u \in Timer :
         /\ er[u] = IF u = t THEN refs[u] - gone ELSE refs[u]
         /\ es[u] = IF u = t THEN "invalid" ELSE ev_state[u]
         /\ ev_refs'[u] = er[u]
         /\ ev_state'[u] = IF es[u] \in {"valid", "invalid"} /\ er[u] = 0 THEN "freed" ELSE es[u]
  <2>1. \A u \in Timer :
         /\ er[u] = IF u = t THEN refs[u] - gone ELSE refs[u]
         /\ es[u] = IF u = t THEN "invalid" ELSE ev_state[u]
    BY <1>8, TimerInvFacts
  <2> HIDE DEF er, es
  <2>2. QED
    BY <1>1, <2>1 DEF Release, Timer
<1>11. queue' \in Seq(Timer) /\ NoTwice(queue') /\ SortedBy(queue', tm_next)
       /\ Members(queue') = Members(queue) \ {t}
  <2>1. queue \in Seq(Timer) /\ NoTwice(queue) /\ SortedBy(queue, tm_next)
    BY DEF TimerInv, ListInv
  <2>2. queue' = Kept(queue, {t}) /\ tm_next \in [Timer -> Nat]
    BY <1>1, TimerInvFacts DEF Without
  <2>3. queue' \in Seq(Timer) /\ Members(queue') = Members(queue) \ {t}
    BY <2>1, <2>2, KeptIs
  <2>4. NoTwice(queue')
    BY <2>1, <2>2, KeptNoTwice
  <2>5. SortedBy(queue', tm_next)
    BY <2>1, <2>2, KeptSorted
  <2>6. QED
    BY <2>3, <2>4, <2>5
<1>12. gone = IF t \in Members(queue) THEN 2 ELSE 1
  BY DEF Registered
<1> HIDE DEF er, es, gone
<1>13. ASSUME NEW u \in Timer
       PROVE  /\ es[u] \in {"unborn", "valid", "invalid", "freed"}
              /\ er[u] = (IF es[u] = "valid" THEN 1 ELSE 0)
                       + Cardinality(NodesOf(nd_events', u))
                       + (IF u \in Members(queue') THEN 1 ELSE 0) + (IF tm' = u THEN 1 ELSE 0)
              /\ es[u] # "valid" => u \notin Members(queue') /\ NodesOf(nd_events', u) = {}
  <2>1. ev_state[u] # "valid" => u \notin Members(queue) /\ NodesOf(nd_events, u) = {}
    BY TimerInvFacts DEF Registered
  <2>2. /\ ev_state[u] \in {"unborn", "valid", "invalid", "freed"}
        /\ ev_refs[u] = (IF ev_state[u] = "valid" THEN 1 ELSE 0)
                      + Cardinality(NodesOf(nd_events, u))
                      + (IF u \in Members(queue) THEN 1 ELSE 0) + (IF tm = u THEN 1 ELSE 0)
    BY TimerInvFacts
  <2>3. Cardinality(NodesOf(nd_events, u)) \in Nat
    BY NodesOfCounted
  <2>4. CASE u = t
    <3>1. NodesOf(nd_events', t) = {}
      BY <1>2, <1>9
    <3>2. Cardinality(NodesOf(nd_events', t)) = 0
      BY <3>1, NodesOfCounted
    <3>3. refs[t] = ev_refs[t] - Cardinality(NodesOf(nd_events, t))
      BY <1>2, <1>9
    <3>4. er[t] = (IF tm = t THEN 1 ELSE 0)
      BY <1>1, <1>10, <1>12, <2>2, <2>3, <2>4, <3>3
    <3>5. es[t] = "invalid" /\ t \notin Members(queue')
      BY <1>10, <1>11
    <3>6. QED
      BY <1>1, <2>4, <3>1, <3>2, <3>4, <3>5
  <2>5. CASE u # t
    <3>1. LeaversOf(pairs, u) = {} /\ Cardinality({}) = 0
      BY <1>2, <2>5, FS_EmptySet
    <3>2. NodesOf(nd_events', u) = NodesOf(nd_events, u) \ {}
          /\ refs[u] = ev_refs[u] - Cardinality({})
      BY <1>9, <3>1
    <3>3. ev_refs[u] \in Nat /\ er[u] = refs[u] /\ es[u] = ev_state[u]
      BY <1>10, <2>5, TimerInvFacts
    <3>4. NodesOf(nd_events', u) = NodesOf(nd_events, u) /\ er[u] = ev_refs[u]
      BY <3>1, <3>2, <3>3
    <3>5. u \in Members(queue') <=> u \in Members(queue)
      BY <1>11, <2>5
    <3>6. QED
      BY <1>1, <2>1, <2>2, <3>3, <3>4, <3>5
  <2>6. QED
    BY <2>4, <2>5
<1>14. /\ ev_refs' = [u \in Timer |-> ev_refs'[u]]
       /\ ev_state' = [u \in Timer |-> ev_state'[u]] /\ tm' \in Timer \cup {NoTimer}
       /\ tm' # NoTimer => es[tm'] \in {"valid", "invalid"}
  <2>1. ev_refs' = [u \in Timer |-> ev_refs'[u]]
    BY <1>1, <1>8 DEF Release, er
  <2>2. ev_state' = [u \in Timer |-> ev_state'[u]]
    BY <1>1 DEF Release, Timer
  <2>3. QED
    BY <1>1, <1>10, <2>1, <2>2, TimerInvFacts
<1>15. /\ EventTypeOK' /\ CountsInv' /\ LifeInv'
       /\ \A u \in Timer : /\ ev_state'[u] = "valid" <=> es[u] = "valid"
                           /\ u \in Members(queue') => ev_state'[u] = "valid"
  BY <1>9, <1>10, <1>13, <1>14, Released
<1>16. TypeOK'
  <2>1. armed' \in [Timer -> BOOLEAN]
    BY <1>1, TimerInvFacts
  <2>2. QED
    BY <1>1, <1>11, <1>15, <2>1 DEF TimerInv, TypeOK
<1>17. ListInv'
  BY <1>1, <1>11, <1>15 DEF ListInv, Registered
<1>18. RegisteredAsSet'
  <2>1. \A u \in Timer : u # t => (u \in Members(queue') <=> u \in Members(queue))
    BY <1>11
  <2>2. ~(t \in Members(queue')) /\ ev_state'[t] # "valid"
    BY <1>10, <1>11, <1>15
  <2>3. \A u \in Timer : u # t => (ev_state'[u] = "valid" => ev_state[u] = "valid")
    BY <1>10, <1>15
  <2>4. \A u \in Timer : u # t => armed'[u] = armed[u]
    BY <1>1, TimerInvFacts
  <2>5. PeriodicStaysRegistered'
    BY <1>1, <2>1, <2>2, <2>3
       DEF TimerInv, RegisteredAsSet, PeriodicStaysRegistered, Registered
  <2>6. OneShotOnce'
    BY <1>1, <2>1, <2>2, <2>4 DEF TimerInv, RegisteredAsSet, OneShotOnce, Registered
  <2>7. QED
    BY <2>5, <2>6 DEF RegisteredAsSet
<1>19. CursorInv'
  <2>1. tmptm # NoTimer => tmptm \in Members(queue')
    BY <1>1, <1>11 DEF TimerInv, CursorInv, Registered
  <2>2. QED
    BY <1>1, <2>1 DEF TimerInv, CursorInv, Registered
<1>20. QED
  BY <1>9, <1>15, <1>16, <1>17, <1>18, <1>19 DEF TimerInv
-----------------------------------------------------------------------------
\* No timer has been created at first.
LEMMA TimerInvInit == Init => TimerInv
<1> SUFFICES ASSUME Init PROVE TimerInv
  OBVIOUS
<1>1. SubsInv
  BY SubsInvInit DEF Init
<1>2. 1 \in 1..MaxTime /\ Coalesce \in Nat /\ NoTimer \notin Timer
  BY TimerAssumption, EventAssumption DEF Timer, NoTimer
<1>3. EventTypeOK
  BY DEF Init, EventInit, EventTypeOK
<1>4. TypeOK
  <2>1. /\ tm_next \in [Timer -> Nat] /\ tm_interval \in [Timer -> Interval \cup {0}]
        /\ armed \in [Timer -> BOOLEAN]
    BY DEF Init
  <2>2. queue = <<>> /\ limit = 0 /\ force = FALSE
    BY DEF Init
  <2>3. loop = "idle" /\ tm = NoTimer /\ tmptm = NoTimer /\ clock = 1
    BY DEF Init
  <2>4. <<>> \in Seq(Timer) /\ 0 \in Nat
    OBVIOUS
  <2>5. QED
    BY <1>2, <1>3, <2>1, <2>2, <2>3, <2>4 DEF TypeOK
<1>5. Members(queue) = {} /\ queue \in Seq(Timer) /\ DOMAIN queue = {}
  BY DEF Init, Members
<1>6. ListInv /\ RegisteredAsSet
  BY <1>5 DEF ListInv, NoTwice, SortedBy, Registered, RegisteredAsSet,
              PeriodicStaysRegistered, OneShotOnce, Init, EventInit, Timer
<1>7. \A t \in Timer : NodesOf(nd_events, t) = {} /\ Cardinality(NodesOf(nd_events, t)) = 0
  <2>1. \A t \in Timer : NodesOf(nd_events, t) = {}
    BY DEF Init, EventInit, NodesOf
  <2>2. QED
    BY <2>1, NodesOfCounted
<1>8. CountsInv
  <2>1. \A t \in Timer : ev_refs[t] = 0 /\ ev_state[t] # "valid" /\ tm # t
    BY <1>2 DEF Init, EventInit, Timer
  <2>2. \A t \in Timer : t \notin Members(queue)
    BY <1>5
  <2>3. QED
    BY <1>7, <2>1, <2>2 DEF CountsInv, Registered
<1>9. LifeInv
  BY <1>7 DEF Init, EventInit, LifeInv, Timer
<1>10. CursorInv
  BY <1>2 DEF Init, EventInit, CursorInv, NoTimer, TimerAssumption
<1>11. QED
  BY <1>1, <1>4, <1>6, <1>8, <1>9, <1>10 DEF TimerInv

\* TimerInv is inductive: one case for each command and each step of the loop.
LEMMA TimerInvStep ==
  ASSUME RemoveNext = FALSE, TimerInv, [Next]_vars
  PROVE  TimerInv'
<1>1. CASE Tick
  BY <1>1, TickInv
<1>2. CASE Command
  <2>1. ASSUME NEW n \in Node, NodeRm(n) PROVE TimerInv'
    BY <2>1, NodeRmInv
  <2>2. ASSUME NEW t \in Timer, TimerCreate(t) \/ TimerRemove(t) PROVE TimerInv'
    BY <2>2, TimerCreateInv, TimerRemoveInv
  <2>3. ASSUME NEW t \in Timer, NEW n \in Node, TimerSubscribe(t, n) \/ TimerUnsubscribe(t, n)
        PROVE  TimerInv'
    BY <2>3, TimerSubscribeInv, TimerUnsubscribeInv
  <2>4. ASSUME NEW t \in Timer, NEW interval \in Interval,
               \/ TimerSetInterval(t, interval)
               \/ \E delay \in Delay : TimerSet(t, delay, interval)
               \/ \E when \in AbsTime : TimerSetAbs(t, when, interval)
        PROVE  TimerInv'
    BY <2>4, TimerSetInv
  <2>5. QED
    BY <1>2, <2>1, <2>2, <2>3, <2>4 DEF Command
<1>3. CASE Loop
  BY <1>3, TriggerInv, TriggeredInv, WaveEndInv, SendReturnInv DEF Loop
<1>4. ASSUME NEW f \in BOOLEAN, Wave(f) PROVE TimerInv'
  BY <1>4, WaveInv
<1>5. CASE UNCHANGED vars
  <2>1. /\ UNCHANGED subsVars /\ UNCHANGED <<nd_events, ev_refs, ev_state, sending>>
        /\ UNCHANGED <<timers, armed, loop, tm, tmptm, limit, force, clock>>
    BY <1>5 DEF vars, eventVars, subscriptions, objects, delivery, subsVars, cursor
  <2>2. SubsInv'
    BY <2>1, SubsInvStutter DEF TimerInv
  <2>3. /\ EventTypeOK' /\ ListInv' /\ CountsInv' /\ LifeInv' /\ RegisteredAsSet'
        /\ UNCHANGED <<tm_next, tm_interval, queue, armed, tm>>
    BY <2>1, <2>2, Untouched
  <2>4. TypeOK'
    BY <2>1, <2>3 DEF TimerInv, TypeOK
  <2>5. CursorInv'
    BY <2>1, <2>3 DEF TimerInv, CursorInv, Registered
  <2>6. QED
    BY <2>2, <2>3, <2>4, <2>5 DEF TimerInv
<1>6. QED
  BY <1>1, <1>2, <1>3, <1>4, <1>5 DEF Next

\* What the runs check of timers.
LEMMA TimerInvGives == TimerInv => SubscriptionsSound /\ RefsExact /\ QueueSorted
                                   /\ CursorSafe /\ TimerCursorSafe
<1> SUFFICES ASSUME TimerInv PROVE SubscriptionsSound /\ RefsExact /\ QueueSorted
                                   /\ CursorSafe /\ TimerCursorSafe
  OBVIOUS
<1>1. SubscriptionsMutual /\ NodeRefsExact /\ CursorSafe
  BY SubsInvGives DEF TimerInv
<1>2. TimerCursorSafe
  BY DEF TimerInv, CursorInv, TimerCursorSafe
<1>3. QueueSorted
  BY NoTwiceLength DEF TimerInv, ListInv, SortedBy, QueueSorted
<1>4. \A t \in Timer : /\ Len(ev_nodes[t]) = Cardinality(NodesOf(nd_events, t))
                       /\ ev_nodes[t] = <<>> <=> NodesOf(nd_events, t) = {}
  BY SubscribersCounted DEF TimerInv, Timer
<1>5. TimerRefsExact
  BY <1>4 DEF TimerInv, CountsInv, TimerRefsExact
<1>6. RemovedIsDetached
  BY <1>4, TimerInvFacts DEF RemovedIsDetached
<1>7. SubscriptionsAlive
  <2> SUFFICES ASSUME NEW n \in Node, nd_events[n] # {}
               PROVE  nd_state[n] = "valid" /\ \A e \in nd_events[n] : ev_state[e] = "valid"
    BY DEF SubscriptionsAlive
  <2>1. nd_state[n] = "valid"
    BY DEF TimerInv, SubsInv, ValidSubscribe
  <2>2. ASSUME NEW e \in nd_events[n] PROVE ev_state[e] = "valid"
    <3>1. e \in Timer /\ n \in NodesOf(nd_events, e)
      BY TimerInvFacts DEF NodesOf
    <3>2. QED
      BY <3>1, TimerInvFacts
  <2>3. QED
    BY <2>1, <2>2
<1>8. QED
  BY <1>1, <1>2, <1>3, <1>5, <1>6, <1>7 DEF SubscriptionsSound, RefsExact

\* dmm_timer.c: the invariant holds, as long as no handler removes the cell
\* or the timer that a loop has saved.
THEOREM TimerInvHolds == ASSUME RemoveNext = FALSE PROVE Spec => []TimerInv
BY TimerInvInit, TimerInvStep, PTL DEF Spec

\* Types, reference counts included, never leave their range.
THEOREM TimerTypes == ASSUME RemoveNext = FALSE PROVE Spec => []TypeOK
<1>1. TimerInv => TypeOK
  BY DEF TimerInv
<1>2. QED
  BY <1>1, TimerInvHolds, PTL

\* dmm_timer_rm and dmm_node_rm leave no subscription of what they remove, and
\* dmm_event_unsubscribe finds the two cells it removes.
THEOREM SubscriptionsAreSound == ASSUME RemoveNext = FALSE PROVE Spec => []SubscriptionsSound
BY TimerInvHolds, TimerInvGives, PTL

\* A timer or a node is destroyed when nothing refers to it, and not before.
THEOREM ReferencesAreExact == ASSUME RemoveNext = FALSE PROVE Spec => []RefsExact
BY TimerInvHolds, TimerInvGives, PTL

\* "Contains registered timer in trigger order": through every dmm_timer_set,
\* also of a timer in the list or in the hands of the loop.
THEOREM QueueStaysSorted == ASSUME RemoveNext = FALSE PROVE Spec => []QueueSorted
BY TimerInvHolds, TimerInvGives, PTL

\* A periodic timer never drops out of the list, and a one-shot timer triggers
\* once for each time it is set.
THEOREM TimersStayAsSet == ASSUME RemoveNext = FALSE PROVE Spec => []RegisteredAsSet
<1>1. TimerInv => RegisteredAsSet
  BY DEF TimerInv
<1>2. QED
  BY <1>1, TimerInvHolds, PTL

\* No trigger comes more than coalesce_interval before its time: neither the
\* limit read when the wave began nor a forced trigger lets one through.
THEOREM NoneIsEarly == ASSUME RemoveNext = FALSE PROVE Spec => NeverEarly
<1>1. ASSUME TimerInv, Trigger PROVE tm_next[tmptm] <= clock + Coalesce
  <2>1. /\ tmptm \in Timer /\ loop = "check"
        /\ force \/ tm_next[tmptm] <= limit
    BY <1>1, TimerInvFacts DEF Trigger, ToTrigger
  <2>2. limit <= clock + Coalesce /\ (force => tm_next[tmptm] <= clock + Coalesce)
    BY <1>1, <2>1 DEF TimerInv, CursorInv
  <2>3. tm_next[tmptm] \in Nat /\ limit \in Nat /\ clock \in Nat /\ Coalesce \in Nat
    BY <1>1, <2>1, TimerInvFacts, TimerAssumption
  <2>4. QED
    BY <2>1, <2>2, <2>3
<1>2. TimerInv /\ [Next]_vars => [Trigger => tm_next[tmptm] <= clock + Coalesce]_vars
  BY <1>1
<1>3. QED
  BY <1>2, TimerInvHolds, PTL DEF Spec, NeverEarly
=============================================================================
