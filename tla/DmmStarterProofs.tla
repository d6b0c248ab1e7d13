-------------------------- MODULE DmmStarterProofs --------------------------
(***************************************************************************)
(* The sensors and starter, whatever fails and whatever cores come and go: *)
(* one cpuload node sends loads of one interval, the commands of starter   *)
(* are sent one at a time and take effect in the order of the script.      *)
(***************************************************************************)
EXTENDS DmmStarter, FiniteSetTheorems, SequenceTheorems, TLAPS

-----------------------------------------------------------------------------
(* Lists.                                                                  *)

\* If all that goes is at the end of the list, its beginning is left.
LEMMA KeptPrefix ==
  ASSUME NEW T, NEW s \in Seq(T), NEW gone, NEW m \in 0..Len(s),
         \A i \in 1..Len(s) : s[i] \notin gone <=> i <= m
  PROVE  Kept(s, gone) = [k \in 1..m |-> s[k]]
<1> DEFINE stay    == {i \in DOMAIN s : s[i] \notin gone}
           Upto(i) == {j \in stay : j <= i}
           Rank(i) == Cardinality(Upto(i))
           Nth(k)  == CHOOSE i \in stay : Rank(i) = k
<1>1. stay = 1..m /\ m \in Nat
  OBVIOUS
<1>2. Kept(s, gone) = [k \in 1..Cardinality(stay) |-> s[Nth(k)]]
  BY DEF Kept
<1>3. Cardinality(stay) = m
  <2>1. Cardinality(1..m) = m
    BY <1>1, FS_Interval
  <2> QED
    BY <1>1, <2>1
<1>4. ASSUME NEW i \in 1..m PROVE Rank(i) = i
  <2>1. Upto(i) = 1..i /\ i \in Nat
    BY <1>1
  <2>2. Cardinality(1..i) = i
    BY <2>1, FS_Interval
  <2> QED
    BY <2>1, <2>2
<1> HIDE DEF stay, Upto, Rank
<1>5. ASSUME NEW k \in 1..m PROVE Nth(k) = k
  <2>1. k \in stay /\ Rank(k) = k
    BY <1>1, <1>4
  <2>2. Nth(k) \in stay /\ Rank(Nth(k)) = k
    BY <2>1
  <2> QED
    BY <1>1, <1>4, <2>2
<1> HIDE DEF Nth
<1> QED
  BY <1>2, <1>3, <1>5

\* A new cell at the tail.
LEMMA AppendMembers ==
  ASSUME NEW T, NEW s \in Seq(T), NEW x \in T
  PROVE  Append(s, x) \in Seq(T) /\ Members(Append(s, x)) = Members(s) \cup {x}
<1>1. /\ Append(s, x) \in Seq(T) /\ Len(s) \in Nat
      /\ DOMAIN s = 1..Len(s) /\ DOMAIN Append(s, x) = 1..(Len(s) + 1)
      /\ \A i \in 1..Len(s) : Append(s, x)[i] = s[i]
      /\ Append(s, x)[Len(s) + 1] = x
  OBVIOUS
<1>2. QED
  BY <1>1 DEF Members
-----------------------------------------------------------------------------
(* Sensors.                                                                *)

\* The rows that are read are those of the last reading: with the premise of
\* a single node, also the number of them.
RowsAreOfReading ==
  \A n \in CpuLoad : filled[n] =>
    /\ Len(reading[n].cores) = num_cores
    /\ \A i \in 1..num_cores :
         i \in DOMAIN prev_val[n] /\ prev_val[n][i] = Row(reading[n].cores[i], reading[n].at)

\* Inductive if there is one cpuload node: its buffer is as long as the last
\* count of the cores, which is then its own.
SensorInv ==
  /\ SensorTypeOK /\ RowsAreOfReading
  /\ prev_val \in [CpuLoad -> Seq([core : Nat, at : Nat])]
  /\ \A n \in CpuLoad : /\ n \notin made => prev_val[n] = <<>>
                        /\ prev_val[n] # <<>> => Len(prev_val[n]) >= num_cores

\* The state of one cpuload node, with what the machine and all nodes share.
NodeInv(exists, buffer, full, read, count, time) ==
  /\ buffer \in Seq(Rows(time)) /\ Len(buffer) \in Counts \cup {0} /\ full \in BOOLEAN
  /\ full => buffer # <<>>
  /\ ~exists => buffer = <<>>
  /\ buffer # <<>> => Len(buffer) >= count
  /\ full => /\ Len(read.cores) = count
             /\ \A i \in 1..count : i \in DOMAIN buffer /\ buffer[i] = Row(read.cores[i], read.at)

\* What all sensors share.
SharedInv ==
  /\ made \subseteq Sensor /\ hook \in [Sensor -> {"null", "live", "gone"}]
  /\ num_cores \in Counts \cup {0} /\ cores \in Listings /\ clock \in 1..MaxClock
  /\ prev_val \in [CpuLoad -> Seq([core : Nat, at : Nat])] /\ filled \in [CpuLoad -> BOOLEAN]
  /\ reading \in [CpuLoad -> [at : 0..clock, cores : Listings \cup {<<>>}]]

NodesInv ==
  \A n \in CpuLoad : NodeInv(n \in made, prev_val[n], filled[n], reading[n], num_cores, clock)

LEMMA SensorInvIs == SensorInv <=> SharedInv /\ NodesInv
<1>1. ASSUME SensorInv
      PROVE  SharedInv /\ NodesInv
  <2>1. SharedInv
    BY <1>1 DEF SensorInv, SensorTypeOK, SharedInv
  <2>2. ASSUME NEW n \in CpuLoad
        PROVE  NodeInv(n \in made, prev_val[n], filled[n], reading[n], num_cores, clock)
    BY <1>1 DEF SensorInv, SensorTypeOK, RowsAreOfReading, NodeInv
  <2> QED
    BY <2>1, <2>2 DEF NodesInv
<1>2. ASSUME SharedInv, NodesInv
      PROVE  SensorInv
  <2>1. SensorTypeOK
    BY <1>2 DEF SensorTypeOK, SharedInv, NodesInv, NodeInv
  <2>2. RowsAreOfReading
    BY <1>2 DEF RowsAreOfReading, NodesInv, NodeInv
  <2> QED
    BY <1>2, <2>1, <2>2 DEF SensorInv, SharedInv, NodesInv, NodeInv
<1> QED
  BY <1>1, <1>2

\* A listing is a sequence of the numbers of cores.
LEMMA ListingsAre ==
  /\ MaxClock \in Nat \ {0}
  /\ \A l \in Listings : /\ l \in Seq(Nat) /\ Len(l) \in Nat \ {0} /\ Len(l) \in Counts
                         /\ \A i \in 1..Len(l) : l[i] \in Nat
  /\ Counts \subseteq Nat
<1>1. MaxClock \in Nat \ {0} /\ Listings \subseteq Seq(Nat) \ {<<>>}
  BY SensorAssumption
<1>2. ASSUME NEW l \in Listings
      PROVE  /\ l \in Seq(Nat) /\ Len(l) \in Nat \ {0} /\ Len(l) \in Counts
             /\ \A i \in 1..Len(l) : l[i] \in Nat
  <2>1. l \in Seq(Nat) /\ l # <<>>
    BY <1>1
  <2>2. Len(l) \in Nat \ {0} /\ \A i \in 1..Len(l) : l[i] \in Nat
    BY <2>1
  <2> QED
    BY <2>1, <2>2 DEF Counts
<1> QED
  BY <1>1, <1>2 DEF Counts

\* A node without a buffer has nothing to keep to.
LEMMA NoBuffer ==
  ASSUME NEW exists, NEW time, NEW read, NEW count
  PROVE  NodeInv(exists, <<>>, FALSE, read, count, time)
<1>1. <<>> \in Seq(Rows(time)) /\ Len(<<>>) = 0
  OBVIOUS
<1> QED
  BY <1>1 DEF NodeInv

\* Rows that were read earlier stay rows.
LEMMA RowsStay ==
  ASSUME NEW s, NEW time \in Nat, s \in Seq(Rows(time))
  PROVE  s \in Seq(Rows(time + 1))
<1>1. 0..time \subseteq 0..(time + 1)
  OBVIOUS
<1>2. Rows(time) \subseteq Rows(time + 1)
  BY <1>1 DEF Rows
<1> HIDE DEF Rows
<1> QED
  BY <1>2

LEMMA SensorInvInit == SensorInit => SensorInv
<1> SUFFICES ASSUME SensorInit PROVE SensorInv
  OBVIOUS
<1>1. <<>> \in Seq([core : Nat, at : Nat]) /\ 0 \in 0..1 /\ 1 \in 1..MaxClock
  BY ListingsAre
<1>2. SharedInv
  BY <1>1 DEF SensorInit, SharedInv
<1>3. ASSUME NEW n \in CpuLoad
      PROVE  NodeInv(n \in made, prev_val[n], filled[n], reading[n], num_cores, clock)
  <2>1. prev_val[n] = <<>> /\ filled[n] = FALSE
    BY DEF SensorInit
  <2>2. NodeInv(n \in made, <<>>, FALSE, reading[n], num_cores, clock)
    BY NoBuffer
  <2> QED
    BY <2>1, <2>2
<1> QED
  BY <1>2, <1>3, SensorInvIs DEF NodesInv

\* A sequence of rows, from what it is at each place.
LEMMA RowsOf ==
  ASSUME NEW r \in Nat, NEW t, NEW time \in Nat, t = [i \in 1..r |-> t[i]],
         \A i \in 1..r : t[i] \in Rows(time)
  PROVE  /\ t \in Seq(Rows(time)) /\ t \in Seq([core : Nat, at : Nat])
         /\ Len(t) = r /\ DOMAIN t = 1..r
<1>1. Rows(time) \subseteq [core : Nat, at : Nat]
  BY DEF Rows
<1> HIDE DEF Rows
<1>2. t \in [1..r -> Rows(time)] /\ t \in [1..r -> [core : Nat, at : Nat]]
  BY <1>1
<1> QED
  BY <1>2

\* fill_prev leaves a row for each core that it has counted, read just now.
LEMMA FillPrevIs ==
  ASSUME NEW n \in CpuLoad, n \in made, SharedInv,
         NodeInv(n \in made, prev_val[n], filled[n], reading[n], num_cores, clock),
         NEW changed \in BOOLEAN, FillPrev(n, changed), UNCHANGED <<made, cores, clock>>
  PROVE  /\ NodeInv(n \in made', prev_val'[n], filled'[n], reading'[n], num_cores', clock')
         /\ prev_val' \in [CpuLoad -> Seq([core : Nat, at : Nat])]
         /\ filled' \in [CpuLoad -> BOOLEAN]
         /\ reading' \in [CpuLoad -> [at : 0..clock, cores : Listings \cup {<<>>}]]
         /\ num_cores' = Len(cores)
<1> DEFINE s == prev_val[n]
           k == Len(cores)
           r == Room(n, changed)
           last(i) == IF i \in DOMAIN s THEN s[i] ELSE NoRow
           t == [i \in 1..r |-> IF RowRead(i) THEN Row(cores[i], clock) ELSE last(i)]
           now == [at |-> clock, cores |-> cores]
<1>1. /\ cores \in Listings /\ num_cores \in Counts \cup {0} /\ clock \in Nat \ {0}
      /\ k \in Nat \ {0} /\ k \in Counts /\ num_cores \in Nat
      /\ \A i \in 1..k : cores[i] \in Nat
      /\ prev_val \in [CpuLoad -> Seq([core : Nat, at : Nat])] /\ filled \in [CpuLoad -> BOOLEAN]
      /\ reading \in [CpuLoad -> [at : 0..clock, cores : Listings \cup {<<>>}]]
      /\ s \in Seq(Rows(clock)) /\ Len(s) \in Counts \cup {0} /\ Len(s) \in Nat
      /\ s # <<>> => Len(s) >= num_cores
  BY ListingsAre DEF SharedInv, NodeInv
<1>2. /\ prev_val' = [prev_val EXCEPT ![n] = t] /\ filled' = [filled EXCEPT ![n] = TRUE]
      /\ reading' = [reading EXCEPT ![n] = now] /\ num_cores' = k
  BY DEF FillPrev
<1>3. r \in Nat /\ k <= r /\ r \in Counts
  <2>1. CASE changed \/ k > num_cores
    BY <1>1, <2>1 DEF Room
  <2>2. CASE ~(changed \/ k > num_cores) /\ s = <<>>
    BY <1>1, <2>2 DEF Room
  <2>3. CASE ~(changed \/ k > num_cores) /\ s # <<>>
    BY <1>1, <2>3 DEF Room
  <2> QED
    BY <2>1, <2>2, <2>3
<1>4. \A i \in 1..r : t[i] = IF i <= k THEN Row(cores[i], clock) ELSE last(i)
  BY DEF RowRead
<1>5. t = [i \in 1..r |-> t[i]]
  OBVIOUS
<1>6. ASSUME NEW i \in 1..r
      PROVE  t[i] \in Rows(clock)
  <2>1. \A j \in DOMAIN s : s[j] \in Rows(clock)
    BY <1>1
  <2>2. NoRow \in Rows(clock)
    BY <1>1 DEF NoRow, Row, Rows
  <2>3. i <= k => Row(cores[i], clock) \in Rows(clock)
    BY <1>1, <1>3 DEF Row, Rows
  <2>4. last(i) \in Rows(clock)
    BY <2>1, <2>2
  <2> QED
    BY <1>4, <2>3, <2>4
<1> HIDE DEF t, s, r, k, last
<1>7. /\ t \in Seq(Rows(clock)) /\ t \in Seq([core : Nat, at : Nat])
      /\ Len(t) = r /\ DOMAIN t = 1..r
  BY <1>1, <1>3, <1>5, <1>6, RowsOf
<1>8. prev_val'[n] = t /\ filled'[n] = TRUE /\ reading'[n] = now
  BY <1>1, <1>2
<1>9. NodeInv(TRUE, t, TRUE, now, k, clock)
  <2>1. Len(t) \in Counts \cup {0} /\ Len(t) >= k /\ t # <<>>
    BY <1>1, <1>3, <1>7
  <2>2. ASSUME NEW i \in 1..k PROVE i \in DOMAIN t /\ t[i] = Row(cores[i], clock)
    <3>1. i \in 1..r /\ i <= k
      BY <1>1, <1>3
    <3> QED
      BY <1>4, <1>7, <3>1
  <2>3. Len(now.cores) = k /\ now.cores = cores /\ now.at = clock
    BY DEF k
  <2> QED
    BY <1>7, <2>1, <2>2, <2>3 DEF NodeInv
<1>10. now \in [at : 0..clock, cores : Listings \cup {<<>>}]
  BY <1>1
<1> HIDE DEF now
<1>11. NodeInv(n \in made', prev_val'[n], filled'[n], reading'[n], num_cores', clock')
  BY <1>2, <1>8, <1>9
<1>12. /\ prev_val' \in [CpuLoad -> Seq([core : Nat, at : Nat])]
       /\ filled' \in [CpuLoad -> BOOLEAN]
       /\ reading' \in [CpuLoad -> [at : 0..clock, cores : Listings \cup {<<>>}]]
  BY <1>1, <1>2, <1>7, <1>10
<1> QED
  BY <1>2, <1>11, <1>12 DEF k

\* Without memory the node is left without a buffer.
LEMMA FillFailsIs ==
  ASSUME NEW n \in CpuLoad, n \in made, SharedInv,
         NodeInv(n \in made, prev_val[n], filled[n], reading[n], num_cores, clock),
         NEW changed \in BOOLEAN, FillFails(n, changed), UNCHANGED <<made, cores, clock>>
  PROVE  /\ NodeInv(n \in made', prev_val'[n], filled'[n], reading'[n], num_cores', clock')
         /\ prev_val' \in [CpuLoad -> Seq([core : Nat, at : Nat])]
         /\ filled' \in [CpuLoad -> BOOLEAN] /\ reading' = reading
         /\ num_cores' \in Counts \cup {0}
<1>1. /\ prev_val \in [CpuLoad -> Seq([core : Nat, at : Nat])] /\ filled \in [CpuLoad -> BOOLEAN]
      /\ Len(cores) \in Counts /\ num_cores \in Counts \cup {0}
  BY ListingsAre DEF SharedInv, NodeInv
<1>2. /\ prev_val' = [prev_val EXCEPT ![n] = <<>>] /\ filled' = [filled EXCEPT ![n] = FALSE]
      /\ num_cores' \in {num_cores, Len(cores)} /\ reading' = reading
  BY DEF FillFails
<1>3. prev_val'[n] = <<>> /\ filled'[n] = FALSE
  BY <1>1, <1>2
<1>4. <<>> \in Seq([core : Nat, at : Nat])
  OBVIOUS
<1>5. /\ prev_val' \in [CpuLoad -> Seq([core : Nat, at : Nat])]
      /\ filled' \in [CpuLoad -> BOOLEAN]
  BY <1>1, <1>2, <1>4
<1>6. NodeInv(n \in made', <<>>, FALSE, reading'[n], num_cores', clock')
  BY NoBuffer
<1> QED
  BY <1>1, <1>2, <1>3, <1>5, <1>6

\* The counters of all cores that are listed replace those of the last reading.
LEMMA SendLoadIs ==
  ASSUME NEW n \in CpuLoad, n \in made, SharedInv,
         NodeInv(n \in made, prev_val[n], filled[n], reading[n], num_cores, clock),
         SendLoad(n), UNCHANGED <<made, cores, clock>>
  PROVE  /\ NodeInv(n \in made', prev_val'[n], filled'[n], reading'[n], num_cores', clock')
         /\ prev_val' \in [CpuLoad -> Seq([core : Nat, at : Nat])]
         /\ filled' \in [CpuLoad -> BOOLEAN] /\ num_cores' = num_cores
         /\ reading' \in [CpuLoad -> [at : 0..clock, cores : Listings \cup {<<>>}]]
<1> DEFINE s == prev_val[n]
           t == [i \in DOMAIN s |-> IF i <= num_cores THEN Row(cores[i], clock) ELSE s[i]]
           now == [at |-> clock, cores |-> cores]
<1>1. /\ cores \in Listings /\ num_cores \in Nat /\ clock \in Nat /\ Len(cores) = num_cores
      /\ \A i \in 1..num_cores : cores[i] \in Nat
      /\ prev_val \in [CpuLoad -> Seq([core : Nat, at : Nat])] /\ filled \in [CpuLoad -> BOOLEAN]
      /\ reading \in [CpuLoad -> [at : 0..clock, cores : Listings \cup {<<>>}]]
      /\ s \in Seq(Rows(clock)) /\ Len(s) \in Counts \cup {0} /\ Len(s) \in Nat
      /\ filled[n] /\ s # <<>> /\ Len(s) >= num_cores
  BY ListingsAre DEF SharedInv, NodeInv, SendLoad, Ready
<1>2. /\ prev_val' = [prev_val EXCEPT ![n] = t] /\ reading' = [reading EXCEPT ![n] = now]
      /\ UNCHANGED <<num_cores, filled>>
  BY DEF SendLoad
<1>3. DOMAIN s = 1..Len(s)
  BY <1>1
<1>4. /\ t = [i \in 1..Len(s) |-> t[i]]
      /\ \A i \in 1..Len(s) : t[i] = IF i <= num_cores THEN Row(cores[i], clock) ELSE s[i]
  BY <1>3
<1>5. ASSUME NEW i \in 1..Len(s)
      PROVE  t[i] \in Rows(clock)
  <2>1. s[i] \in Rows(clock)
    BY <1>1, <1>3
  <2>2. i <= num_cores => Row(cores[i], clock) \in Rows(clock)
    BY <1>1 DEF Row, Rows
  <2> QED
    BY <1>4, <2>1, <2>2
<1> HIDE DEF s, t
<1>6. /\ t \in Seq(Rows(clock)) /\ t \in Seq([core : Nat, at : Nat])
      /\ Len(t) = Len(s) /\ DOMAIN t = 1..Len(s)
  BY <1>1, <1>4, <1>5, RowsOf
<1>7. prev_val'[n] = t /\ filled'[n] = TRUE /\ reading'[n] = now
  BY <1>1, <1>2
<1>8. NodeInv(TRUE, t, TRUE, now, num_cores, clock)
  <2>1. t # <<>>
    BY <1>1, <1>6
  <2>2. ASSUME NEW i \in 1..num_cores PROVE i \in DOMAIN t /\ t[i] = Row(cores[i], clock)
    <3>1. i \in 1..Len(s) /\ i <= num_cores
      BY <1>1
    <3> QED
      BY <1>4, <1>6, <3>1
  <2>3. Len(now.cores) = num_cores /\ now.cores = cores /\ now.at = clock
    BY <1>1
  <2> QED
    BY <1>1, <1>6, <2>1, <2>2, <2>3 DEF NodeInv
<1>9. now \in [at : 0..clock, cores : Listings \cup {<<>>}]
  BY <1>1
<1> HIDE DEF now
<1>10. NodeInv(n \in made', prev_val'[n], filled'[n], reading'[n], num_cores', clock')
  BY <1>2, <1>7, <1>8
<1>11. /\ prev_val' \in [CpuLoad -> Seq([core : Nat, at : Nat])]
       /\ filled' \in [CpuLoad -> BOOLEAN]
       /\ reading' \in [CpuLoad -> [at : 0..clock, cores : Listings \cup {<<>>}]]
  BY <1>1, <1>2, <1>6, <1>9
<1> QED
  BY <1>2, <1>10, <1>11

\* One cpuload node and the other sensors, under any commands and triggers.
LEMMA SensorInvStep ==
  ASSUME NEW c, CpuLoad = {c}
  PROVE  SensorInv /\ [SensorNext]_sensorVars => SensorInv'
<1> SUFFICES ASSUME SensorInv, [SensorNext]_sensorVars PROVE SensorInv'
  OBVIOUS
<1> DEFINE Node == NodeInv(c \in made, prev_val[c], filled[c], reading[c], num_cores, clock)
<1>1. SharedInv /\ Node
  BY SensorInvIs DEF NodesInv
<1>2. /\ CpuLoad \subseteq Sensor /\ clock \in Nat \ {0}
      /\ \A l \in Listings : Len(l) \in Counts
  BY <1>1, SensorAssumption, ListingsAre DEF SharedInv
<1>3. SUFFICES SharedInv' /\ Node'
  <2>1. SensorInv' <=> SharedInv' /\ NodesInv'
    BY SensorInvIs, PTL
  <2>2. NodesInv'
    BY <1>3 DEF NodesInv
  <2> QED
    BY <1>3, <2>1, <2>2
<1>4. CASE Tick
  <2>1. /\ clock' = clock + 1 /\ clock < MaxClock
        /\ UNCHANGED <<made, hook, num_cores, prev_val, filled, reading, cores>>
    BY <1>4 DEF Tick, sensors
  <2>2. 0..clock \subseteq 0..clock' /\ clock' \in 1..MaxClock
    BY <1>2, <2>1, ListingsAre
  <2>3. reading \in [CpuLoad -> [at : 0..clock', cores : Listings \cup {<<>>}]]
    BY <1>1, <2>2 DEF SharedInv
  <2>4. SharedInv'
    BY <1>1, <2>1, <2>2, <2>3 DEF SharedInv
  <2>5. prev_val[c] \in Seq(Rows(clock'))
    BY <1>1, <1>2, <2>1, RowsStay DEF NodeInv
  <2>6. Node'
    BY <1>1, <2>1, <2>5 DEF NodeInv
  <2> QED
    BY <2>4, <2>6
<1>5. CASE Hotplug \/ UNCHANGED sensorVars
  <2>1. /\ cores' \in Listings
        /\ UNCHANGED <<made, hook, num_cores, prev_val, filled, reading, clock>>
    BY <1>1, <1>5 DEF Hotplug, sensorVars, sensors, machine, SharedInv
  <2> QED
    BY <1>1, <2>1 DEF SharedInv
<1>6. ASSUME NEW n \in Sensor, NewHook(n) \/ RmHook(n), UNCHANGED machine
      PROVE  SharedInv' /\ Node'
  <2>1. /\ hook' \in [Sensor -> {"null", "live", "gone"}]
        /\ UNCHANGED <<made, num_cores, prev_val, filled, reading, cores, clock>>
    BY <1>1, <1>6 DEF NewHook, RmHook, machine, SharedInv
  <2> QED
    BY <1>1, <2>1 DEF SharedInv
<1>7. ASSUME NEW n \in Sensor, Create(n), UNCHANGED machine
      PROVE  SharedInv' /\ Node'
  <2>1. /\ n \notin made /\ made' = made \cup {n}
        /\ num_cores' = IF n \in CpuLoad /\ num_cores = 0 THEN Len(cores) ELSE num_cores
        /\ UNCHANGED <<hook, prev_val, filled, reading, cores, clock>>
    BY <1>7 DEF Create, machine
  <2>2. SharedInv'
    BY <1>1, <1>2, <2>1 DEF SharedInv
  <2>3. CASE n = c
    <3>1. prev_val[c] = <<>> /\ filled[c] = FALSE
      BY <1>1, <2>1, <2>3 DEF NodeInv, SharedInv
    <3>2. NodeInv(c \in made', <<>>, FALSE, reading[c], num_cores', clock)
      BY NoBuffer
    <3> QED
      BY <2>1, <2>2, <3>1, <3>2
  <2>4. CASE n # c
    <3>1. num_cores' = num_cores /\ (c \in made' <=> c \in made)
      BY <2>1, <2>4
    <3> QED
      BY <1>1, <2>1, <2>2, <3>1
  <2> QED
    BY <2>3, <2>4
<1>8. ASSUME NEW n \in Sensor, TriggerSensor(n), UNCHANGED machine
      PROVE  SharedInv' /\ Node'
  <2>1. n \in made /\ UNCHANGED <<made, hook, cores, clock>>
    BY <1>8 DEF TriggerSensor, machine
  <2>2. CASE n = c
    <3>1. /\ c \in CpuLoad /\ c \in made /\ UNCHANGED <<made, hook, cores, clock>>
          /\ \/ SendLoad(c) \/ NoData(c)
             \/ \E changed \in BOOLEAN : FillPrev(c, changed) \/ FillFails(c, changed)
      BY <1>8, <2>1, <2>2 DEF TriggerSensor, TriggerCpuLoad, CoresChanged, FillOnly
    <3>2. CASE SendLoad(c)
      <4>1. /\ Node' /\ prev_val' \in [CpuLoad -> Seq([core : Nat, at : Nat])]
            /\ filled' \in [CpuLoad -> BOOLEAN] /\ num_cores' = num_cores
            /\ reading' \in [CpuLoad -> [at : 0..clock, cores : Listings \cup {<<>>}]]
        BY <1>1, <3>1, <3>2, SendLoadIs
      <4> QED
        BY <1>1, <3>1, <4>1 DEF SharedInv
    <3>3. CASE NoData(c)
      BY <1>1, <3>1, <3>3 DEF NoData, SharedInv
    <3>4. ASSUME NEW changed \in BOOLEAN, FillPrev(c, changed)
          PROVE  SharedInv' /\ Node'
      <4>1. /\ Node' /\ prev_val' \in [CpuLoad -> Seq([core : Nat, at : Nat])]
            /\ filled' \in [CpuLoad -> BOOLEAN] /\ num_cores' = Len(cores)
            /\ reading' \in [CpuLoad -> [at : 0..clock, cores : Listings \cup {<<>>}]]
        BY <1>1, <3>1, <3>4, FillPrevIs
      <4>2. num_cores' \in Counts \cup {0}
        BY <1>1, <1>2, <4>1 DEF SharedInv
      <4> QED
        BY <1>1, <3>1, <4>1, <4>2 DEF SharedInv
    <3>5. ASSUME NEW changed \in BOOLEAN, FillFails(c, changed)
          PROVE  SharedInv' /\ Node'
      <4>1. /\ Node' /\ prev_val' \in [CpuLoad -> Seq([core : Nat, at : Nat])]
            /\ filled' \in [CpuLoad -> BOOLEAN] /\ reading' = reading
            /\ num_cores' \in Counts \cup {0}
        BY <1>1, <3>1, <3>5, FillFailsIs
      <4> QED
        BY <1>1, <3>1, <4>1 DEF SharedInv
    <3> QED
      BY <3>1, <3>2, <3>3, <3>4, <3>5
  <2>3. CASE n # c
    <3>1. UNCHANGED <<num_cores, prev_val, filled, reading>>
      BY <1>8, <2>3 DEF TriggerSensor, TriggerOther
    <3> QED
      BY <1>1, <2>1, <3>1 DEF SharedInv
  <2> QED
    BY <2>2, <2>3
<1> QED
  BY <1>4, <1>5, <1>6, <1>7, <1>8 DEF SensorNext

\* What one cpuload node subtracts from.
LEMMA LoadsStep ==
  ASSUME SensorInv, NEW n \in CpuLoad, SendLoad(n), NEW i \in 1..num_cores
  PROVE  /\ i \in DOMAIN prev_val[n] /\ prev_val[n][i].at = reading[n].at
         /\ reading[n].cores = cores => prev_val[n][i].core = cores[i]
<1>1. filled[n]
  BY DEF SendLoad, Ready
<1>2. i \in DOMAIN prev_val[n] /\ prev_val[n][i] = Row(reading[n].cores[i], reading[n].at)
  BY <1>1 DEF SensorInv, RowsAreOfReading
<1> QED
  BY <1>2 DEF Row
-----------------------------------------------------------------------------
(* The script.                                                             *)

Step == [cmd : {Script[i].cmd : i \in DOMAIN Script} \cup {"TIMERRM"}, of : Slot \cup {self}]

\* What starter asks for, in order: the script, and then the end of the timer,
\* again and again if need be.
Nth(j) == IF j <= Len(Script) THEN Script[j] ELSE Removal

\* What the first k commands of the script have done, and told starter.
DoneTo(k, cmd) == {Script[i].of : i \in {j \in 1..k : Script[j].cmd = cmd}}
Told(k) == DoneTo(k, "NODECREATE") \cup DoneTo(k, "TIMERCREATE")

LEMMA ScriptIs ==
  /\ Len(Script) = 10 /\ DOMAIN Script = 1..10
  /\ Script[1]  = [cmd |-> "NODECREATE", of |-> ifdata]
  /\ Script[2]  = [cmd |-> "NODECREATE", of |-> cpuload]
  /\ Script[3]  = [cmd |-> "NODECREATE", of |-> dbgprinter]
  /\ Script[4]  = [cmd |-> "NODECONNECT", of |-> ifdata]
  /\ Script[5]  = [cmd |-> "NODECONNECT", of |-> cpuload]
  /\ Script[6]  = [cmd |-> "TIMERCREATE", of |-> timer]
  /\ Script[7]  = [cmd |-> "TIMERSET", of |-> timer]
  /\ Script[8]  = [cmd |-> "TIMERSUBSCRIBE", of |-> ifdata]
  /\ Script[9]  = [cmd |-> "TIMERSUBSCRIBE", of |-> cpuload]
  /\ Script[10] = [cmd |-> "TIMERSUBSCRIBE", of |-> self]
BY DEF Script

\* The first ten are those of the script, all others the removal.
LEMMA NthIs ==
  /\ \A j \in Nat \ {0} : Nth(j) \in Step
  /\ \A j \in Nat \ {0} : Nth(j) = Removal <=> j > 10
  /\ \A j \in 1..10 : Nth(j) = Script[j] /\ Script[j].cmd # "TIMERRM"
  /\ Removal = [cmd |-> "TIMERRM", of |-> timer]
<1>1. Removal = [cmd |-> "TIMERRM", of |-> timer]
  BY DEF Removal
<1>2. \A j \in 1..10 : Script[j] \in Step
  BY ScriptIs, StarterAssumption DEF Step, Slot
<1>3. \A j \in 1..10 : Script[j].cmd # "TIMERRM"
  BY ScriptIs
<1>4. Removal \in Step
  BY <1>1 DEF Step, Slot
<1>5. \A j \in Nat \ {0} : Nth(j) = IF j <= 10 THEN Script[j] ELSE Removal
  BY ScriptIs DEF Nth
<1>6. \A j \in Nat \ {0} : j <= 10 <=> j \in 1..10
  OBVIOUS
<1>7. \A j \in Nat \ {0} : Nth(j) = Removal <=> j > 10
  BY <1>1, <1>3, <1>5, <1>6
<1> QED
  BY <1>1, <1>2, <1>3, <1>4, <1>5, <1>6, <1>7

\* One command more.
LEMMA DoneToStep ==
  ASSUME NEW k \in 0..9, NEW cmd
  PROVE  DoneTo(k + 1, cmd)
           = DoneTo(k, cmd) \cup (IF Script[k + 1].cmd = cmd THEN {Script[k + 1].of} ELSE {})
<1>1. \A j : j \in 1..(k + 1) <=> j \in 1..k \/ j = k + 1
  OBVIOUS
<1> QED
  BY <1>1 DEF DoneTo

\* Identifiers are told before they are read, and the timer is created before
\* it is set.
LEMMA ScriptOrder ==
  /\ DoneTo(0, "NODECREATE") = {} /\ DoneTo(0, "NODECONNECT") = {} /\ Told(0) = {}
  /\ DoneTo(0, "TIMERSUBSCRIBE") = {} /\ DoneTo(0, "TIMERSET") = {}
  /\ \A k \in 0..10 : Reads(Nth(k + 1)) \subseteq Told(k) /\ Told(k) \subseteq Slot
  /\ \A j \in Nat \ {0} : Reads(Nth(j)) \subseteq Slot
  /\ \A k \in 0..9 : Script[k + 1].cmd = "TIMERCREATE" => timer \notin DoneTo(k, "TIMERSET")
  /\ \A k \in 0..9 : Script[k + 1].cmd = "TIMERSET" => Script[k + 1].of = timer
  /\ \A k \in 0..10 : DoneTo(k, "TIMERCREATE") \subseteq {timer}
  /\ \A k \in 0..9 : Script[k + 1].cmd = "TIMERSUBSCRIBE"
                       => Script[k + 1].of \in {ifdata, cpuload, self}
<1>1. /\ DoneTo(0, "NODECREATE") = {} /\ DoneTo(0, "NODECONNECT") = {} /\ Told(0) = {}
      /\ DoneTo(0, "TIMERSUBSCRIBE") = {} /\ DoneTo(0, "TIMERSET") = {}
  BY DEF DoneTo, Told
<1>2. \A k \in 0..10 : /\ k >= 1 => ifdata \in Told(k)
                       /\ k >= 2 => cpuload \in Told(k)
                       /\ k >= 3 => dbgprinter \in Told(k)
                       /\ k >= 6 => timer \in Told(k)
  <2> SUFFICES ASSUME NEW k \in 0..10
               PROVE  /\ k >= 1 => ifdata \in Told(k)
                      /\ k >= 2 => cpuload \in Told(k)
                      /\ k >= 3 => dbgprinter \in Told(k)
                      /\ k >= 6 => timer \in Told(k)
    OBVIOUS
  <2>1. \A i \in 1..k : /\ Script[i].cmd = "NODECREATE" => Script[i].of \in Told(k)
                        /\ Script[i].cmd = "TIMERCREATE" => Script[i].of \in Told(k)
    BY DEF Told, DoneTo
  <2> QED
    BY <2>1, ScriptIs
<1>3. \A k \in 0..10 : Told(k) \subseteq Slot /\ DoneTo(k, "TIMERCREATE") \subseteq {timer}
  <2>1. \A i \in 1..10 : /\ Script[i].cmd = "NODECREATE" => Script[i].of \in Slot
                         /\ Script[i].cmd = "TIMERCREATE" => Script[i].of = timer
    BY ScriptIs DEF Slot
  <2> QED
    BY <2>1 DEF Told, DoneTo, Slot
<1>4. /\ Reads(Script[1]) = {} /\ Reads(Script[2]) = {} /\ Reads(Script[3]) = {}
      /\ Reads(Script[6]) = {}
  BY ScriptIs DEF Reads, Creations
<1>5. Reads(Script[4]) = {ifdata, dbgprinter} /\ Reads(Script[5]) = {cpuload, dbgprinter}
  BY ScriptIs DEF Reads, Creations
<1>6. Reads(Script[7]) = {timer} /\ Reads(Removal) = {timer}
  BY ScriptIs DEF Reads, Creations, Removal
<1>7. /\ Reads(Script[8]) \subseteq {ifdata, timer}
      /\ Reads(Script[9]) \subseteq {cpuload, timer}
      /\ Reads(Script[10]) \subseteq {timer}
  BY ScriptIs DEF Reads, Creations
<1>8. \A j \in 1..10 : Reads(Script[j]) \subseteq Told(j - 1)
  <2>1. \A j \in 1..10 : \/ j = 1 \/ j = 2 \/ j = 3 \/ j = 4 \/ j = 5
                         \/ j = 6 \/ j = 7 \/ j = 8 \/ j = 9 \/ j = 10
    OBVIOUS
  <2>2. /\ Reads(Script[4]) \subseteq Told(3) /\ Reads(Script[5]) \subseteq Told(4)
        /\ Reads(Script[7]) \subseteq Told(6) /\ Reads(Script[8]) \subseteq Told(7)
        /\ Reads(Script[9]) \subseteq Told(8) /\ Reads(Script[10]) \subseteq Told(9)
    BY <1>2, <1>5, <1>6, <1>7
  <2> QED
    BY <1>4, <2>1, <2>2
<1>9. \A k \in 0..10 : Reads(Nth(k + 1)) \subseteq Told(k)
  <2> SUFFICES ASSUME NEW k \in 0..10 PROVE Reads(Nth(k + 1)) \subseteq Told(k)
    OBVIOUS
  <2>1. CASE k = 10
    <3>1. Nth(k + 1) = Removal
      BY <2>1, NthIs
    <3> QED
      BY <1>2, <1>6, <2>1, <3>1
  <2>2. CASE k # 10
    <3>1. k + 1 \in 1..10 /\ (k + 1) - 1 = k
      BY <2>2
    <3>2. Nth(k + 1) = Script[k + 1]
      BY <3>1, NthIs
    <3> QED
      BY <1>8, <3>1, <3>2
  <2> QED
    BY <2>1, <2>2
<1>10. \A j \in Nat \ {0} : Reads(Nth(j)) \subseteq Slot
  <2> SUFFICES ASSUME NEW j \in Nat \ {0} PROVE Reads(Nth(j)) \subseteq Slot
    OBVIOUS
  <2>1. CASE j > 10
    BY <1>6, <2>1, NthIs DEF Slot
  <2>2. CASE ~(j > 10)
    <3>1. j - 1 \in 0..10 /\ (j - 1) + 1 = j
      BY <2>2
    <3> QED
      BY <1>3, <1>9, <3>1
  <2> QED
    BY <2>1, <2>2
<1>11. \A k \in 0..9 : Script[k + 1].cmd = "TIMERCREATE" => timer \notin DoneTo(k, "TIMERSET")
  <2> SUFFICES ASSUME NEW k \in 0..9, Script[k + 1].cmd = "TIMERCREATE"
               PROVE  timer \notin DoneTo(k, "TIMERSET")
    OBVIOUS
  <2>1. k = 5
    BY ScriptIs
  <2>2. \A i \in 1..5 : Script[i].cmd # "TIMERSET"
    BY ScriptIs
  <2> QED
    BY <2>1, <2>2 DEF DoneTo
<1>12. \A k \in 0..9 : /\ Script[k + 1].cmd = "TIMERSET" => Script[k + 1].of = timer
                       /\ Script[k + 1].cmd = "TIMERSUBSCRIBE"
                            => Script[k + 1].of \in {ifdata, cpuload, self}
  <2>1. \A j \in 1..10 : /\ Script[j].cmd = "TIMERSET" => Script[j].of = timer
                         /\ Script[j].cmd = "TIMERSUBSCRIBE"
                              => Script[j].of \in {ifdata, cpuload, self}
    BY ScriptIs
  <2> QED
    BY <2>1
<1> QED
  BY <1>1, <1>3, <1>9, <1>10, <1>11, <1>12
-----------------------------------------------------------------------------
(* The queue.                                                              *)

Plainly(c) == [cmd |-> c.cmd, of |-> c.of]

\* One if the first of the list has been executed, and is about to be answered.
Answering == IF answer = "ok" THEN 1 ELSE 0

\* Commands are added when nothing is being sent, so that the only loop there
\* ever is stands on the only command in the list.  If that one is not answered
\* it stays there for good, and all others behind it.
QueueInv ==
  /\ list \in Seq(Listed) /\ todo \in Seq(Step)
  /\ waiting \in BOOLEAN /\ answer \in {"none", "ok", "error"}
  /\ loops # <<>> => Len(list) = 1 /\ loops = <<<<list[1], NoCmd>>>> /\ list[1].unset = {}
  /\ loops = <<>> => answer = "none"
  /\ loops # <<>> => (waiting <=> answer # "none")
  /\ waiting => list # <<>> /\ list[1].unset = {}

\* k commands of the script have been executed, and the others are in the list
\* or still to be added.
At(k) ==
  /\ \A i \in 1..Len(list) : i > Answering => Plainly(list[i]) = Nth(k + i - Answering)
  /\ \A i \in 1..Len(todo) : todo[i] = Nth(k + Len(list) - Answering + i)
  /\ k + Len(list) - Answering + Len(todo) >= 10
  /\ ids \cup (IF answer = "ok" THEN Learnt(list[1]) ELSE {}) = Told(k)

\* What these k commands have done.
Effects(k) ==
  /\ made \cup (IF printer THEN {dbgprinter} ELSE {}) = DoneTo(k, "NODECREATE")
  /\ {n \in Sensor : hook[n] = "live"} = DoneTo(k, "NODECONNECT")
  /\ tm # "removed" => /\ Members(subs) = DoneTo(k, "TIMERSUBSCRIBE")
                       /\ tm = "set" <=> timer \in DoneTo(k, "TIMERSET")
  /\ tm = "removed" => k = 10

\* The rest of the types.
RestTypeOK ==
  /\ num_tt \in Nat /\ printer \in BOOLEAN
  /\ tm \in {"none", "created", "set", "removed"}
  /\ subs \in Seq({ifdata, cpuload, self}) /\ round \in Seq({ifdata, cpuload, self})
  /\ status \in {"runs", "exits", "aborts"} /\ failed \in BOOLEAN

StarterInv ==
  SensorInv /\ QueueInv /\ RestTypeOK /\ \E k \in 0..10 : At(k) /\ Effects(k)

\* A command is made of the right identifiers if nothing is in its way.
LEMMA CreatedIs ==
  ASSUME NEW k \in 0..10, NEW j \in Nat \ {0}
  PROVE  /\ Created(Nth(j)) \in Listed /\ Plainly(Created(Nth(j))) = Nth(j)
         /\ j = k + 1 /\ ids = Told(k) => Created(Nth(j)).unset = {}
<1>1. Nth(j) \in Step /\ Reads(Nth(j)) \subseteq Slot
  BY NthIs, ScriptOrder
<1>2. Created(Nth(j)) = [cmd |-> Nth(j).cmd, of |-> Nth(j).of, unset |-> Reads(Nth(j)) \ ids]
  BY DEF Created
<1>3. Created(Nth(j)) \in Listed
  BY <1>1, <1>2 DEF Listed, Step
<1>4. Plainly(Created(Nth(j))) = Nth(j)
  BY <1>1, <1>2 DEF Plainly, Step
<1>5. j = k + 1 /\ ids = Told(k) => Created(Nth(j)).unset = {}
  BY <1>2, ScriptOrder
<1> QED
  BY <1>3, <1>4, <1>5

LEMMA AddCommandInv ==
  ASSUME QueueInv, NEW k \in 0..10, At(k), AddCommand
  PROVE  QueueInv' /\ At(k)'
<1> DEFINE j == k + Len(list) + 1
           c == Created(Nth(j))
<1>1. /\ todo # <<>> /\ loops = <<>> /\ answer = "none"
      /\ list \in Seq(Listed) /\ todo \in Seq(Step) /\ waiting \in BOOLEAN
      /\ Len(list) \in Nat /\ Len(todo) \in Nat /\ Len(todo) >= 1
      /\ Answering = 0 /\ Answering' = 0
      /\ UNCHANGED <<ids, waiting, answer>>
      /\ waiting => list # <<>> /\ list[1].unset = {}
  BY DEF AddCommand, InHandler, QueueInv, Answering
<1>2. j \in Nat \ {0} /\ Head(todo) = Nth(j)
  BY <1>1 DEF At
<1>3. /\ list' = Append(list, c) /\ todo' = Tail(todo)
      /\ loops' = IF list = <<>> THEN <<Loop(list')>> ELSE <<>>
  BY <1>2 DEF AddCommand, Inserted, Starts
<1>4. /\ c \in Listed /\ Plainly(c) = Nth(j)
      /\ list = <<>> => c.unset = {}
  <2>1. list = <<>> => j = k + 1 /\ ids = Told(k)
    BY <1>1 DEF At
  <2> QED
    BY <1>2, <2>1, CreatedIs
<1>5. j = k + Len(list) + 1
  OBVIOUS
<1> HIDE DEF c, j
<1>6. /\ list' \in Seq(Listed) /\ Len(list') = Len(list) + 1 /\ list'[Len(list) + 1] = c
      /\ \A i \in 1..Len(list) : list'[i] = list[i]
  BY <1>1, <1>3, <1>4
<1>7. /\ todo' \in Seq(Step) /\ Len(todo') = Len(todo) - 1
      /\ \A i \in 1..Len(todo') : todo'[i] = todo[i + 1]
  BY <1>1, <1>3
<1>8. QueueInv'
  <2>1. CASE list = <<>>
    <3>0. Len(list) + 1 = 1
      BY <2>1
    <3>1. Len(list') = 1 /\ list'[1] = c /\ list' # <<>>
      BY <1>6, <3>0
    <3>2. loops' = <<<<list'[1], NoCmd>>>>
      BY <1>3, <2>1, <3>1 DEF Loop
    <3> QED
      BY <1>1, <1>4, <1>6, <1>7, <2>1, <3>1, <3>2 DEF QueueInv
  <2>2. CASE list # <<>>
    <3>1. list'[1] = list[1] /\ list' # <<>> /\ loops' = <<>>
      BY <1>1, <1>3, <1>6, <2>2
    <3> QED
      BY <1>1, <1>6, <1>7, <3>1 DEF QueueInv
  <2> QED
    BY <2>1, <2>2
<1>9. At(k)'
  <2>1. \A i \in 1..Len(list') : Plainly(list'[i]) = Nth(k + i)
    <3> SUFFICES ASSUME NEW i \in 1..Len(list') PROVE Plainly(list'[i]) = Nth(k + i)
      OBVIOUS
    <3>1. CASE i = Len(list) + 1
      BY <1>1, <1>4, <1>5, <1>6, <3>1
    <3>2. CASE i # Len(list) + 1
      <4>1. i \in 1..Len(list) /\ i > Answering /\ k + i - Answering = k + i
        BY <1>1, <1>6, <3>2
      <4> QED
        BY <1>6, <4>1 DEF At
    <3> QED
      BY <3>1, <3>2
  <2>2. \A i \in 1..Len(todo') : todo'[i] = Nth(k + Len(list') + i)
    <3> SUFFICES ASSUME NEW i \in 1..Len(todo') PROVE todo'[i] = Nth(k + Len(list') + i)
      OBVIOUS
    <3>1. /\ i + 1 \in 1..Len(todo)
          /\ k + Len(list) - Answering + (i + 1) = k + Len(list') + i
      BY <1>1, <1>6, <1>7
    <3> QED
      BY <1>7, <3>1 DEF At
  <2>3. k + Len(list') + Len(todo') >= 10 /\ ids' = Told(k)
    BY <1>1, <1>6, <1>7 DEF At
  <2>4. \A i \in 1..Len(list') : k + i - 0 = k + i
    BY <1>6
  <2>5. k + Len(list') - 0 = k + Len(list')
    BY <1>1, <1>6
  <2> QED
    BY <1>1, <2>1, <2>2, <2>3, <2>4, <2>5 DEF At
<1> QED
  BY <1>8, <1>9

\* Nothing but the flags of the queue changes when a command is not executed.
LEMMA NotSentInv ==
  ASSUME QueueInv, NEW k \in 0..10, At(k), SendFails \/ SendUnanswered \/ SendNoMemory
  PROVE  QueueInv' /\ At(k)'
<1>1. /\ loops # <<>> /\ answer = "none" /\ ~waiting
      /\ Len(list) = 1 /\ loops = <<<<list[1], NoCmd>>>> /\ list[1].unset = {} /\ list # <<>>
      /\ UNCHANGED <<ids, todo, list>>
  BY DEF SendFails, SendUnanswered, SendNoMemory, AtCommand, QueueInv, world
<1>2. \/ loops' = loops /\ answer' = "error" /\ waiting' = TRUE
      \/ loops' = <<>> /\ answer' = "none" /\ waiting' = TRUE
      \/ loops' = <<>> /\ answer' = "none" /\ waiting' = waiting
  <2>1. Tail(loops) = <<>>
    BY <1>1
  <2>2. CASE SendFails
    BY <1>1, <2>2 DEF SendFails
  <2>3. CASE SendUnanswered
    BY <1>1, <2>1, <2>3 DEF SendUnanswered
  <2>4. CASE SendNoMemory
    BY <1>1, <2>1, <2>4 DEF SendNoMemory
  <2> QED
    BY <2>2, <2>3, <2>4
<1>3. QueueInv'
  BY <1>1, <1>2 DEF QueueInv
<1>4. Answering' = 0 /\ Answering = 0 /\ answer' # "ok" /\ answer # "ok"
  BY <1>1, <1>2 DEF Answering
<1>5. At(k)'
  BY <1>1, <1>4 DEF At
<1> QED
  BY <1>3, <1>5

\* The one command in the list is the next of the script, or the removal.
LEMMA CommandIs ==
  ASSUME QueueInv, NEW k \in 0..10, At(k), AtCommand
  PROVE  /\ Command = list[1] /\ Len(list) = 1 /\ Answering = 0 /\ list[1] \in Listed
         /\ Command.cmd = Nth(k + 1).cmd /\ Command.of = Nth(k + 1).of
         /\ loops = <<<<list[1], NoCmd>>>> /\ list[1].unset = {} /\ list # <<>>
<1>1. /\ loops # <<>> /\ answer = "none"
      /\ Len(list) = 1 /\ loops = <<<<list[1], NoCmd>>>> /\ list[1].unset = {} /\ list # <<>>
      /\ Answering = 0 /\ list \in Seq(Listed)
  BY DEF AtCommand, QueueInv, Answering
<1>2. Command = list[1]
  BY <1>1 DEF Command
<1>3. Plainly(list[1]) = Nth(k + 1)
  <2>1. 1 \in 1..Len(list) /\ 1 > Answering /\ k + 1 - Answering = k + 1
    BY <1>1
  <2> QED
    BY <2>1 DEF At
<1>4. Plainly(list[1]).cmd = list[1].cmd /\ Plainly(list[1]).of = list[1].of
  BY DEF Plainly
<1>5. list[1] \in Listed
  BY <1>1
<1> QED
  BY <1>1, <1>2, <1>3, <1>4, <1>5

\* A command that is executed: one more of the script is done, or the timer
\* is gone when all of it is.
LEMMA SendDoneInv ==
  ASSUME QueueInv, RestTypeOK, NEW k \in 0..10, At(k), Effects(k), SendDone,
         made \subseteq Sensor, hook \in [Sensor -> {"null", "live", "gone"}]
  PROVE  /\ QueueInv' /\ RestTypeOK'
         /\ LET next == IF k < 10 THEN k + 1 ELSE k
            IN  next \in 0..10 /\ At(next)' /\ Effects(next)'
<1> DEFINE next == IF k < 10 THEN k + 1 ELSE k
           c == Command
<1>1. /\ c = list[1] /\ Len(list) = 1 /\ Answering = 0 /\ list[1] \in Listed
      /\ c.cmd = Nth(k + 1).cmd /\ c.of = Nth(k + 1).of
      /\ loops = <<<<list[1], NoCmd>>>> /\ list[1].unset = {} /\ list # <<>>
  BY CommandIs DEF SendDone
<1>2. /\ Execute(c) /\ answer' = "ok" /\ waiting'
      /\ UNCHANGED <<cores, clock, ids, todo, list, loops, num_tt, round, status, failed>>
      /\ answer = "none" /\ todo \in Seq(Step) /\ list \in Seq(Listed) /\ Len(todo) \in Nat
  BY DEF SendDone, AtCommand, machine, QueueInv
<1>3. loops # <<>>
  BY <1>1
<1> HIDE DEF c
<1>4. QueueInv'
  BY <1>1, <1>2, <1>3 DEF QueueInv
<1>5. next \in 0..10 /\ (k < 10 => k \in 0..9 /\ k + 1 \in 1..10 /\ next = k + 1)
      /\ (~(k < 10) => k = 10 /\ next = 10)
  OBVIOUS
<1>6. /\ k < 10 => /\ c.cmd = Script[k + 1].cmd /\ c.of = Script[k + 1].of
                   /\ c.cmd # "TIMERRM"
      /\ ~(k < 10) => c.cmd = "TIMERRM"
  BY <1>1, <1>5, NthIs
<1>7. At(next)'
  <2>1. Answering' = 1 /\ answer # "ok"
    BY <1>2 DEF Answering
  <2>2. \A i \in 1..Len(list') : ~(i > Answering')
    <3>1. Len(list') = 1 /\ \A i \in 1..1 : ~(i > 1)
      BY <1>1, <1>2
    <3> QED
      BY <2>1, <3>1
  <2>3. \A i \in 1..Len(todo') : todo'[i] = Nth(next + Len(list') - Answering' + i)
    <3> SUFFICES ASSUME NEW i \in 1..Len(todo)
                 PROVE  todo[i] = Nth(next + 1 - 1 + i)
      BY <1>1, <1>2, <2>1
    <3>1. todo[i] = Nth(k + 1 - 0 + i)
      BY <1>1 DEF At
    <3>2. CASE k < 10
      BY <1>5, <3>1, <3>2
    <3>3. CASE ~(k < 10)
      <4>1. k + 1 - 0 + i \in Nat \ {0} /\ next + 1 - 1 + i \in Nat \ {0}
            /\ k + 1 - 0 + i > 10 /\ next + 1 - 1 + i > 10
        BY <1>2, <1>5, <3>3
      <4> QED
        BY <3>1, <4>1, NthIs
    <3> QED
      BY <3>2, <3>3
  <2>4. next + Len(list') - Answering' + Len(todo') >= 10
    <3>1. k + 1 - 0 + Len(todo) >= 10
      BY <1>1 DEF At
    <3> QED
      BY <1>1, <1>2, <1>5, <2>1, <3>1
  <2>5. ids' \cup Learnt(list'[1]) = Told(next)
    <3>1. ids = Told(k)
      BY <2>1 DEF At
    <3>2. Learnt(c) = IF c.cmd \in {"NODECREATE", "TIMERCREATE"} THEN {c.of} ELSE {}
      BY DEF Learnt, Creations
    <3>3. CASE k < 10
      <4>1. /\ DoneTo(k + 1, "NODECREATE")
                 = DoneTo(k, "NODECREATE") \cup (IF c.cmd = "NODECREATE" THEN {c.of} ELSE {})
            /\ DoneTo(k + 1, "TIMERCREATE")
                 = DoneTo(k, "TIMERCREATE") \cup (IF c.cmd = "TIMERCREATE" THEN {c.of} ELSE {})
        BY <1>5, <1>6, <3>3, DoneToStep
      <4>2. Told(k + 1) = Told(k) \cup Learnt(c)
        BY <3>2, <4>1 DEF Told
      <4> QED
        BY <1>1, <1>2, <1>5, <3>1, <3>3, <4>2
    <3>4. CASE ~(k < 10)
      <4>1. Learnt(c) = {}
        BY <1>6, <3>2, <3>4
      <4> QED
        BY <1>1, <1>2, <1>5, <3>1, <3>4, <4>1
    <3> QED
      BY <3>3, <3>4
  <2> HIDE DEF next
  <2> QED
    BY <1>2, <2>2, <2>3, <2>4, <2>5 DEF At
<1>8. Effects(next)' /\ RestTypeOK'
  <2>1. /\ made \cup (IF printer THEN {dbgprinter} ELSE {}) = DoneTo(k, "NODECREATE")
        /\ {n \in Sensor : hook[n] = "live"} = DoneTo(k, "NODECONNECT")
        /\ tm # "removed" => Members(subs) = DoneTo(k, "TIMERSUBSCRIBE")
        /\ tm # "removed" => (tm = "set" <=> timer \in DoneTo(k, "TIMERSET"))
        /\ tm = "removed" => k = 10
    BY DEF Effects
  <2>2. CASE ~(k < 10)
    <3>1. tm' = "removed" /\ subs' = <<>> /\ UNCHANGED <<made, hook, printer>>
      BY <1>2, <1>6, <2>2 DEF Execute, sensors
    <3>2. RestTypeOK'
      BY <1>2, <3>1 DEF RestTypeOK
    <3> QED
      BY <1>5, <2>1, <2>2, <3>1, <3>2 DEF Effects
  <2>3. CASE k < 10
    <3>1. \A cmd : DoneTo(next, cmd)
                     = DoneTo(k, cmd) \cup (IF c.cmd = cmd THEN {c.of} ELSE {})
      BY <1>5, <1>6, <2>3, DoneToStep
    <3>b. /\ DoneTo(next, "NODECREATE") = DoneTo(k, "NODECREATE")
                \cup (IF c.cmd = "NODECREATE" THEN {c.of} ELSE {})
          /\ DoneTo(next, "NODECONNECT") = DoneTo(k, "NODECONNECT")
                \cup (IF c.cmd = "NODECONNECT" THEN {c.of} ELSE {})
          /\ DoneTo(next, "TIMERSUBSCRIBE") = DoneTo(k, "TIMERSUBSCRIBE")
                \cup (IF c.cmd = "TIMERSUBSCRIBE" THEN {c.of} ELSE {})
          /\ DoneTo(next, "TIMERSET") = DoneTo(k, "TIMERSET")
                \cup (IF c.cmd = "TIMERSET" THEN {c.of} ELSE {})
      BY <3>1
    <3>2. /\ c.cmd = "TIMERCREATE" => timer \notin DoneTo(k, "TIMERSET")
          /\ c.cmd = "TIMERSET" => c.of = timer
          /\ c.cmd = "TIMERSUBSCRIBE" => c.of \in {ifdata, cpuload, self}
      BY <1>5, <1>6, <2>3, ScriptOrder
    <3>3. tm # "removed" /\ next # 10 + 1 /\ c.cmd # "TIMERRM"
      BY <1>5, <1>6, <2>1, <2>3
    <3>a. SUFFICES /\ RestTypeOK' /\ tm' # "removed"
                   /\ (made \cup (IF printer THEN {dbgprinter} ELSE {}))' = DoneTo(next, "NODECREATE")
                   /\ {n \in Sensor : hook'[n] = "live"} = DoneTo(next, "NODECONNECT")
                   /\ Members(subs') = DoneTo(next, "TIMERSUBSCRIBE")
                   /\ tm' = "set" <=> timer \in DoneTo(next, "TIMERSET")
      BY <3>a DEF Effects
    <3> HIDE DEF next
    <3>4. CASE c.cmd = "NODECREATE" /\ c.of = dbgprinter /\ printer' = TRUE
               /\ UNCHANGED <<sensors, tm, subs>>
      <4>1. UNCHANGED <<made, hook, tm, subs>> /\ printer' = TRUE
        BY <3>4 DEF sensors
      <4>2. RestTypeOK'
        BY <1>2, <4>1 DEF RestTypeOK
      <4> QED
        BY <2>1, <3>3, <3>b, <3>4, <4>1, <4>2 DEF RestTypeOK
    <3>5. CASE c.cmd = "NODECREATE" /\ c.of \in Sensor /\ Create(c.of)
               /\ UNCHANGED <<printer, tm, subs>>
      <4>1. made' = made \cup {c.of} /\ UNCHANGED <<hook, printer, tm, subs>>
        BY <3>5 DEF Create
      <4>2. RestTypeOK'
        BY <1>2, <4>1 DEF RestTypeOK
      <4> QED
        BY <2>1, <3>3, <3>b, <3>5, <4>1, <4>2
    <3>6. CASE c.cmd = "NODECONNECT" /\ NewHook(c.of) /\ UNCHANGED <<printer, tm, subs>>
      <4>1. /\ c.of \in Sensor /\ hook' = [hook EXCEPT ![c.of] = "live"]
            /\ UNCHANGED <<made, printer, tm, subs>>
        BY <3>6 DEF NewHook
      <4>2. RestTypeOK'
        BY <1>2, <4>1 DEF RestTypeOK
      <4>3. {n \in Sensor : hook'[n] = "live"} = {n \in Sensor : hook[n] = "live"} \cup {c.of}
        BY <4>1
      <4> QED
        BY <2>1, <3>3, <3>b, <3>6, <4>1, <4>2, <4>3
    <3>7. CASE c.cmd = "TIMERCREATE" /\ tm' = "created" /\ UNCHANGED <<sensors, printer, subs>>
      <4>1. UNCHANGED <<made, hook, printer, subs>> /\ tm' = "created"
        BY <3>7 DEF sensors
      <4>2. RestTypeOK'
        BY <1>2, <4>1 DEF RestTypeOK
      <4> QED
        BY <2>1, <3>2, <3>3, <3>b, <3>7, <4>1, <4>2
    <3>8. CASE c.cmd = "TIMERSET" /\ tm' = "set" /\ UNCHANGED <<sensors, printer, subs>>
      <4>1. UNCHANGED <<made, hook, printer, subs>> /\ tm' = "set"
        BY <3>8 DEF sensors
      <4>2. RestTypeOK'
        BY <1>2, <4>1 DEF RestTypeOK
      <4> QED
        BY <2>1, <3>2, <3>3, <3>b, <3>8, <4>1, <4>2
    <3>9. CASE c.cmd = "TIMERSUBSCRIBE" /\ subs' = Append(subs, c.of)
               /\ UNCHANGED <<sensors, printer, tm>>
      <4>1. UNCHANGED <<made, hook, printer, tm>> /\ subs' = Append(subs, c.of)
        BY <3>9 DEF sensors
      <4>2. /\ subs \in Seq({ifdata, cpuload, self}) /\ c.of \in {ifdata, cpuload, self}
            /\ subs' \in Seq({ifdata, cpuload, self})
        BY <3>2, <3>9, <4>1 DEF RestTypeOK
      <4>3. RestTypeOK'
        BY <1>2, <4>1, <4>2 DEF RestTypeOK
      <4>4. Members(subs') = Members(subs) \cup {c.of}
        BY <4>1, <4>2, AppendMembers
      <4> QED
        BY <2>1, <3>3, <3>b, <3>9, <4>1, <4>3, <4>4
    <3> QED
      BY <1>2, <3>3, <3>4, <3>5, <3>6, <3>7, <3>8, <3>9 DEF Execute
  <2> QED
    BY <2>2, <2>3
<1> QED
  BY <1>4, <1>5, <1>7, <1>8

\* The response takes the one command off the list, and the loop ends.
LEMMA ResponseOkInv ==
  ASSUME QueueInv, NEW k \in 0..10, At(k), ResponseOk
  PROVE  QueueInv' /\ At(k)'
<1>1. /\ loops # <<>> /\ answer = "ok" /\ Len(list) = 1 /\ list \in Seq(Listed)
      /\ loops = <<<<list[1], NoCmd>>>> /\ list # <<>> /\ todo \in Seq(Step)
      /\ Len(todo) \in Nat
  BY DEF ResponseOk, QueueInv
<1>2. /\ list' = <<>> /\ loops' = <<>> /\ waiting' = FALSE /\ answer' = "none" /\ todo' = todo
      /\ ids' = ids \cup Learnt(list[1])
  <2>1. Head(list) = list[1] /\ Tail(list) = <<>>
    <3>1. Head(list) = list[1] /\ Tail(list) \in Seq(Listed) /\ Len(Tail(list)) = Len(list) - 1
      BY <1>1
    <3>2. Len(Tail(list)) = 0
      BY <1>1, <3>1
    <3>3. Tail(list) = <<>>
      BY <3>1, <3>2, EmptySeq
    <3> QED
      BY <3>1, <3>3
  <2>2. Head(loops) = <<list[1], NoCmd>> /\ Tail(loops) = <<>>
    BY <1>1
  <2>3. Continued(Head(loops)) = <<>>
    BY <2>2 DEF Continued
  <2>4. /\ list' = Tail(list) /\ waiting' = FALSE
        /\ loops' = (IF Tail(list) = <<>> THEN <<>> ELSE <<Loop(Tail(list))>>)
                    \o Continued(Head(loops)) \o Tail(loops)
        /\ ids' = ids \cup Learnt(Head(list)) /\ answer' = "none" /\ todo' = todo
    BY DEF ResponseOk, Waits
  <2>5. <<>> \o <<>> \o <<>> = <<>>
    OBVIOUS
  <2> QED
    BY <2>1, <2>2, <2>3, <2>4, <2>5
<1>3. QueueInv'
  <2>1. list' \in Seq(Listed)
    BY <1>2
  <2> QED
    BY <1>1, <1>2, <2>1 DEF QueueInv
<1>4. At(k)'
  <2>1. Answering = 1 /\ Answering' = 0 /\ Len(list') = 0
    BY <1>1, <1>2 DEF Answering
  <2>2. \A i \in 1..Len(todo) : todo[i] = Nth(k + 0 - 0 + i)
    <3> SUFFICES ASSUME NEW i \in 1..Len(todo) PROVE todo[i] = Nth(k + 0 - 0 + i)
      OBVIOUS
    <3>1. todo[i] = Nth(k + 1 - 1 + i)
      BY <1>1, <2>1 DEF At
    <3>2. k + 1 - 1 + i = k + 0 - 0 + i
      BY <1>1
    <3> QED
      BY <3>1, <3>2
  <2>3. k + 0 - 0 + Len(todo) >= 10
    BY <1>1, <2>1 DEF At
  <2>4. ids' = Told(k)
    BY <1>1, <1>2 DEF At
  <2>5. \A i : i \notin 1..Len(list')
    BY <2>1
  <2> QED
    BY <1>2, <2>1, <2>2, <2>3, <2>4, <2>5 DEF At
<1> QED
  BY <1>3, <1>4

\* The removal is asked for when all of the script has been.
LEMMA TellSelfInv ==
  ASSUME QueueInv, NEW k \in 0..10, At(k), TellSelf
  PROVE  QueueInv' /\ At(k)'
<1>1. /\ todo = <<>> /\ loops = <<>> /\ answer = "none" /\ list \in Seq(Listed)
      /\ UNCHANGED <<ids, list, waiting, loops, answer>> /\ Len(todo) = 0 /\ Len(list) \in Nat
  BY DEF TellSelf, Idle, QueueInv
<1>2. todo' = <<Removal>> \/ todo' = todo
  BY <1>1 DEF TellSelf
<1>3. Answering = 0 /\ Answering' = 0
  BY <1>1 DEF Answering
<1>4. CASE todo' = todo
  BY <1>1, <1>3, <1>4 DEF QueueInv, At
<1>5. CASE todo' = <<Removal>>
  <2>1. k + Len(list) - 0 >= 10 /\ k + Len(list) - 0 + 1 \in Nat \ {0}
        /\ k + Len(list) - 0 + 1 > 10
    BY <1>1, <1>3 DEF At
  <2>2. Nth(k + Len(list) - 0 + 1) = Removal /\ Removal \in Step
    BY <2>1, NthIs
  <2>3. todo' \in Seq(Step) /\ Len(todo') = 1 /\ todo'[1] = Removal
    BY <1>5, <2>2
  <2>4. QueueInv'
    BY <1>1, <2>3 DEF QueueInv
  <2>5. \A i \in 1..Len(todo') : todo'[i] = Nth(k + Len(list') - Answering' + i)
    <3>1. \A i \in 1..1 : i = 1
      OBVIOUS
    <3> QED
      BY <1>1, <1>3, <2>2, <2>3, <3>1
  <2>6. k + Len(list') - Answering' + Len(todo') >= 10
    BY <1>1, <1>3, <2>1, <2>3
  <2>7. At(k)'
    BY <1>1, <1>3, <2>5, <2>6 DEF At
  <2> QED
    BY <2>4, <2>7
<1> QED
  BY <1>2, <1>4, <1>5

\* A step that leaves the queue alone.
LEMMA QueueKept ==
  ASSUME QueueInv, NEW k \in 0..10, At(k), UNCHANGED <<ids, todo, list, waiting, loops, answer>>
  PROVE  QueueInv' /\ At(k)'
<1>1. Answering' = Answering
  BY DEF Answering
<1>2. QueueInv'
  BY DEF QueueInv
<1>3. At(k)'
  BY <1>1 DEF At
<1> QED
  BY <1>2, <1>3

\* To the sensors, starter and the timer are commands and triggers like others.
LEMMA SensorsAsUsed ==
  ASSUME made \subseteq Sensor, [Next]_vars
  PROVE  [SensorNext]_sensorVars
<1>1. CASE UNCHANGED sensorVars
  BY <1>1
<1>2. CASE SendDone
  <2>1. Execute(Command) /\ UNCHANGED machine
    BY <1>2 DEF SendDone
  <2>2. CASE UNCHANGED sensors
    BY <2>1, <2>2 DEF sensorVars
  <2>3. ASSUME NEW n \in Sensor, Create(n) \/ NewHook(n) PROVE SensorNext
    BY <2>1, <2>3 DEF SensorNext
  <2>4. \/ UNCHANGED sensors
        \/ Command.of \in Sensor /\ Create(Command.of)
        \/ NewHook(Command.of)
    BY <2>1 DEF Execute
  <2>5. NewHook(Command.of) => Command.of \in Sensor
    BY DEF NewHook
  <2> QED
    BY <2>2, <2>3, <2>4, <2>5
<1>3. CASE TimerTriggers
  BY <1>3 DEF TimerTriggers, SensorNext, Tick
<1>4. CASE TellSensor
  <2>1. TriggerSensor(Head(round)) /\ UNCHANGED machine /\ Head(round) \in Sensor
    BY <1>4 DEF TellSensor, TriggerSensor
  <2> QED
    BY <2>1 DEF SensorNext
<1>5. CASE CoresCome
  BY <1>5 DEF CoresCome, SensorNext
<1>6. CASE AddCommand \/ NoCommand \/ ResponseOk \/ ResponseError \/ TellSelf
  BY <1>1, <1>6 DEF AddCommand, NoCommand, ResponseOk, ResponseError, TellSelf, Fails
<1>7. CASE SendFails \/ SendUnanswered \/ SendNoMemory
  BY <1>1, <1>7 DEF SendFails, SendUnanswered, SendNoMemory
<1>8. CASE UNCHANGED vars
  BY <1>1, <1>8 DEF vars
<1> QED
  BY <1>2, <1>3, <1>4, <1>5, <1>6, <1>7, <1>8 DEF Next, Steps, Send

LEMMA StarterInvInit == Init => StarterInv
<1> SUFFICES ASSUME Init PROVE StarterInv
  OBVIOUS
<1>1. SensorInv
  BY SensorInvInit DEF Init
<1>2. /\ ids = {} /\ todo = Script /\ list = <<>> /\ waiting = FALSE
      /\ loops = <<>> /\ answer = "none" /\ num_tt = 0
      /\ printer = FALSE /\ tm = "none" /\ subs = <<>> /\ round = <<>>
      /\ status = "runs" /\ failed = FALSE /\ made = {} /\ hook = [n \in Sensor |-> "null"]
  BY DEF Init, SensorInit
<1>3. Script \in Seq(Step)
  <2>1. \A i \in 1..10 : Script[i] \in Step
    <3>1. \A i \in 1..10 : i \in Nat \ {0}
      OBVIOUS
    <3> QED
      BY <3>1, NthIs
  <2>2. Script = [i \in 1..10 |-> Script[i]]
    BY DEF Script
  <2>3. Script \in [1..10 -> Step]
    BY <2>1, <2>2
  <2>4. \A m \in Nat : \A q \in [1..m -> Step] : q \in Seq(Step)
    OBVIOUS
  <2>5. 10 \in Nat
    OBVIOUS
  <2> QED
    BY <2>3, <2>4, <2>5
<1>4. QueueInv
  <2>1. list \in Seq(Listed)
    BY <1>2
  <2> QED
    BY <1>2, <1>3, <2>1 DEF QueueInv
<1>5. RestTypeOK
  <2>1. subs \in Seq({ifdata, cpuload, self}) /\ round \in Seq({ifdata, cpuload, self})
    BY <1>2
  <2> QED
    BY <1>2, <2>1 DEF RestTypeOK
<1>6. At(0)
  <2>1. Answering = 0 /\ Len(list) = 0 /\ Len(todo) = 10
    BY <1>2, ScriptIs DEF Answering
  <2>2. \A i \in 1..10 : todo[i] = Nth(0 + 0 - 0 + i)
    <3>1. \A i \in 1..10 : 0 + 0 - 0 + i = i
      OBVIOUS
    <3> QED
      BY <1>2, <3>1, NthIs
  <2>3. \A i : i \notin 1..0
    OBVIOUS
  <2> QED
    BY <1>2, <2>1, <2>2, <2>3, ScriptOrder DEF At
<1>7. Effects(0)
  <2>1. {n \in Sensor : hook[n] = "live"} = {} /\ Members(subs) = {}
    BY <1>2 DEF Members
  <2> QED
    BY <1>2, <2>1, ScriptOrder DEF Effects
<1>8. 0 \in 0..10
  OBVIOUS
<1> QED
  BY <1>1, <1>4, <1>5, <1>6, <1>7, <1>8 DEF StarterInv

LEMMA StarterInvStep == StarterInv /\ [Next]_vars => StarterInv'
<1> SUFFICES ASSUME StarterInv, [Next]_vars PROVE StarterInv'
  OBVIOUS
<1>1. PICK k \in 0..10 : At(k) /\ Effects(k)
  BY DEF StarterInv
<1>2. /\ SensorInv /\ QueueInv /\ RestTypeOK
      /\ made \subseteq Sensor /\ hook \in [Sensor -> {"null", "live", "gone"}]
  BY DEF StarterInv, SensorInv, SensorTypeOK
<1>3. SensorInv'
  <2>1. CpuLoad = {cpuload}
    BY StarterAssumption
  <2> QED
    BY <1>2, <2>1, SensorsAsUsed, SensorInvStep
<1>4. SUFFICES \E m \in 0..10 : QueueInv' /\ RestTypeOK' /\ At(m)' /\ Effects(m)'
  BY <1>3, <1>4 DEF StarterInv
<1>5. CASE SendDone
  BY <1>1, <1>2, <1>5, SendDoneInv
<1>6. ASSUME UNCHANGED <<made, hook, printer, tm, subs>> PROVE Effects(k)'
  BY <1>1, <1>6 DEF Effects
<1>7. CASE AddCommand
  <2>1. UNCHANGED <<made, hook, printer, tm, subs, num_tt, round, status, failed>>
    BY <1>7 DEF AddCommand, sensorVars, sensors, world
  <2>2. RestTypeOK'
    BY <1>2, <2>1 DEF RestTypeOK
  <2> QED
    BY <1>1, <1>2, <1>6, <1>7, <2>1, <2>2, AddCommandInv
<1>8. CASE SendFails \/ SendUnanswered \/ SendNoMemory
  <2>1. UNCHANGED <<made, hook, printer, tm, subs, num_tt, round, status>> /\ failed' = TRUE
    BY <1>8 DEF SendFails, SendUnanswered, SendNoMemory, sensorVars, sensors, world
  <2>2. RestTypeOK'
    BY <1>2, <2>1 DEF RestTypeOK
  <2> QED
    BY <1>1, <1>2, <1>6, <1>8, <2>1, <2>2, NotSentInv
<1>9. CASE ResponseOk
  <2>1. UNCHANGED <<made, hook, printer, tm, subs, num_tt, round, status, failed>>
    BY <1>9 DEF ResponseOk, sensorVars, sensors, world
  <2>2. RestTypeOK'
    BY <1>2, <2>1 DEF RestTypeOK
  <2> QED
    BY <1>1, <1>2, <1>6, <1>9, <2>1, <2>2, ResponseOkInv
<1>10. CASE TellSelf
  <2>1. /\ UNCHANGED <<made, hook, printer, tm, subs, status, failed>>
        /\ num_tt' = num_tt + 1 /\ round # <<>> /\ round' = Tail(round)
    BY <1>10 DEF TellSelf, sensorVars, sensors
  <2>2. RestTypeOK'
    BY <1>2, <2>1 DEF RestTypeOK
  <2> QED
    BY <1>1, <1>2, <1>6, <1>10, <2>1, <2>2, TellSelfInv
<1>11. CASE NoCommand \/ ResponseError \/ TimerTriggers \/ TellSensor \/ CoresCome \/ UNCHANGED vars
  <2>1. /\ UNCHANGED <<made, hook, printer, tm, subs, num_tt>>
        /\ UNCHANGED <<ids, todo, list, waiting, loops, answer>>
    BY <1>11 DEF NoCommand, ResponseError, TimerTriggers, TellSensor, CoresCome, vars, Fails,
       sensorVars, sensors, program, world, TriggerSensor, Hotplug
  <2>2. /\ status' \in {"runs", "exits", "aborts"} /\ failed' \in BOOLEAN
        /\ round' \in Seq({ifdata, cpuload, self})
    <3>1. /\ status \in {"runs", "exits", "aborts"} /\ failed \in BOOLEAN
          /\ round \in Seq({ifdata, cpuload, self}) /\ subs \in Seq({ifdata, cpuload, self})
      BY <1>2 DEF RestTypeOK
    <3>2. CASE NoCommand
      BY <3>1, <3>2 DEF NoCommand, world
    <3>3. CASE ResponseError
      BY <3>1, <3>3 DEF ResponseError, Fails, world
    <3>4. CASE TimerTriggers
      BY <3>1, <3>4 DEF TimerTriggers
    <3>5. CASE TellSensor
      BY <3>1, <3>5 DEF TellSensor
    <3>6. CASE CoresCome \/ UNCHANGED vars
      BY <3>1, <3>6 DEF CoresCome, vars, world
    <3> QED
      BY <1>11, <3>2, <3>3, <3>4, <3>5, <3>6
  <2>3. RestTypeOK'
    BY <1>2, <2>1, <2>2 DEF RestTypeOK
  <2> QED
    BY <1>1, <1>2, <1>6, <2>1, <2>3, QueueKept
<1> QED
  BY <1>5, <1>7, <1>8, <1>9, <1>10, <1>11 DEF Next, Steps, Send
-----------------------------------------------------------------------------
(* The theorems.                                                           *)

\* Whatever fails: the list has at most one command that is being sent, with
\* all it needs, and a part of the script is done and the rest still there.
THEOREM StarterInvHolds == Spec => []StarterInv
BY StarterInvInit, StarterInvStep, PTL DEF Spec

\* Each variable of starter, of its sensors and of its timer keeps its type.
THEOREM StarterTypes == Spec => []StarterTypeOK
<1>1. StarterInv => StarterTypeOK
  <2> SUFFICES ASSUME StarterInv PROVE StarterTypeOK
    OBVIOUS
  <2>1. PICK k \in 0..10 : At(k)
    BY DEF StarterInv
  <2>2. SensorTypeOK /\ QueueInv /\ RestTypeOK
    BY DEF StarterInv, SensorInv
  <2>3. ids \subseteq Slot
    BY <2>1, ScriptOrder DEF At
  <2>4. \A i \in DOMAIN todo : todo[i] \in Members(Script) \cup {Removal}
    <3> SUFFICES ASSUME NEW i \in 1..Len(todo) PROVE todo[i] \in Members(Script) \cup {Removal}
      BY <2>2 DEF QueueInv
    <3> DEFINE j == k + Len(list) - Answering + i
    <3>1. j \in Nat \ {0} /\ (~(j > 10) => j \in 1..10)
      <4>1. Answering \in {0, 1} /\ (Answering = 1 => Len(list) = 1) /\ Len(list) \in Nat
        BY <2>2 DEF Answering, QueueInv
      <4>2. Len(list) - Answering \in Nat
        BY <4>1
      <4>3. \A x \in Nat : k + x + i \in Nat \ {0}
        OBVIOUS
      <4>4. k + Len(list) - Answering + i = k + (Len(list) - Answering) + i
        BY <4>1
      <4>5. j \in Nat \ {0}
        BY <4>2, <4>3, <4>4
      <4> HIDE DEF j
      <4> QED
        BY <4>5
    <3>2. todo[i] = Nth(j)
      BY <2>1 DEF At
    <3> HIDE DEF j
    <3> QED
      BY <3>1, <3>2, NthIs, ScriptIs DEF Members
  <2>5. \A i \in DOMAIN loops : loops[i][1] \in Listed /\ loops[i][2] \in Listed \cup {NoCmd}
    <3>1. CASE loops = <<>>
      BY <3>1
    <3>2. CASE loops # <<>>
      <4>1. Len(list) = 1 /\ list \in Seq(Listed) /\ loops = <<<<list[1], NoCmd>>>>
        BY <2>2, <3>2 DEF QueueInv
      <4>2. list[1] \in Listed
        BY <4>1
      <4> QED
        BY <4>1, <4>2
    <3> QED
      BY <3>1, <3>2
  <2> QED
    BY <2>2, <2>3, <2>4, <2>5 DEF StarterTypeOK, QueueInv, RestTypeOK
<1> QED
  BY <1>1, StarterInvHolds, PTL

\* process_commands is run by one caller at a time, for the command that heads
\* the list; the response to one frees no command another loop stands on, and
\* no command is sent with an identifier that no response has brought.
THEOREM CommandsAreSound == Spec => []CommandsSound
<1>1. StarterInv => CommandsSound
  <2> SUFFICES ASSUME QueueInv PROVE CommandsSound
    BY DEF StarterInv
  <2>1. ASSUME list # <<>> PROVE Head(list) = list[1]
    BY <2>1 DEF QueueInv
  <2>2. ASSUME waiting PROVE list # <<>> /\ Head(list).unset = {}
    BY <2>1, <2>2 DEF QueueInv
  <2>3. CASE loops = <<>>
    BY <2>2, <2>3 DEF CommandsSound
  <2>4. CASE loops # <<>>
    <3>1. Len(list) = 1 /\ list \in Seq(Listed) /\ loops = <<<<list[1], NoCmd>>>>
      BY <2>4 DEF QueueInv
    <3>2. list # <<>> /\ Command = list[1] /\ \A i \in DOMAIN loops : loops[i][2] = NoCmd
      BY <3>1 DEF Command
    <3> QED
      BY <2>1, <2>2, <3>2 DEF CommandsSound
  <2> QED
    BY <2>3, <2>4
<1> QED
  BY <1>1, StarterInvHolds, PTL

\* What is still to be executed is the rest of the script.
LEMMA PendingIs ==
  ASSUME QueueInv, NEW k \in 0..10, At(k)
  PROVE  Executed = k /\ Pending = SubSeq(Script, Executed + 1, Len(Script))
<1> DEFINE a == Answering
           p == Plain(list)
           q == SubSeq(p, a + 1, Len(list)) \o todo
           m == 10 - k
<1>1. /\ list \in Seq(Listed) /\ todo \in Seq(Step) /\ Len(list) \in Nat /\ Len(todo) \in Nat
      /\ a \in {0, 1} /\ a <= Len(list)
  BY DEF QueueInv, Answering
<1>2. Pending = Kept(q, {Removal})
  BY DEF Pending, Answering
<1>3. /\ \A i \in 1..Len(list) : i > a => p[i] = Nth(k + i - a)
      /\ \A i \in 1..Len(todo) : todo[i] = Nth(k + Len(list) - a + i)
      /\ k + Len(list) - a + Len(todo) >= 10
  BY <1>1 DEF At, Plain, Plainly
<1> HIDE DEF a, p
<1>4. /\ SubSeq(p, a + 1, Len(list)) \in Seq(Step)
      /\ Len(SubSeq(p, a + 1, Len(list))) = Len(list) - a
      /\ \A i \in 1..(Len(list) - a) : SubSeq(p, a + 1, Len(list))[i] = Nth(k + i)
  <2>1. \A i \in (a + 1)..Len(list) : i \in 1..Len(list) /\ i > a /\ k + i - a \in Nat \ {0}
    BY <1>1
  <2>2. \A i \in (a + 1)..Len(list) : p[i] \in Step /\ p[i] = Nth(k + i - a)
    BY <1>3, <2>1, NthIs
  <2>3. a + 1 \in Int /\ Len(list) \in Int
    BY <1>1
  <2>4. /\ SubSeq(p, a + 1, Len(list)) \in Seq(Step)
        /\ Len(SubSeq(p, a + 1, Len(list)))
             = IF a + 1 <= Len(list) THEN Len(list) - (a + 1) + 1 ELSE 0
        /\ \A i \in 1..(Len(list) - (a + 1) + 1) :
             SubSeq(p, a + 1, Len(list))[i] = p[a + 1 + i - 1]
    BY <2>2, <2>3, SubSeqProperties
  <2>5. ASSUME NEW i \in 1..(Len(list) - a)
        PROVE  SubSeq(p, a + 1, Len(list))[i] = Nth(k + i)
    <3>1. /\ i \in 1..(Len(list) - (a + 1) + 1) /\ a + 1 + i - 1 \in (a + 1)..Len(list)
          /\ k + (a + 1 + i - 1) - a = k + i
      BY <1>1
    <3> QED
      BY <2>2, <2>4, <3>1
  <2>6. (IF a + 1 <= Len(list) THEN Len(list) - (a + 1) + 1 ELSE 0) = Len(list) - a
    BY <1>1
  <2> QED
    BY <2>4, <2>5, <2>6
<1>5. /\ q \in Seq(Step) /\ Len(q) = Len(list) - a + Len(todo)
      /\ \A i \in 1..Len(q) : q[i] = Nth(k + i)
  <2> DEFINE t == SubSeq(p, a + 1, Len(list))
  <2>1. t \in Seq(Step) /\ Len(t) = Len(list) - a /\ \A i \in 1..Len(t) : t[i] = Nth(k + i)
    BY <1>4
  <2> HIDE DEF t
  <2>2. /\ t \o todo \in Seq(Step) /\ Len(t \o todo) = Len(t) + Len(todo)
        /\ \A i \in 1..(Len(t) + Len(todo)) :
             (t \o todo)[i] = IF i <= Len(t) THEN t[i] ELSE todo[i - Len(t)]
    BY <1>1, <2>1, ConcatProperties
  <2>3. ASSUME NEW i \in 1..(Len(t) + Len(todo)) PROVE (t \o todo)[i] = Nth(k + i)
    <3>1. CASE i <= Len(t)
      <4>1. i \in 1..Len(t)
        BY <1>1, <2>1, <3>1
      <4> QED
        BY <2>1, <2>2, <3>1, <4>1
    <3>2. CASE ~(i <= Len(t))
      <4>1. i - Len(t) \in 1..Len(todo) /\ k + Len(list) - a + (i - Len(t)) = k + i
        BY <1>1, <2>1, <3>2
      <4> QED
        BY <1>3, <2>2, <3>2, <4>1
    <3> QED
      BY <3>1, <3>2
  <2> QED
    BY <2>1, <2>2, <2>3 DEF t
<1> HIDE DEF q
<1>6. m \in 0..Len(q) /\ m \in Nat
  BY <1>1, <1>3, <1>5
<1>7. \A i \in 1..Len(q) : q[i] \notin {Removal} <=> i <= m
  <2> SUFFICES ASSUME NEW i \in 1..Len(q) PROVE q[i] = Removal <=> ~(i <= m)
    OBVIOUS
  <2>1. k + i \in Nat \ {0} /\ (k + i > 10 <=> ~(i <= m))
    OBVIOUS
  <2> QED
    BY <1>5, <2>1, NthIs
<1>8. Pending = [i \in 1..m |-> q[i]]
  BY <1>2, <1>5, <1>6, <1>7, KeptPrefix
<1>9. Pending = [i \in 1..m |-> Script[k + i]]
  <2>1. \A i \in 1..m : k + i \in 1..10 /\ i \in 1..Len(q)
    BY <1>6
  <2>2. \A i \in 1..m : q[i] = Script[k + i]
    BY <1>5, <2>1, NthIs
  <2> QED
    BY <1>8, <2>2
<1>10. Len(Pending) = m
  BY <1>6, <1>9
<1>11. Executed = k
  BY <1>10, ScriptIs DEF Executed
<1>12. SubSeq(Script, k + 1, 10) = [i \in 1..m |-> Script[k + i]]
  <2>1. SubSeq(Script, k + 1, 10) = [i \in 1..(10 - (k + 1) + 1) |-> Script[k + 1 + i - 1]]
    OBVIOUS
  <2>2. 10 - (k + 1) + 1 = m /\ \A i \in 1..m : k + 1 + i - 1 = k + i
    OBVIOUS
  <2> QED
    BY <2>1, <2>2
<1> QED
  BY <1>9, <1>11, <1>12, ScriptIs

\* Commands take effect in the order of process_startup_message, none twice and
\* none left out, whichever of them fails or is never answered: the nodes,
\* their hooks, the timer and its subscribers are those of the part that is
\* done, and add_command and process_response keep the rest in its order.
THEOREM ScriptInOrder == Spec => []DoneInOrder
<1>1. StarterInv => DoneInOrder
  <2> SUFFICES ASSUME StarterInv PROVE DoneInOrder
    OBVIOUS
  <2>1. PICK k \in 0..10 : At(k) /\ Effects(k)
    BY DEF StarterInv
  <2>2. QueueInv /\ RestTypeOK
    BY DEF StarterInv
  <2>3. Executed = k /\ Pending = SubSeq(Script, Executed + 1, Len(Script))
    BY <2>1, <2>2, PendingIs
  <2>4. \A cmd : Before(cmd) = DoneTo(k, cmd)
    BY <2>3 DEF Before, DoneTo
  <2>5. ids \subseteq made \cup {dbgprinter, timer}
    <3>1. ids \subseteq Told(k)
      BY <2>1 DEF At
    <3>2. DoneTo(k, "NODECREATE") \subseteq made \cup {dbgprinter}
      BY <2>1 DEF Effects
    <3>3. DoneTo(k, "TIMERCREATE") \subseteq {timer}
      BY ScriptOrder
    <3> QED
      BY <3>1, <3>2, <3>3 DEF Told
  <2>6. /\ Before("NODECREATE") = DoneTo(k, "NODECREATE")
        /\ Before("NODECONNECT") = DoneTo(k, "NODECONNECT")
        /\ Before("TIMERSUBSCRIBE") = DoneTo(k, "TIMERSUBSCRIBE")
        /\ Before("TIMERSET") = DoneTo(k, "TIMERSET")
    BY <2>4
  <2> QED
    BY <2>1, <2>3, <2>5, <2>6 DEF DoneInOrder, Effects
<1> QED
  BY <1>1, StarterInvHolds, PTL

\* What process_timer_msg of cpuload sends are differences to its last reading,
\* line by line and, unless other cores are listed in the same number, core by
\* core: as starter runs its one cpuload node, and under any commands and
\* triggers, with a hook that comes and goes and cores that are put off-line
\* and back.
THEOREM LoadsAreOfOneInterval ==
  /\ Spec => LoadsOfOneInterval
  /\ SensorSpec => LoadsOfOneInterval
<1> DEFINE Loads == \A n \in CpuLoad : SendLoad(n) =>
                      \A i \in 1..num_cores :
                        /\ i \in DOMAIN prev_val[n] /\ prev_val[n][i].at = reading[n].at
                        /\ reading[n].cores = cores => prev_val[n][i].core = cores[i]
<1>1. SensorInv => Loads
  BY LoadsStep
<1>2. StarterInv => SensorInv
  BY DEF StarterInv
<1>3. CpuLoad = {cpuload}
  BY StarterAssumption
<1>4. SensorInv /\ [SensorNext]_sensorVars => SensorInv'
  BY <1>3, SensorInvStep
<1>5. SensorSpec => []SensorInv
  BY <1>4, SensorInvInit, PTL DEF SensorSpec
<1>6. Spec => []SensorInv
  BY <1>2, StarterInvHolds, PTL
<1> QED
  BY <1>1, <1>5, <1>6, PTL DEF LoadsOfOneInterval
=============================================================================
