--------------------------- MODULE DmmControlProofs ---------------------------
(***************************************************************************)
(* Commands, responses and Lua threads, for any nodes and threads and any  *)
(* number of commands: every thread that waits is known under its own key, *)
(* and however deep the calls nest, the stacks, Lua states and references  *)
(* of the nodes fit the calls.                                             *)
(***************************************************************************)
EXTENDS DmmControl, FiniteSetTheorems, SequenceTheorems, TLAPS

Call == [node : Node, thread : Thread \cup {NoThread}, runs : BOOLEAN]

\* The calls of rcvmsg and dmm_msg_apply that work for a node.
Calls(s, n) == {i \in 1..Len(s) : s[i].node = n}

\* At most the last call has a thread that runs, and none has while a message
\* is being sent; that thread is one of the node's and alone on its main stack.
CallsInv ==
  /\ \A i \in 1..Len(stack) : stack[i].runs =>
       /\ i = Len(stack) /\ msg = NoMsg
       /\ stack[i].thread \in Thread /\ home[stack[i].thread] = stack[i].node
  /\ \A t \in Thread :
       thread[t] = "runs" <=> stack # <<>> /\ Top.runs /\ Top.thread = t
  /\ \A n \in Node :
       Li[n] = IF stack # <<>> /\ Top.runs /\ Top.node = n THEN <<Top.thread>> ELSE <<>>

\* References of a node: the node list's and those of the calls.
RefsInv ==
  \A n \in Node :
    /\ nd_refs[n] = (IF nd_state[n] = "valid" THEN 1 ELSE 0) + Cardinality(Calls(stack, n))
    /\ nd_state[n] = "freed" <=> nd_refs[n] = 0

\* Threads that wait have asked with a token of their node, each with another.
TokensInv ==
  \A t \in Thread : thread[t] = "waits" =>
    /\ home[t] \in Node /\ waitsFor[t][2] < token[home[t]]
    /\ \A u \in Thread :
         thread[u] = "waits" /\ home[u] = home[t] /\ waitsFor[u] = waitsFor[t] => u = t

\* The message being sent is the command of this thread, or its response.
Asks(t) == msg # NoMsg /\ thread[t] = "waits" /\ home[t] = msg.asker /\ waitsFor[t] = msg.key

\* Who waits is either being answered or has not been.
AskedInv ==
  /\ \A t \in Thread : thread[t] = "waits" => Asks(t) \/ t \in unanswered
  /\ \A t \in unanswered : thread[t] = "waits" /\ ~Asks(t)
  /\ msg # NoMsg => \E t \in Thread : Asks(t)

\* Inductive.
ControlInv ==
  TypeOK /\ CallsInv /\ RefsInv /\ TokensInv /\ AskedInv /\ WaitingExact
-----------------------------------------------------------------------------
(* Calls on the stack.                                                     *)

\* The calls of a node are counted.
LEMMA CallsCounted ==
  ASSUME NEW s \in Seq(Call), NEW n
  PROVE  /\ IsFiniteSet(Calls(s, n)) /\ Cardinality(Calls(s, n)) \in Nat
         /\ Cardinality(Calls(s, n)) = 0 => \A i \in 1..Len(s) : s[i].node # n
<1>1. IsFiniteSet(1..Len(s))
  BY FS_Interval
<1>2. IsFiniteSet(Calls(s, n))
  BY <1>1, FS_Subset DEF Calls
<1>3. Cardinality(Calls(s, n)) \in Nat /\ (Cardinality(Calls(s, n)) = 0 => Calls(s, n) = {})
  BY <1>2, FS_CardinalityType, FS_EmptySet
<1> QED
  BY <1>2, <1>3 DEF Calls

\* A new call is one more for its node.
LEMMA CallPushed ==
  ASSUME NEW s \in Seq(Call), NEW f \in Call, NEW n
  PROVE  /\ Append(s, f) \in Seq(Call) /\ Len(Append(s, f)) = Len(s) + 1 /\ Append(s, f) # <<>>
         /\ \A i \in 1..Len(s) : Append(s, f)[i] = s[i]
         /\ Append(s, f)[Len(s) + 1] = f
         /\ Cardinality(Calls(Append(s, f), n))
              = Cardinality(Calls(s, n)) + (IF f.node = n THEN 1 ELSE 0)
<1> DEFINE a == Append(s, f)
           k == Len(s)
<1>1. /\ a \in Seq(Call) /\ k \in Nat /\ Len(a) = k + 1 /\ a # <<>>
      /\ \A i \in 1..k : a[i] = s[i]
      /\ a[k + 1] = f
  OBVIOUS
<1>2. k + 1 \notin Calls(s, n)
  BY <1>1 DEF Calls
<1> HIDE DEF a
<1>3. Calls(a, n) = IF f.node = n THEN Calls(s, n) \cup {k + 1} ELSE Calls(s, n)
  BY <1>1 DEF Calls
<1>4. IsFiniteSet(Calls(s, n)) /\ Cardinality(Calls(s, n)) \in Nat
  BY CallsCounted
<1> HIDE DEF k
<1>5. Cardinality(Calls(s, n) \cup {k + 1}) = Cardinality(Calls(s, n)) + 1
  BY <1>2, <1>4, FS_AddElement
<1>6. Cardinality(Calls(a, n)) = Cardinality(Calls(s, n)) + (IF f.node = n THEN 1 ELSE 0)
  BY <1>3, <1>4, <1>5
<1> QED
  BY <1>1, <1>6 DEF a, k

\* A call that returns was one of its node's.
LEMMA CallPopped ==
  ASSUME NEW s \in Seq(Call), s # <<>>, NEW n
  PROVE  /\ Popped(s) \in Seq(Call) /\ Len(Popped(s)) = Len(s) - 1
         /\ \A i \in 1..Len(Popped(s)) : Popped(s)[i] = s[i]
         /\ s[Len(s)] \in Call
         /\ Cardinality(Calls(s, n))
              = Cardinality(Calls(Popped(s), n)) + (IF s[Len(s)].node = n THEN 1 ELSE 0)
<1> DEFINE m == Len(s) - 1
           low == SubSeq(s, 1, m)
<1>1. m \in Nat /\ Len(s) = m + 1 /\ s[m + 1] \in Call /\ \A i \in 1..m : s[i] \in Call
  OBVIOUS
<1>2. low \in Seq(Call) /\ Len(low) = m /\ \A i \in 1..m : low[i] = s[i]
  <2> HIDE DEF m
  <2>1. /\ SubSeq(s, 1, m) \in Seq(Call)
        /\ Len(SubSeq(s, 1, m)) = IF 1 <= m THEN m - 1 + 1 ELSE 0
        /\ \A i \in 1..m - 1 + 1 : SubSeq(s, 1, m)[i] = s[1 + i - 1]
    BY <1>1, SubSeqProperties
  <2> QED
    BY <1>1, <2>1
<1>3. Popped(s) = low
  BY DEF Popped
<1> HIDE DEF low, m
<1>4. Calls(s, n) = IF s[m + 1].node = n THEN Calls(low, n) \cup {m + 1} ELSE Calls(low, n)
  BY <1>1, <1>2 DEF Calls
<1>5. m + 1 \notin Calls(low, n)
  BY <1>1, <1>2 DEF Calls
<1>6. IsFiniteSet(Calls(low, n)) /\ Cardinality(Calls(low, n)) \in Nat
  BY <1>2, CallsCounted
<1>7. Cardinality(Calls(low, n) \cup {m + 1}) = Cardinality(Calls(low, n)) + 1
  BY <1>5, <1>6, FS_AddElement
<1>8. Cardinality(Calls(s, n)) = Cardinality(Calls(low, n)) + (IF s[m + 1].node = n THEN 1 ELSE 0)
  BY <1>4, <1>6, <1>7
<1> QED
  BY <1>1, <1>2, <1>3, <1>8

\* A thread that stops leaves its call on the stack.
LEMMA CallStopped ==
  ASSUME NEW s \in Seq(Call), s # <<>>
  PROVE  LET t == [s EXCEPT ![Len(s)].runs = FALSE]
         IN  /\ t \in Seq(Call) /\ Len(t) = Len(s) /\ t # <<>>
             /\ \A i \in 1..Len(s) : /\ t[i].node = s[i].node /\ t[i].thread = s[i].thread
                                     /\ t[i].runs = (s[i].runs /\ i # Len(s))
             /\ \A n : Calls(t, n) = Calls(s, n)
<1> DEFINE k == Len(s)
           last == [s[k] EXCEPT !.runs = FALSE]
           t == [s EXCEPT ![k].runs = FALSE]
<1>1. k \in Nat \ {0} /\ DOMAIN s = 1..k /\ \A i \in 1..k : s[i] \in Call
  OBVIOUS
<1>2. DOMAIN t = 1..k /\ \A i \in 1..k : t[i] = IF i = k THEN last ELSE s[i]
  BY <1>1
<1>3. last \in Call /\ last.node = s[k].node /\ last.thread = s[k].thread /\ last.runs = FALSE
  <2>1. ASSUME NEW c \in Call
        PROVE  LET d == [c EXCEPT !.runs = FALSE]
               IN  d \in Call /\ d.node = c.node /\ d.thread = c.thread /\ d.runs = FALSE
    BY DEF Call
  <2> QED
    BY <1>1, <2>1
<1> HIDE DEF last
<1>4. \A i \in 1..k : t[i] \in Call
  BY <1>1, <1>2, <1>3
<1>5. t = [i \in 1..k |-> t[i]]
  BY <1>2
<1>6. t \in [1..k -> Call]
  <2> HIDE DEF t
  <2> QED
    BY <1>4, <1>5
<1>7. t \in Seq(Call) /\ Len(t) = k /\ t # <<>>
  <2> HIDE DEF t, k
  <2> QED
    BY <1>1, <1>2, <1>6
<1>8. \A i \in 1..k : /\ t[i].node = s[i].node /\ t[i].thread = s[i].thread
                      /\ t[i].runs = (s[i].runs /\ i # k)
  <2> SUFFICES ASSUME NEW i \in 1..k
               PROVE  /\ t[i].node = s[i].node /\ t[i].thread = s[i].thread
                      /\ t[i].runs = (s[i].runs /\ i # k)
    OBVIOUS
  <2>1. CASE i = k
    <3> HIDE DEF t
    <3> QED
      BY <1>1, <1>2, <1>3, <2>1
  <2>2. CASE i # k
    <3> HIDE DEF t
    <3>1. t[i] = s[i] /\ s[i].runs \in BOOLEAN
      BY <1>1, <1>2, <2>2 DEF Call
    <3> QED
      BY <2>2, <3>1
  <2> QED
    BY <2>1, <2>2
<1> HIDE DEF t
<1>9. \A n : Calls(t, n) = Calls(s, n)
  BY <1>7, <1>8 DEF Calls
<1> QED
  BY <1>7, <1>8, <1>9 DEF t
-----------------------------------------------------------------------------
(* Steps of the stack.                                                     *)

\* No thread runs while a message is being sent, or with nothing on the stack.
LEMMA NobodyRuns ==
  ASSUME ControlInv, stack = <<>> \/ msg # NoMsg
  PROVE  /\ stack \in Seq(Call)
         /\ \A i \in 1..Len(stack) : ~stack[i].runs
         /\ stack # <<>> => ~Top.runs
         /\ \A t \in Thread : thread[t] # "runs"
         /\ \A n \in Node : Li[n] = <<>>
<1>1. stack \in Seq(Call)
  BY DEF ControlInv, TypeOK, Call
<1>2. \A i \in 1..Len(stack) : ~stack[i].runs
  BY <1>1 DEF ControlInv, CallsInv
<1>3. stack # <<>> => Len(stack) \in 1..Len(stack)
  BY <1>1
<1>4. stack # <<>> => ~Top.runs
  BY <1>2, <1>3 DEF Top
<1> QED
  BY <1>1, <1>2, <1>4 DEF ControlInv, CallsInv

\* A thread runs in a new call of its node.
LEMMA ResumeKeeps ==
  ASSUME ControlInv, stack = <<>> \/ msg # NoMsg, msg' = NoMsg,
         NEW n \in Node, NEW t \in Thread, nd_state[n] = "valid", Resume(n, t),
         UNCHANGED nd_state,
         home'[t] = n, \A u \in Thread : u # t => home'[u] = home[u]
  PROVE  /\ CallsInv' /\ RefsInv'
         /\ nd_refs' \in [Node -> Nat] /\ Li' \in [Node -> Seq(Thread)]
         /\ thread' = [thread EXCEPT ![t] = "runs"] /\ stack' \in Seq(Call)
<1> DEFINE f == [node |-> n, thread |-> t, runs |-> TRUE]
           k == Len(stack)
<1>1. /\ stack \in Seq(Call) /\ nd_refs \in [Node -> Nat] /\ Li \in [Node -> Seq(Thread)]
      /\ thread \in [Thread -> {"unborn", "runs", "waits", "done"}]
  BY DEF ControlInv, TypeOK, Call
<1>2. /\ nd_refs' = [nd_refs EXCEPT ![n] = @ + 1]
      /\ Li' = [Li EXCEPT ![n] = Append(@, t)]
      /\ thread' = [thread EXCEPT ![t] = "runs"]
      /\ stack' = Append(stack, f)
  BY DEF Resume, Held
<1>3. f \in Call /\ f.node = n /\ f.thread = t /\ f.runs = TRUE
  BY DEF Call
<1> HIDE DEF f
<1>4. /\ stack' \in Seq(Call) /\ Len(stack') = k + 1 /\ stack' # <<>> /\ k \in Nat
      /\ \A i \in 1..k : stack'[i] = stack[i]
      /\ stack'[k + 1] = f
      /\ \A m \in Node : Cardinality(Calls(stack', m))
                           = Cardinality(Calls(stack, m)) + (IF m = n THEN 1 ELSE 0)
  <2>1. k \in Nat
    BY <1>1
  <2>2. ASSUME NEW m \in Node
        PROVE  Cardinality(Calls(stack', m))
                 = Cardinality(Calls(stack, m)) + (IF m = n THEN 1 ELSE 0)
    BY <1>1, <1>2, <1>3, CallPushed
  <2>3. /\ stack' \in Seq(Call) /\ Len(stack') = k + 1 /\ stack' # <<>>
        /\ \A i \in 1..k : stack'[i] = stack[i]
        /\ stack'[k + 1] = f
    BY <1>1, <1>2, <1>3, CallPushed
  <2> QED
    BY <2>1, <2>2, <2>3
<1>5. Top' = f
  BY <1>4 DEF Top
<1>6. /\ \A i \in 1..k : ~stack'[i].runs
      /\ \A u \in Thread : thread[u] # "runs" /\ \A m \in Node : Li[m] = <<>>
  BY <1>4, NobodyRuns
<1> HIDE DEF k
<1>7. CallsInv'
  <2>1. \A i \in 1..Len(stack') : stack'[i].runs =>
          /\ i = Len(stack') /\ msg' = NoMsg
          /\ stack'[i].thread \in Thread /\ home'[stack'[i].thread] = stack'[i].node
    BY <1>3, <1>4, <1>6
  <2>2. \A u \in Thread : thread'[u] = "runs" <=> u = t
    BY <1>1, <1>2, <1>6
  <2>3. \A m \in Node : Li'[m] = IF m = n THEN <<t>> ELSE <<>>
    <3>1. Append(<<>>, t) = <<t>>
      OBVIOUS
    <3>2. \A m \in Node : Li'[m] = IF m = n THEN Append(Li[m], t) ELSE Li[m]
      BY <1>1, <1>2
    <3> QED
      BY <1>6, <3>1, <3>2
  <2>4. \A u \in Thread : thread'[u] = "runs" <=> stack' # <<>> /\ Top'.runs /\ Top'.thread = u
    BY <1>3, <1>4, <1>5, <2>2
  <2>5. \A m \in Node : Li'[m] = IF stack' # <<>> /\ Top'.runs /\ Top'.node = m
                                  THEN <<Top'.thread>> ELSE <<>>
    BY <1>3, <1>4, <1>5, <2>3
  <2> QED
    BY <2>1, <2>4, <2>5 DEF CallsInv
<1>8. RefsInv'
  <2> SUFFICES ASSUME NEW m \in Node
               PROVE  /\ nd_refs'[m] = (IF nd_state[m] = "valid" THEN 1 ELSE 0)
                                       + Cardinality(Calls(stack', m))
                      /\ nd_state[m] = "freed" <=> nd_refs'[m] = 0
    BY DEF RefsInv
  <2>1. /\ nd_refs[m] = (IF nd_state[m] = "valid" THEN 1 ELSE 0) + Cardinality(Calls(stack, m))
        /\ nd_state[m] = "freed" <=> nd_refs[m] = 0
        /\ nd_refs[m] \in Nat /\ nd_refs'[m] = nd_refs[m] + (IF m = n THEN 1 ELSE 0)
    BY <1>1, <1>2 DEF ControlInv, RefsInv
  <2>2. Cardinality(Calls(stack, m)) \in Nat
    BY <1>1, CallsCounted
  <2> QED
    BY <1>4, <2>1, <2>2
<1>9. nd_refs' \in [Node -> Nat] /\ Li' \in [Node -> Seq(Thread)]
  BY <1>1, <1>2
<1> QED
  BY <1>2, <1>4, <1>7, <1>8, <1>9

\* The thread that runs yields or ends.
LEMMA StopKeeps ==
  ASSUME ControlInv, Executing, NEW state \in {"waits", "done"}, Stops(state),
         UNCHANGED <<nodes, home>>
  PROVE  /\ CallsInv' /\ RefsInv'
         /\ Li' \in [Node -> Seq(Thread)] /\ stack' \in Seq(Call)
         /\ thread' = [thread EXCEPT ![Top.thread] = state]
         /\ Top.thread \in Thread /\ thread[Top.thread] = "runs"
         /\ Top.node \in Node /\ home[Top.thread] = Top.node
<1> DEFINE k == Len(stack)
<1>1. /\ stack \in Seq(Call) /\ Li \in [Node -> Seq(Thread)] /\ stack # <<>> /\ Top.runs
      /\ thread \in [Thread -> {"unborn", "runs", "waits", "done"}]
  BY DEF ControlInv, TypeOK, Call, Executing
<1>2. k \in 1..k /\ stack[k] \in Call
  BY <1>1
<1>3. Top.node \in Node /\ Top.thread \in Thread /\ home[Top.thread] = Top.node
  BY <1>1, <1>2 DEF Top, ControlInv, CallsInv, Call
<1>4. thread[Top.thread] = "runs"
  BY <1>1, <1>3 DEF ControlInv, CallsInv
<1>5. /\ thread' = [thread EXCEPT ![Top.thread] = state]
      /\ Li' = [Li EXCEPT ![Top.node] = Popped(@)]
      /\ stack' = [stack EXCEPT ![Len(stack)].runs = FALSE]
  BY DEF Stops, MainPopped
<1>6. /\ stack' \in Seq(Call) /\ Len(stack') = Len(stack) /\ stack' # <<>>
      /\ \A i \in 1..Len(stack) : /\ stack'[i].node = stack[i].node
                                  /\ stack'[i].runs = (stack[i].runs /\ i # Len(stack))
      /\ \A n : Calls(stack', n) = Calls(stack, n)
  BY <1>1, <1>5, CallStopped
<1>7. \A i \in 1..k : ~stack'[i].runs
  BY <1>6 DEF ControlInv, CallsInv
<1>8. ~Top'.runs
  BY <1>2, <1>6, <1>7 DEF Top
<1>9. \A n \in Node : Li[n] = IF Top.node = n THEN <<Top.thread>> ELSE <<>>
  BY <1>1 DEF ControlInv, CallsInv
<1>10. Popped(<<Top.thread>>) = <<>>
  BY DEF Popped
<1>11. \A n \in Node : Li'[n] = <<>>
  BY <1>1, <1>3, <1>5, <1>9, <1>10
<1>12. \A t \in Thread : thread'[t] # "runs"
  <2>1. \A t \in Thread : thread[t] = "runs" => t = Top.thread
    BY <1>1 DEF ControlInv, CallsInv
  <2> QED
    BY <1>1, <1>3, <1>5, <2>1
<1>13. CallsInv'
  BY <1>6, <1>7, <1>8, <1>11, <1>12 DEF CallsInv
<1>14. RefsInv'
  BY <1>6 DEF ControlInv, RefsInv, nodes
<1>15. Li' \in [Node -> Seq(Thread)]
  <2>1. Li' = [n \in Node |-> Li'[n]]
    BY <1>1, <1>5
  <2>2. <<>> \in Seq(Thread)
    OBVIOUS
  <2>3. \A n \in Node : Li'[n] \in Seq(Thread)
    BY <1>11, <2>2
  <2> QED
    BY <2>1, <2>3
<1> QED
  BY <1>3, <1>4, <1>5, <1>6, <1>13, <1>14, <1>15

\* A node is called that is no thread's: it serves a generic command.
LEMMA ServeKeeps ==
  ASSUME ControlInv, msg # NoMsg, msg.dst \in Node, stack' = Serving,
         UNCHANGED <<Li, thread, home>>,
         \/ nd_state[msg.dst] = "valid" /\ UNCHANGED nd_state /\ nd_refs' = Held(msg.dst)
         \/ /\ nd_state[msg.dst] = "valid" /\ UNCHANGED nd_refs
            /\ nd_state' = [nd_state EXCEPT ![msg.dst] = "invalid"]
  PROVE  CallsInv' /\ RefsInv' /\ nd_refs' \in [Node -> Nat] /\ stack' \in Seq(Call)
<1> DEFINE d == msg.dst
           f == [node |-> d, thread |-> NoThread, runs |-> FALSE]
           k == Len(stack)
<1>1. /\ stack \in Seq(Call) /\ nd_refs \in [Node -> Nat]
      /\ nd_state \in [Node -> {"valid", "invalid", "freed"}]
  BY DEF ControlInv, TypeOK, Call
<1>2. f \in Call /\ f.node = d /\ f.runs = FALSE
  BY DEF Call
<1>3. stack' = Append(stack, f)
  BY DEF Serving
<1> HIDE DEF f
<1>4. /\ stack' \in Seq(Call) /\ Len(stack') = k + 1 /\ stack' # <<>> /\ k \in Nat
      /\ \A i \in 1..k : stack'[i] = stack[i]
      /\ stack'[k + 1] = f
      /\ \A m \in Node : Cardinality(Calls(stack', m))
                           = Cardinality(Calls(stack, m)) + (IF m = d THEN 1 ELSE 0)
  BY <1>1, <1>2, <1>3, CallPushed
<1>5. Top' = f
  BY <1>4 DEF Top
<1>6. /\ \A i \in 1..k : ~stack'[i].runs
      /\ \A u \in Thread : thread[u] # "runs"
      /\ \A m \in Node : Li[m] = <<>>
  BY <1>4, NobodyRuns
<1> HIDE DEF k
<1>7. \A i \in 1..Len(stack') : ~stack'[i].runs
  BY <1>2, <1>4, <1>6
<1>8. CallsInv'
  BY <1>2, <1>5, <1>6, <1>7 DEF CallsInv
<1>9. RefsInv'
  <2> SUFFICES ASSUME NEW m \in Node
               PROVE  /\ nd_refs'[m] = (IF nd_state'[m] = "valid" THEN 1 ELSE 0)
                                       + Cardinality(Calls(stack', m))
                      /\ nd_state'[m] = "freed" <=> nd_refs'[m] = 0
    BY DEF RefsInv
  <2>1. /\ nd_refs[m] = (IF nd_state[m] = "valid" THEN 1 ELSE 0) + Cardinality(Calls(stack, m))
        /\ nd_state[m] = "freed" <=> nd_refs[m] = 0
        /\ nd_refs[m] \in Nat
    BY <1>1 DEF ControlInv, RefsInv
  <2>2. Cardinality(Calls(stack, m)) \in Nat
    BY <1>1, CallsCounted
  <2>3. CASE m = d
    <3>1. /\ nd_state[m] = "valid"
          /\ \/ nd_state'[m] = "valid" /\ nd_refs'[m] = nd_refs[m] + 1
             \/ nd_state'[m] = "invalid" /\ nd_refs'[m] = nd_refs[m]
      BY <1>1, <2>3 DEF Held
    <3> QED
      BY <1>4, <2>1, <2>2, <2>3, <3>1
  <2>4. CASE m # d
    <3>1. nd_state'[m] = nd_state[m] /\ nd_refs'[m] = nd_refs[m]
      BY <1>1, <2>4 DEF Held
    <3> QED
      BY <1>4, <2>1, <2>2, <2>4, <3>1
  <2> QED
    BY <2>3, <2>4
<1>10. nd_refs' \in [Node -> Nat]
  BY <1>1 DEF Held
<1> QED
  BY <1>4, <1>8, <1>9, <1>10

\* Nothing changes on the stack while a message is being sent.
LEMMA PassKeeps ==
  ASSUME ControlInv, msg # NoMsg, UNCHANGED <<nodes, Li, thread, home, stack>>
  PROVE  CallsInv' /\ RefsInv'
<1>1. RefsInv'
  BY DEF ControlInv, RefsInv, nodes
<1>2. /\ \A i \in 1..Len(stack) : ~stack[i].runs
      /\ stack # <<>> => ~Top.runs
      /\ \A t \in Thread : thread[t] # "runs"
      /\ \A n \in Node : Li[n] = <<>>
  BY NobodyRuns
<1>3. Top' = Top
  BY DEF Top
<1> QED
  BY <1>1, <1>2, <1>3 DEF CallsInv

\* rcvmsg returns.
LEMMA ReturnKeeps ==
  ASSUME ControlInv, Return
  PROVE  /\ CallsInv' /\ RefsInv' /\ stack' \in Seq(Call)
         /\ nd_refs' \in [Node -> Nat] /\ nd_state' \in [Node -> {"valid", "invalid", "freed"}]
<1> DEFINE k == Len(stack)
           x == stack[k].node
<1>1. /\ stack \in Seq(Call) /\ stack # <<>> /\ nd_refs \in [Node -> Nat] /\ ~Top.runs
      /\ nd_state \in [Node -> {"valid", "invalid", "freed"}] /\ stack' = Popped(stack)
      /\ Top.node = x /\ UNCHANGED <<Li, thread, home, msg>> /\ msg = NoMsg
  BY DEF ControlInv, TypeOK, Call, Return, Top, lua
<1>2. /\ nd_refs' = [nd_refs EXCEPT ![x] = @ - 1]
      /\ nd_state' = IF nd_refs'[x] = 0 THEN [nd_state EXCEPT ![x] = "freed"] ELSE nd_state
  BY <1>1 DEF Return, Unref, Released
<1>3. /\ k \in Nat \ {0} /\ stack[k] \in Call /\ x \in Node
  <2>1. k \in Nat \ {0} /\ stack[k] \in Call
    BY <1>1
  <2> QED
    BY <2>1 DEF Call
<1>4. /\ stack' \in Seq(Call) /\ Len(stack') = k - 1
      /\ \A i \in 1..Len(stack') : stack'[i] = stack[i]
  BY <1>1, CallPopped
<1>5. ASSUME NEW m \in Node
      PROVE  Cardinality(Calls(stack, m)) = Cardinality(Calls(stack', m)) + (IF m = x THEN 1 ELSE 0)
  BY <1>1, CallPopped
<1>6. \A i \in 1..Len(stack') : ~stack'[i].runs
  BY <1>1, <1>3, <1>4 DEF ControlInv, CallsInv
<1>7. stack' # <<>> => ~Top'.runs
  <2>1. stack' # <<>> => Len(stack') \in 1..Len(stack')
    BY <1>4
  <2> QED
    BY <1>6, <2>1 DEF Top
<1>8. /\ \A t \in Thread : thread[t] # "runs"
      /\ \A n \in Node : Li[n] = <<>>
  BY <1>1 DEF ControlInv, CallsInv
<1>9. CallsInv'
  BY <1>1, <1>6, <1>7, <1>8 DEF CallsInv
<1>10. ASSUME NEW m \in Node
       PROVE  /\ nd_refs'[m] \in Nat
              /\ nd_refs'[m] = (IF nd_state'[m] = "valid" THEN 1 ELSE 0)
                               + Cardinality(Calls(stack', m))
              /\ nd_state'[m] = "freed" <=> nd_refs'[m] = 0
  <2>1. /\ nd_refs[m] = (IF nd_state[m] = "valid" THEN 1 ELSE 0) + Cardinality(Calls(stack, m))
        /\ nd_state[m] = "freed" <=> nd_refs[m] = 0
        /\ nd_refs[m] \in Nat
    BY <1>1 DEF ControlInv, RefsInv
  <2>2. Cardinality(Calls(stack', m)) \in Nat
    BY <1>4, CallsCounted
  <2>3. CASE m = x
    <3>1. nd_refs'[m] = nd_refs[m] - 1
      BY <1>1, <1>2, <2>3
    <3>2. nd_state'[m] = IF nd_refs'[m] = 0 THEN "freed" ELSE nd_state[m]
      BY <1>1, <1>2, <2>3
    <3>3. nd_state[m] \in {"valid", "invalid", "freed"}
      BY <1>1
    <3> QED
      BY <1>5, <2>1, <2>2, <2>3, <3>1, <3>2, <3>3
  <2>4. CASE m # x
    <3>1. nd_state'[m] = nd_state[m] /\ nd_refs'[m] = nd_refs[m]
      BY <1>1, <1>2, <2>4
    <3> QED
      BY <1>5, <2>1, <2>2, <2>4, <3>1
  <2> QED
    BY <2>3, <2>4
<1>11. RefsInv'
  BY <1>10 DEF RefsInv
<1>12. nd_refs' \in [Node -> Nat] /\ nd_state' \in [Node -> {"valid", "invalid", "freed"}]
  <2>1. nd_refs' = [m \in Node |-> nd_refs'[m]]
    BY <1>1, <1>2
  <2>2. nd_refs' \in [Node -> Nat]
    BY <1>10, <2>1
  <2> QED
    BY <1>1, <1>2, <2>2
<1> QED
  BY <1>4, <1>9, <1>11, <1>12
-----------------------------------------------------------------------------
(* Steps of the messages.                                                  *)

\* The fields of a message.
LEMMA MsgFields ==
  ASSUME msg \in Msg
  PROVE  /\ msg.asker \in Node /\ msg.key \in Key
         /\ msg.kind = "command" => msg.dst \in Destination
<1>1. CASE msg \in [kind : {"command"}, asker : Node, dst : Destination, key : Key]
  BY <1>1
<1>2. CASE msg \in [kind : {"response"}, asker : Node, key : Key, err : BOOLEAN]
  BY <1>2
<1> QED
  BY <1>1, <1>2 DEF Msg

\* Whoever is asked for is one thread.
LEMMA SenderAsks ==
  ASSUME ControlInv, msg # NoMsg
  PROVE  Sender \in Thread /\ Asks(Sender) /\ \A t \in Thread : Asks(t) => t = Sender
<1>1. \E t \in Thread : Asks(t)
  BY DEF ControlInv, AskedInv
<1>2. Sender \in Thread /\ Asks(Sender)
  BY <1>1 DEF Sender, Asks
<1>3. \A t \in Thread : Asks(t) => t = Sender
  BY <1>2 DEF ControlInv, TokensInv, Asks
<1> QED
  BY <1>2, <1>3

\* Nobody answers: the thread waits for ever.
LEMMA LostKeeps ==
  ASSUME ControlInv, msg # NoMsg, Lost, UNCHANGED <<token, msg2thread, waitsFor>>,
         \A t \in Thread : thread[t] = "waits" \/ thread'[t] = "waits" =>
           thread'[t] = thread[t] /\ home'[t] = home[t]
  PROVE  TokensInv' /\ AskedInv' /\ WaitingExact' /\ unanswered' \subseteq Thread
<1>1. /\ msg' = NoMsg /\ unanswered' = unanswered \cup {Sender}
      /\ Sender \in Thread /\ Asks(Sender) /\ \A t \in Thread : Asks(t) => t = Sender
  BY SenderAsks DEF Lost
<1>2. unanswered \subseteq Thread
  BY DEF ControlInv, TypeOK
<1>3. TokensInv'
  BY DEF ControlInv, TokensInv
<1>4. WaitingExact'
  <2>1. \A n \in Node : {u \in Thread : home'[u] = n /\ thread'[u] = "waits"}
                          = {u \in Thread : home[u] = n /\ thread[u] = "waits"}
    OBVIOUS
  <2> QED
    BY <2>1 DEF ControlInv, WaitingExact
<1>5. AskedInv'
  BY <1>1, <1>2 DEF ControlInv, AskedInv, Asks
<1> QED
  BY <1>1, <1>2, <1>3, <1>4, <1>5

\* The response to the command comes next.
LEMMA AnswerKeeps ==
  ASSUME ControlInv, msg # NoMsg, NEW err \in BOOLEAN, msg' = Response(err),
         UNCHANGED <<token, msg2thread, waitsFor, thread, home, unanswered>>
  PROVE  TokensInv' /\ AskedInv' /\ WaitingExact' /\ msg' \in Msg
<1>1. msg \in Msg /\ msg.asker \in Node /\ msg.key \in Key
  BY MsgFields DEF ControlInv, TypeOK
<1>2. msg' \in Msg /\ msg'.asker = msg.asker /\ msg'.key = msg.key
  BY <1>1 DEF Response, Msg
<1>3. msg' # NoMsg
  BY <1>2, MsgAssumption
<1>4. \A t : Asks(t)' <=> Asks(t)
  BY <1>2, <1>3 DEF Asks
<1>5. AskedInv'
  BY <1>4 DEF ControlInv, AskedInv
<1> QED
  BY <1>2, <1>5 DEF ControlInv, TokensInv, WaitingExact
-----------------------------------------------------------------------------
(* The actions.                                                            *)

\* The trigger, or another message, of a new thread.
LEMMA EventInv ==
  ASSUME ControlInv, NEW n \in Node, NEW t \in Thread, Event(n, t)
  PROVE  ControlInv'
<1>1. /\ stack = <<>> /\ msg = NoMsg /\ nd_state[n] = "valid" /\ thread[t] = "unborn"
      /\ home' = [home EXCEPT ![t] = n] /\ Resume(n, t)
      /\ UNCHANGED <<nd_state, token, msg2thread, msg, history>>
  BY DEF Event, NewThread
<1>2. TypeOK
  BY DEF ControlInv
<1>3. home' \in [Thread -> Node \cup {Nowhere}] /\ home'[t] = n /\ \A u \in Thread : u # t => home'[u] = home[u]
  BY <1>1, <1>2 DEF TypeOK
<1>4. /\ CallsInv' /\ RefsInv'
      /\ nd_refs' \in [Node -> Nat] /\ Li' \in [Node -> Seq(Thread)]
      /\ thread' = [thread EXCEPT ![t] = "runs"] /\ stack' \in Seq(Call)
  BY <1>1, <1>3, ResumeKeeps
<1>5. TypeOK'
  BY <1>1, <1>2, <1>3, <1>4 DEF TypeOK, history, Call
<1>6. \A u \in Thread : /\ thread'[u] = "waits" <=> thread[u] = "waits"
                        /\ thread[u] = "waits" => home'[u] = home[u]
  BY <1>1, <1>2, <1>3, <1>4 DEF TypeOK
<1>7. TokensInv'
  BY <1>1, <1>6 DEF ControlInv, TokensInv, history
<1>8. AskedInv'
  BY <1>1, <1>2, <1>6 DEF ControlInv, AskedInv, Asks, history, TypeOK
<1>9. WaitingExact'
  <2>1. \A m \in Node : {u \in Thread : home'[u] = m /\ thread'[u] = "waits"}
                          = {u \in Thread : home[u] = m /\ thread[u] = "waits"}
    BY <1>6
  <2> QED
    BY <1>1, <2>1 DEF ControlInv, WaitingExact, history
<1> QED
  BY <1>4, <1>5, <1>7, <1>8, <1>9 DEF ControlInv

\* A thread asks: with a token that no other of its node has used.
LEMMA YieldInv ==
  ASSUME ControlInv, NEW c \in Command, NEW d \in Destination, Yield(c, d)
  PROVE  ControlInv'
<1> DEFINE n == Top.node
           t == Top.thread
           k == token[n]
           key == <<c, k>>
<1>1. /\ Executing /\ k <= MaxToken /\ Stops("waits") /\ UNCHANGED <<nodes, home>>
      /\ token' = [token EXCEPT ![n] = @ + 1]
      /\ msg2thread' = [msg2thread EXCEPT ![n] =
           {entry \in msg2thread[n] : entry[1] # key} \cup {<<key, t>>}]
      /\ msg' = [kind |-> "command", asker |-> n, dst |-> d, key |-> key]
      /\ waitsFor' = [waitsFor EXCEPT ![t] = key]
      /\ UNCHANGED <<failed, told, unanswered>>
  BY DEF Yield, KeyOf
<1>2. TypeOK
  BY DEF ControlInv
<1>3. /\ CallsInv' /\ RefsInv'
      /\ Li' \in [Node -> Seq(Thread)] /\ stack' \in Seq(Call)
      /\ thread' = [thread EXCEPT ![t] = "waits"]
      /\ t \in Thread /\ thread[t] = "runs" /\ n \in Node /\ home[t] = n
  BY <1>1, StopKeeps
<1>4. k \in 1..MaxToken + 1 /\ k \in Nat /\ MaxToken \in Nat /\ token'[n] = k + 1
  <2>1. token \in [Node -> 1..MaxToken + 1] /\ MaxToken \in Nat
    BY <1>2, ControlAssumption DEF TypeOK
  <2> QED
    BY <1>1, <1>3, <2>1
<1> HIDE DEF n, t
<1>5. key \in Key /\ key[2] = k
  BY <1>1, <1>4 DEF Key
<1> HIDE DEF k, key
<1>6. msg' \in Msg /\ msg'.asker = n /\ msg'.key = key
  BY <1>1, <1>3, <1>5 DEF Msg
<1>7. msg' # NoMsg
  BY <1>6, MsgAssumption
<1>8. /\ thread'[t] = "waits" /\ waitsFor'[t] = key /\ home'[t] = n
      /\ \A u \in Thread : u # t => /\ thread'[u] = thread[u] /\ waitsFor'[u] = waitsFor[u]
                                    /\ home'[u] = home[u]
  BY <1>1, <1>2, <1>3 DEF TypeOK
<1>9. \A u \in Thread : thread[u] = "waits" /\ home[u] = n =>
        waitsFor[u][2] < k /\ waitsFor[u] # key
  <2>1. \A u \in Thread : thread[u] = "waits" /\ home[u] = n => waitsFor[u][2] < token[n]
    BY DEF ControlInv, TokensInv
  <2> QED
    BY <1>4, <1>5, <2>1 DEF k
<1>10. TypeOK'
  <2>1. token' \in [Node -> 1..MaxToken + 1]
    <3>1. token \in [Node -> 1..MaxToken + 1] /\ k + 1 \in 1..MaxToken + 1
      BY <1>1, <1>2, <1>4 DEF TypeOK
    <3>2. token' = [token EXCEPT ![n] = k + 1]
      BY <1>1 DEF k
    <3> QED
      BY <1>3, <3>1, <3>2
  <2>2. msg2thread' \in [Node -> SUBSET (Key \X Thread)]
    <3>1. msg2thread \in [Node -> SUBSET (Key \X Thread)] /\ <<key, t>> \in Key \X Thread
      BY <1>2, <1>3, <1>5 DEF TypeOK
    <3>2. {entry \in msg2thread[n] : entry[1] # key} \cup {<<key, t>>} \in SUBSET (Key \X Thread)
      BY <1>3, <3>1
    <3> QED
      BY <1>1, <3>1, <3>2
  <2>3. thread' \in [Thread -> {"unborn", "runs", "waits", "done"}] /\ waitsFor' \in [Thread -> Key]
    BY <1>1, <1>2, <1>3, <1>5 DEF TypeOK
  <2> QED
    BY <1>1, <1>2, <1>3, <1>6, <2>1, <2>2, <2>3 DEF TypeOK, Call, nodes
<1>11. TokensInv'
  <2> SUFFICES ASSUME NEW u \in Thread, thread'[u] = "waits"
               PROVE  /\ home'[u] \in Node /\ waitsFor'[u][2] < token'[home'[u]]
                      /\ \A v \in Thread :
                           thread'[v] = "waits" /\ home'[v] = home'[u] /\ waitsFor'[v] = waitsFor'[u]
                             => v = u
    BY DEF TokensInv
  <2>1. CASE u = t
    <3>1. k < k + 1
      BY <1>4
    <3> QED
      BY <1>3, <1>4, <1>5, <1>8, <1>9, <2>1, <3>1
  <2>2. CASE u # t
    <3>1. /\ thread[u] = "waits" /\ home'[u] = home[u] /\ waitsFor'[u] = waitsFor[u]
          /\ home[u] \in Node /\ waitsFor[u][2] < token[home[u]]
      BY <1>8, <2>2 DEF ControlInv, TokensInv
    <3>2. waitsFor[u][2] \in Nat
      <4>1. waitsFor[u] \in Key
        BY <1>2 DEF TypeOK
      <4>2. waitsFor[u][2] \in 0..MaxToken
        BY <4>1 DEF Key
      <4> QED
        BY <4>2
    <3>3. token[home[u]] \in Nat /\ (token'[home[u]] = token[home[u]] \/ token'[home[u]] = token[home[u]] + 1)
      <4>1. token \in [Node -> 1..MaxToken + 1]
        BY <1>2 DEF TypeOK
      <4>2. \A m \in Node : token[m] \in Nat
        BY <1>4, <4>1
      <4> QED
        BY <1>1, <3>1, <4>1, <4>2
    <3>4. waitsFor[u][2] < token'[home[u]]
      BY <3>1, <3>2, <3>3
    <3>5. \A v \in Thread :
            thread'[v] = "waits" /\ home'[v] = home'[u] /\ waitsFor'[v] = waitsFor'[u] => v = u
      BY <1>8, <1>9, <2>2, <3>1 DEF ControlInv, TokensInv
    <3> QED
      BY <3>1, <3>4, <3>5
  <2> QED
    BY <2>1, <2>2
<1>12. AskedInv'
  <2>1. msg = NoMsg
    BY <1>1 DEF Executing
  <2>2. \A u \in Thread : u = t => Asks(u)'
    BY <1>6, <1>7, <1>8 DEF Asks
  <2>3. \A u \in Thread : u # t => ~Asks(u)'
    BY <1>6, <1>8, <1>9 DEF Asks
  <2>4. unanswered \subseteq Thread /\ t \notin unanswered
    BY <1>2, <1>3 DEF TypeOK, ControlInv, AskedInv
  <2>5. \A u \in Thread : thread[u] = "waits" => u \in unanswered
    BY <2>1 DEF ControlInv, AskedInv, Asks
  <2>6. \A u \in unanswered : thread[u] = "waits"
    BY DEF ControlInv, AskedInv
  <2> QED
    BY <1>1, <1>3, <1>8, <2>2, <2>3, <2>4, <2>5, <2>6 DEF AskedInv
<1>13. WaitingExact'
  <2> SUFFICES ASSUME NEW m \in Node
               PROVE  msg2thread'[m] = {<<waitsFor'[u], u>> :
                                          u \in {v \in Thread : home'[v] = m /\ thread'[v] = "waits"}}
    BY DEF WaitingExact
  <2> DEFINE W == {v \in Thread : home[v] = m /\ thread[v] = "waits"}
             W1 == {v \in Thread : home'[v] = m /\ thread'[v] = "waits"}
  <2>1. msg2thread[m] = {<<waitsFor[u], u>> : u \in W}
    BY DEF ControlInv, WaitingExact
  <2>2. t \notin W /\ (W1 = IF m = n THEN W \cup {t} ELSE W)
    BY <1>3, <1>8
  <2>3. \A u \in W : waitsFor'[u] = waitsFor[u]
    BY <1>8, <2>2
  <2>4. CASE m # n
    <3>1. msg2thread'[m] = msg2thread[m]
      BY <1>1, <1>2, <2>4 DEF TypeOK
    <3> QED
      BY <2>1, <2>2, <2>3, <2>4, <3>1
  <2>5. CASE m = n
    <3>1. msg2thread'[m] = {entry \in msg2thread[m] : entry[1] # key} \cup {<<key, t>>}
      BY <1>1, <1>2, <2>5 DEF TypeOK
    <3>2. \A u \in W : waitsFor[u] # key
      BY <1>9, <2>5
    <3>3. {entry \in msg2thread[m] : entry[1] # key} = {<<waitsFor[u], u>> : u \in W}
      BY <2>1, <3>2
    <3> QED
      BY <1>8, <2>2, <2>3, <2>5, <3>1, <3>3
  <2> QED
    BY <2>4, <2>5
<1> QED
  BY <1>3, <1>10, <1>11, <1>12, <1>13 DEF ControlInv

\* A thread ends.
LEMMA FinishInv ==
  ASSUME ControlInv, Finish
  PROVE  ControlInv'
<1> DEFINE t == Top.thread
<1>1. /\ Executing /\ Stops("done") /\ UNCHANGED <<nodes, token, msg2thread, home, msg, history>>
  BY DEF Finish
<1>2. TypeOK
  BY DEF ControlInv
<1>3. /\ CallsInv' /\ RefsInv'
      /\ Li' \in [Node -> Seq(Thread)] /\ stack' \in Seq(Call)
      /\ thread' = [thread EXCEPT ![t] = "done"] /\ t \in Thread /\ thread[t] = "runs"
  BY <1>1, StopKeeps
<1>4. TypeOK'
  BY <1>1, <1>2, <1>3 DEF TypeOK, Call, nodes, history
<1>5. \A u \in Thread : thread'[u] = "waits" <=> thread[u] = "waits"
  BY <1>2, <1>3 DEF TypeOK
<1>6. TokensInv'
  BY <1>1, <1>5 DEF ControlInv, TokensInv, history
<1>7. AskedInv'
  BY <1>1, <1>2, <1>5 DEF ControlInv, AskedInv, Asks, history, TypeOK
<1>8. WaitingExact'
  <2>1. \A m \in Node : {u \in Thread : home[u] = m /\ thread'[u] = "waits"}
                          = {u \in Thread : home[u] = m /\ thread[u] = "waits"}
    BY <1>5
  <2> QED
    BY <1>1, <2>1 DEF ControlInv, WaitingExact, history
<1> QED
  BY <1>3, <1>4, <1>6, <1>7, <1>8 DEF ControlInv

LEMMA ReturnInv ==
  ASSUME ControlInv, Return
  PROVE  ControlInv'
<1>1. UNCHANGED <<lua, msg, history>>
  BY DEF Return
<1>2. /\ CallsInv' /\ RefsInv' /\ stack' \in Seq(Call)
      /\ nd_refs' \in [Node -> Nat] /\ nd_state' \in [Node -> {"valid", "invalid", "freed"}]
  BY ReturnKeeps
<1>3. TypeOK'
  BY <1>1, <1>2 DEF ControlInv, TypeOK, Call, lua, history
<1>4. TokensInv' /\ WaitingExact'
  BY <1>1 DEF ControlInv, TokensInv, WaitingExact, lua, history
<1>5. AskedInv'
  BY <1>1 DEF ControlInv, AskedInv, Asks, lua, history
<1> QED
  BY <1>2, <1>3, <1>4, <1>5 DEF ControlInv

\* A command or a response that gets to nobody.
LEMMA LostInv ==
  ASSUME ControlInv, SendLost \/ SendUnknown \/ ResponseLost
  PROVE  ControlInv'
<1>1. msg # NoMsg /\ Lost /\ UNCHANGED <<nodes, lua, stack, waitsFor, failed, told>>
  BY DEF SendLost, SendUnknown, ResponseLost, Sending, Responding
<1>2. CallsInv' /\ RefsInv'
  BY <1>1, PassKeeps DEF lua
<1>3. TokensInv' /\ AskedInv' /\ WaitingExact' /\ unanswered' \subseteq Thread
  BY <1>1, LostKeeps DEF lua
<1>4. TypeOK'
  BY <1>1, <1>3 DEF ControlInv, TypeOK, nodes, lua, Lost
<1> QED
  BY <1>2, <1>3, <1>4 DEF ControlInv

\* The receiver, or the runtime for it, answers the command.
LEMMA AnsweredInv ==
  ASSUME ControlInv, NEW err \in BOOLEAN, SendGeneric(err) \/ SendOwn(err) \/ SendNodeRm
  PROVE  ControlInv'
<1>1. /\ msg # NoMsg /\ msg.kind = "command" /\ (msg.dst = Module \/ msg.dst \in Node)
      /\ msg.dst \in Node => nd_state[msg.dst] = "valid" \/ msg.dst = Module
      /\ \E e \in BOOLEAN : msg' = Response(e)
      /\ \E e \in BOOLEAN : failed' = [failed EXCEPT ![Sender] = e]
      /\ UNCHANGED <<lua, waitsFor, told, unanswered>>
  BY DEF SendGeneric, SendOwn, SendNodeRm, Sending, Reaches, Answered
<1>2. \/ UNCHANGED <<nodes, stack>>
      \/ /\ msg.dst # Module /\ stack' = Serving
         /\ \/ UNCHANGED nd_state /\ nd_refs' = Held(msg.dst)
            \/ UNCHANGED nd_refs /\ nd_state' = [nd_state EXCEPT ![msg.dst] = "invalid"]
  BY DEF SendGeneric, SendOwn, SendNodeRm, nodes
<1>3. /\ CallsInv' /\ RefsInv' /\ nd_refs' \in [Node -> Nat] /\ stack' \in Seq(Call)
      /\ nd_state' \in [Node -> {"valid", "invalid", "freed"}]
  <2>1. /\ nd_state \in [Node -> {"valid", "invalid", "freed"}] /\ nd_refs \in [Node -> Nat]
        /\ stack \in Seq(Call)
    BY DEF ControlInv, TypeOK, Call
  <2>2. CASE UNCHANGED <<nodes, stack>>
    BY <1>1, <2>1, <2>2, PassKeeps DEF lua, nodes
  <2>3. CASE /\ msg.dst # Module /\ stack' = Serving
             /\ \/ UNCHANGED nd_state /\ nd_refs' = Held(msg.dst)
                \/ UNCHANGED nd_refs /\ nd_state' = [nd_state EXCEPT ![msg.dst] = "invalid"]
    <3>1. msg.dst \in Node /\ nd_state[msg.dst] = "valid" /\ UNCHANGED <<Li, thread, home>>
      BY <1>1, <2>3 DEF lua
    <3>2. CallsInv' /\ RefsInv' /\ nd_refs' \in [Node -> Nat] /\ stack' \in Seq(Call)
      BY <1>1, <2>3, <3>1, ServeKeeps
    <3>3. nd_state' \in [Node -> {"valid", "invalid", "freed"}]
      BY <2>1, <2>3
    <3> QED
      BY <3>2, <3>3
  <2> QED
    BY <1>2, <2>2, <2>3
<1>4. TokensInv' /\ AskedInv' /\ WaitingExact' /\ msg' \in Msg
  BY <1>1, AnswerKeeps DEF lua
<1>5. failed' \in [Thread -> BOOLEAN]
  BY <1>1 DEF ControlInv, TypeOK
<1>6. TypeOK'
  BY <1>1, <1>3, <1>4, <1>5 DEF ControlInv, TypeOK, Call, lua
<1> QED
  BY <1>3, <1>4, <1>6 DEF ControlInv

\* A Lua node handles the command in a thread of its own, and sends no answer.
LEMMA SendLuaInv ==
  ASSUME ControlInv, NEW t \in Thread, SendLua(t)
  PROVE  ControlInv'
<1> DEFINE n == msg.dst
<1>1. /\ msg # NoMsg /\ n \in Node /\ Lost /\ thread[t] = "unborn"
      /\ n = Module \/ nd_state[n] = "valid"
      /\ home' = [home EXCEPT ![t] = n] /\ Resume(n, t)
      /\ UNCHANGED <<nd_state, token, msg2thread, waitsFor, failed, told>>
  BY DEF SendLua, Sending, Reaches, NewThread
<1>2. nd_state[n] = "valid"
  BY <1>1, ControlAssumption
<1>3. TypeOK
  BY DEF ControlInv
<1>4. /\ home' \in [Thread -> Node \cup {Nowhere}] /\ home'[t] = n
      /\ \A u \in Thread : u # t => home'[u] = home[u]
  BY <1>1, <1>3 DEF TypeOK
<1>5. msg' = NoMsg
  BY <1>1 DEF Lost
<1> HIDE DEF n
<1>6. /\ CallsInv' /\ RefsInv'
      /\ nd_refs' \in [Node -> Nat] /\ Li' \in [Node -> Seq(Thread)]
      /\ thread' = [thread EXCEPT ![t] = "runs"] /\ stack' \in Seq(Call)
  BY <1>1, <1>2, <1>4, <1>5, ResumeKeeps
<1>7. \A u \in Thread : thread[u] = "waits" \/ thread'[u] = "waits" =>
        thread'[u] = thread[u] /\ home'[u] = home[u]
  BY <1>1, <1>3, <1>4, <1>6 DEF TypeOK
<1>8. TokensInv' /\ AskedInv' /\ WaitingExact' /\ unanswered' \subseteq Thread
  BY <1>1, <1>7, LostKeeps
<1>9. TypeOK'
  BY <1>1, <1>3, <1>4, <1>5, <1>6, <1>8 DEF TypeOK, Call
<1> QED
  BY <1>6, <1>8, <1>9 DEF ControlInv

\* What msg2thread.find finds is the thread that has asked.
LEMMA MatchIsSender ==
  ASSUME ControlInv, msg # NoMsg, NEW entry \in Matches(msg.key)
  PROVE  entry = <<msg.key, Sender>>
<1>1. msg.asker \in Node
  BY MsgFields DEF ControlInv, TypeOK
<1>2. PICK u \in Thread : home[u] = msg.asker /\ thread[u] = "waits" /\ entry = <<waitsFor[u], u>>
  BY <1>1 DEF Matches, ControlInv, WaitingExact
<1>3. waitsFor[u] = msg.key
  BY <1>2 DEF Matches
<1>4. u = Sender
  BY <1>2, <1>3, SenderAsks DEF Asks
<1> QED
  BY <1>2, <1>3, <1>4

LEMMA RespondInv ==
  ASSUME ControlInv, Respond
  PROVE  ControlInv'
<1> DEFINE n == msg.asker
           t == Sender
<1>1. /\ msg # NoMsg /\ nd_state[n] = "valid" /\ msg' = NoMsg
      /\ UNCHANGED <<nd_state, token, home, waitsFor, failed, unanswered>>
  BY DEF Respond, Responding
<1>2. PICK entry \in Matches(msg.key) :
        /\ msg2thread' = [msg2thread EXCEPT ![n] = @ \ {entry}]
        /\ Resume(n, entry[2])
        /\ told' = [told EXCEPT ![entry[2]] = msg.err]
  BY DEF Respond
<1>3. entry = <<msg.key, t>>
  BY <1>1, MatchIsSender
<1>4. t \in Thread /\ Asks(t) /\ \A u \in Thread : Asks(u) => u = t
  BY <1>1, SenderAsks
<1>5. TypeOK
  BY DEF ControlInv
<1>6. n \in Node /\ msg.err \in BOOLEAN
  <2>1. msg \in Msg /\ msg.kind = "response"
    BY <1>1, <1>5 DEF TypeOK, Respond, Responding
  <2>2. msg \in [kind : {"response"}, asker : Node, key : Key, err : BOOLEAN]
    BY <2>1 DEF Msg
  <2> QED
    BY <2>2
<1>7. home[t] = n /\ thread[t] = "waits" /\ waitsFor[t] = msg.key
  BY <1>4 DEF Asks
<1>8. Resume(n, t) /\ told' = [told EXCEPT ![t] = msg.err]
  BY <1>2, <1>3
<1> HIDE DEF n, t
<1>9. /\ CallsInv' /\ RefsInv'
      /\ nd_refs' \in [Node -> Nat] /\ Li' \in [Node -> Seq(Thread)]
      /\ thread' = [thread EXCEPT ![t] = "runs"] /\ stack' \in Seq(Call)
  <2>1. home'[t] = n /\ \A u \in Thread : u # t => home'[u] = home[u]
    BY <1>1, <1>7
  <2> QED
    BY <1>1, <1>4, <1>6, <1>8, <2>1, ResumeKeeps
<1>10. told' \in [Thread -> BOOLEAN] /\ msg2thread' \in [Node -> SUBSET (Key \X Thread)]
  BY <1>2, <1>4, <1>5, <1>6, <1>8 DEF TypeOK
<1>11. TypeOK'
  BY <1>1, <1>4, <1>5, <1>9, <1>10 DEF TypeOK, Call
<1>12. \A u \in Thread : thread'[u] = "waits" <=> thread[u] = "waits" /\ u # t
  BY <1>4, <1>5, <1>9 DEF TypeOK
<1>13. TokensInv'
  BY <1>1, <1>12 DEF ControlInv, TokensInv
<1>14. AskedInv'
  <2>1. \A u \in Thread : ~Asks(u)'
    BY <1>1 DEF Asks
  <2>2. \A u \in Thread : thread[u] = "waits" => u = t \/ u \in unanswered
    BY <1>4 DEF ControlInv, AskedInv
  <2>3. unanswered \subseteq Thread /\ \A u \in unanswered : thread[u] = "waits" /\ u # t
    BY <1>4, <1>5 DEF ControlInv, AskedInv, TypeOK
  <2> QED
    BY <1>1, <1>12, <2>1, <2>2, <2>3 DEF AskedInv
<1>15. WaitingExact'
  <2> SUFFICES ASSUME NEW m \in Node
               PROVE  msg2thread'[m] = {<<waitsFor[u], u>> :
                                          u \in {v \in Thread : home[v] = m /\ thread'[v] = "waits"}}
    BY <1>1 DEF WaitingExact
  <2> DEFINE W == {v \in Thread : home[v] = m /\ thread[v] = "waits"}
             W1 == {v \in Thread : home[v] = m /\ thread'[v] = "waits"}
  <2>1. msg2thread[m] = {<<waitsFor[u], u>> : u \in W}
    BY DEF ControlInv, WaitingExact
  <2>2. W1 = W \ {t}
    BY <1>12
  <2>3. msg2thread'[m] = IF m = n THEN msg2thread[m] \ {entry} ELSE msg2thread[m]
    BY <1>2, <1>5 DEF TypeOK
  <2>4. m # n => t \notin W
    BY <1>7
  <2>5. entry = <<waitsFor[t], t>>
    BY <1>3, <1>7
  <2>6. {<<waitsFor[u], u>> : u \in W} \ {entry} = {<<waitsFor[u], u>> : u \in W \ {t}}
    <3> HIDE DEF W
    <3> QED
      BY <2>5
  <2>7. m = n => msg2thread'[m] = {<<waitsFor[u], u>> : u \in W1}
    <3> HIDE DEF W, W1
    <3> QED
      BY <2>1, <2>2, <2>3, <2>6
  <2>8. m # n => msg2thread'[m] = {<<waitsFor[u], u>> : u \in W1}
    <3>1. m # n => W \ {t} = W
      BY <2>4
    <3> HIDE DEF W, W1
    <3> QED
      BY <2>1, <2>2, <2>3, <3>1
  <2> QED
    BY <2>7, <2>8
<1> QED
  BY <1>9, <1>11, <1>13, <1>14, <1>15 DEF ControlInv
-----------------------------------------------------------------------------
(* The theorems.                                                           *)

LEMMA ControlInvInit == Init => ControlInv
<1> SUFFICES ASSUME Init PROVE ControlInv
  OBVIOUS
<1>1. stack = <<>> /\ stack \in Seq(Call) /\ Len(stack) = 0 /\ 1..Len(stack) = {}
  BY DEF Init
<1>2. /\ msg = NoMsg /\ unanswered = {} /\ Li = [n \in Node |-> <<>>]
      /\ thread = [t \in Thread |-> "unborn"] /\ msg2thread = [n \in Node |-> {}]
  BY DEF Init
<1>3. TypeOK
  <2>1. NoKey \in Key /\ 1 \in 1..MaxToken + 1
    BY ControlAssumption DEF NoKey, Key, Command
  <2>2. /\ token \in [Node -> 1..MaxToken + 1] /\ waitsFor \in [Thread -> Key]
        /\ Li \in [Node -> Seq(Thread)] /\ msg2thread \in [Node -> SUBSET (Key \X Thread)]
    BY <2>1 DEF Init
  <2> QED
    BY <1>1, <2>2 DEF Init, TypeOK, Call
<1>4. CallsInv
  BY <1>1, <1>2 DEF CallsInv
<1>5. RefsInv
  <2>1. \A n \in Node : Calls(stack, n) = {} /\ nd_refs[n] = 1 /\ nd_state[n] = "valid"
    BY <1>1 DEF Init, Calls
  <2> QED
    BY <2>1, FS_EmptySet DEF RefsInv
<1>6. TokensInv /\ AskedInv
  BY <1>2 DEF TokensInv, AskedInv, Asks
<1>7. WaitingExact
  <2>1. \A n \in Node : {u \in Thread : home[u] = n /\ thread[u] = "waits"} = {}
    BY <1>2
  <2> QED
    BY <1>2, <2>1 DEF WaitingExact
<1> QED
  BY <1>3, <1>4, <1>5, <1>6, <1>7 DEF ControlInv

LEMMA ControlInvStep == ControlInv /\ [Next]_vars => ControlInv'
<1> SUFFICES ASSUME ControlInv, [Next]_vars PROVE ControlInv'
  OBVIOUS
<1>1. ASSUME NEW n \in Node, NEW t \in Thread, Event(n, t) PROVE ControlInv'
  BY <1>1, EventInv
<1>2. ASSUME NEW c \in Command, NEW d \in Destination, Yield(c, d) PROVE ControlInv'
  BY <1>2, YieldInv
<1>3. CASE Send
  <2>1. ASSUME NEW err \in BOOLEAN, SendGeneric(err) \/ SendOwn(err) PROVE ControlInv'
    BY <2>1, AnsweredInv
  <2>2. CASE SendNodeRm
    BY <2>2, AnsweredInv
  <2>3. ASSUME NEW t \in Thread, SendLua(t) PROVE ControlInv'
    BY <2>3, SendLuaInv
  <2> QED
    BY <1>3, <2>1, <2>2, <2>3, LostInv DEF Send
<1>4. CASE UNCHANGED vars
  BY <1>4 DEF vars, nodes, lua, history, ControlInv, TypeOK, CallsInv, RefsInv, TokensInv,
       AskedInv, Asks, WaitingExact, Top
<1> QED
  BY <1>1, <1>2, <1>3, <1>4, FinishInv, ReturnInv, RespondInv, LostInv DEF Next

\* luacontrol.cc: the invariant holds through every nesting of commands.
THEOREM ControlInvHolds == Spec => []ControlInv
BY ControlInvInit, ControlInvStep, PTL DEF Spec

\* Types, the references of the nodes included, never leave their range.
THEOREM ControlTypes == Spec => []TypeOK
<1>1. ControlInv => TypeOK
  BY DEF ControlInv
<1> QED
  BY <1>1, ControlInvHolds, PTL

\* "If Lua thread sent a message and is waiting for an answer, msg2thread maps"
\* its key to it; and only who is never answered is left waiting.
THEOREM WaitingIsSound == Spec => []WaitingSound
<1>1. ASSUME ControlInv PROVE WaitingSound
  <2>1. msg = NoMsg => {t \in Thread : thread[t] = "waits"} = unanswered
    BY <1>1 DEF ControlInv, AskedInv, Asks, TypeOK
  <2> QED
    BY <1>1, <2>1 DEF WaitingSound, NoThreadForgotten, ControlInv
<1> QED
  BY <1>1, ControlInvHolds, PTL

\* "call_lua_code requires that main Lua thread stack contain thread L": it does,
\* and nothing else.
THEOREM MainStacksAreExact == Spec => []MainStackExact
<1>1. ASSUME ControlInv PROVE MainStackExact
  <2> SUFFICES ASSUME NEW n \in Node
               PROVE  Li[n] = IF \E t \in Thread : home[t] = n /\ thread[t] = "runs"
                              THEN <<Top.thread>> ELSE <<>>
    BY DEF MainStackExact
  <2>1. Li[n] = IF stack # <<>> /\ Top.runs /\ Top.node = n THEN <<Top.thread>> ELSE <<>>
    BY <1>1 DEF ControlInv, CallsInv
  <2>2. stack # <<>> => Len(stack) \in 1..Len(stack)
    BY <1>1 DEF ControlInv, TypeOK
  <2>3. stack # <<>> /\ Top.runs => Top.thread \in Thread /\ home[Top.thread] = Top.node
    BY <1>1, <2>2 DEF ControlInv, CallsInv, Top
  <2>4. \A t \in Thread : thread[t] = "runs" <=> stack # <<>> /\ Top.runs /\ Top.thread = t
    BY <1>1 DEF ControlInv, CallsInv
  <2> QED
    BY <2>1, <2>3, <2>4
<1> QED
  BY <1>1, ControlInvHolds, PTL

\* The destructor of a luacontrol node closes its Lua state after the last call
\* in it has returned.
THEOREM StatesOutliveCalls == Spec => []StateOutlivesCalls
<1>1. ASSUME ControlInv PROVE StateOutlivesCalls
  <2> SUFFICES ASSUME NEW n \in Node, nd_state[n] = "freed"
               PROVE  \A i \in DOMAIN stack : stack[i].node # n
    BY DEF StateOutlivesCalls
  <2>1. stack \in Seq(Call)
    BY <1>1 DEF ControlInv, TypeOK, Call
  <2>2. nd_refs[n] = 0 /\ nd_refs[n] = 0 + Cardinality(Calls(stack, n))
    BY <1>1 DEF ControlInv, RefsInv
  <2>3. Cardinality(Calls(stack, n)) = 0 /\ DOMAIN stack = 1..Len(stack)
    BY <2>1, <2>2, CallsCounted
  <2> QED
    BY <2>1, <2>3, CallsCounted
<1> QED
  BY <1>1, ControlInvHolds, PTL

\* Whatever else has been asked and answered in between, a thread goes on with
\* the response to its own last command.
THEOREM ResumedByOwnResponse == Spec => ResumedByOwn
<1> DEFINE Own == \A t \in Thread : thread[t] = "waits" /\ thread'[t] = "runs" =>
                    msg.key = waitsFor[t] /\ msg.asker = home[t]
<1>1. ASSUME ControlInv, [Next]_vars PROVE [Own]_vars
  <2> SUFFICES ASSUME NEW t \in Thread, thread[t] = "waits", thread'[t] = "runs"
               PROVE  msg.key = waitsFor[t] /\ msg.asker = home[t]
    OBVIOUS
  <2>1. thread \in [Thread -> {"unborn", "runs", "waits", "done"}]
    BY <1>1 DEF ControlInv, TypeOK
  <2>2. ASSUME NEW n, NEW u \in Thread, thread[u] = "unborn", Resume(n, u) PROVE FALSE
    BY <2>1, <2>2 DEF Resume
  <2>3. ASSUME NEW state \in {"waits", "done"}, Stops(state) PROVE FALSE
    BY <2>1, <2>3 DEF Stops
  <2>4. thread' # thread
    OBVIOUS
  <2>5. Respond
    BY <1>1, <2>2, <2>3, <2>4 DEF Next, Event, NewThread, Yield, Finish, Return, lua, Send, SendLost,
         SendUnknown, SendNodeRm, SendGeneric, SendOwn, SendLua, ResponseLost, vars
  <2>6. msg # NoMsg
    BY <2>5 DEF Respond, Responding
  <2>7. PICK entry \in Matches(msg.key) : Resume(msg.asker, entry[2])
    BY <2>5 DEF Respond
  <2>8. entry = <<msg.key, Sender>> /\ Sender \in Thread /\ Asks(Sender)
    BY <1>1, <2>6, MatchIsSender, SenderAsks
  <2>9. thread' = [thread EXCEPT ![Sender] = "runs"]
    BY <2>7, <2>8 DEF Resume
  <2>10. t = Sender
    BY <2>1, <2>9
  <2> QED
    BY <2>8, <2>10 DEF Asks
<1> QED
  BY <1>1, ControlInvHolds, PTL DEF Spec, ResumedByOwn
=============================================================================
