----------------------------- MODULE DmmControl ------------------------------
(***************************************************************************)
(* Control messages and their responses, as the luacontrol node type       *)
(* (luacontrol.cc, dmm.lua) uses them.                                     *)
(*                                                                         *)
(* A Lua thread sends a command by yielding it; luacontrol notes in        *)
(* msg2thread which thread waits for which response and sends the command. *)
(* The runtime calls the receiver, which sends the response, and that      *)
(* calls the Lua node again: all of it nests on one C stack, on which      *)
(* several threads of several Lua nodes may wait.  A command that nobody   *)
(* answers leaves its thread waiting for ever.                             *)
(***************************************************************************)
EXTENDS Naturals, Sequences, FiniteSets

CONSTANTS
  Node,     \* the luacontrol nodes
  Thread,   \* the Lua threads that handle messages
  Module,   \* stands for the nodes of the other types
  Nowhere,  \* stands for the identifiers that are no node
  MaxToken, \* bound on the commands a node sends
  NoThread, NoMsg

ASSUME ControlAssumption ==
  /\ IsFiniteSet(Node) /\ IsFiniteSet(Thread)
  /\ Module \notin Node /\ Nowhere \notin Node /\ Module # Nowhere
  /\ MaxToken \in Nat \ {0} /\ NoThread \notin Thread

\* NODERM and the other generic commands are executed by the runtime, any
\* other command by the receiver.
Command == {"NODERM", "generic", "own"}
Destination == Node \cup {Module, Nowhere}
Key == Command \X (0..MaxToken)   \* type and command, token

VARIABLES
  nd_state,   \* "valid", "invalid" (still referenced), "freed"
  nd_refs,
  token,      \* the token of each node's next message
  msg2thread, \* for each node, the threads waiting and what for: <<key, thread>>
  Li,         \* the stack of each node's main Lua state
  thread,     \* "unborn", "runs", "waits", "done"
  home,       \* the node of each thread, once it is born
  stack,      \* the calls of rcvmsg: [node, thread, runs]
  msg,        \* the message being sent, or NoMsg
  waitsFor,   \* history: the key of the command a thread has sent last
  failed,     \* history: has that command failed?
  told,       \* did its response say so (DMM_MSG_ERR)?
  unanswered  \* history: the threads that nobody has answered

nodes == <<nd_state, nd_refs>>
lua == <<token, msg2thread, Li, thread, home>>
history == <<waitsFor, failed, told, unanswered>>
vars == <<nodes, lua, stack, msg, history>>

NoKey == <<"generic", 0>>

Msg == [kind : {"command"}, asker : Node, dst : Destination, key : Key]
       \cup [kind : {"response"}, asker : Node, key : Key, err : BOOLEAN]

ASSUME MsgAssumption == NoMsg \notin Msg

TypeOK ==
  /\ nd_state \in [Node -> {"valid", "invalid", "freed"}] /\ nd_refs \in [Node -> Nat]
  /\ token \in [Node -> 1..MaxToken + 1]
  /\ msg2thread \in [Node -> SUBSET (Key \X Thread)]
  /\ Li \in [Node -> Seq(Thread)]
  /\ thread \in [Thread -> {"unborn", "runs", "waits", "done"}]
  /\ home \in [Thread -> Node \cup {Nowhere}]
  /\ stack \in Seq([node : Node, thread : Thread \cup {NoThread}, runs : BOOLEAN])
  /\ msg \in Msg \cup {NoMsg}
  /\ waitsFor \in [Thread -> Key] /\ failed \in [Thread -> BOOLEAN]
  /\ told \in [Thread -> BOOLEAN] /\ unanswered \subseteq Thread

Top == stack[Len(stack)]
Executing == msg = NoMsg /\ stack # <<>> /\ Top.runs
Popped(s) == SubSeq(s, 1, Len(s) - 1)
-----------------------------------------------------------------------------
(* Calls.                                                                  *)

\* A variant of dmm_msg_send_id that takes no reference.
HeldNot(n) == nd_refs

\* dmm_node_id2ref: a reference for the time of the call.
Held(n) == [nd_refs EXCEPT ![n] = @ + 1]

\* A variant that leaves the thread on the main stack when it yields or ends.
PoppedNot(n) == Li

\* lua_pop(pvt->Li, 1).
MainPopped(n) == [Li EXCEPT ![n] = Popped(@)]

\* lua_newthread or lua_rawgeti, then lua_resume: thread t of node n runs in
\* a new call of rcvmsg.
Resume(n, t) ==
  /\ nd_refs' = Held(n)
  /\ Li' = [Li EXCEPT ![n] = Append(@, t)]
  /\ thread' = [thread EXCEPT ![t] = "runs"]
  /\ stack' = Append(stack, [node |-> n, thread |-> t, runs |-> TRUE])

\* A message other than a response is passed to dmm.rcvmsg in a new thread.
NewThread(n, t) ==
  /\ thread[t] = "unborn" /\ home' = [home EXCEPT ![t] = n]
  /\ Resume(n, t)

\* The main loop, or dmm_startup, sends STARTUP, a trigger or WAVEFINISH.
Event(n, t) ==
  /\ stack = <<>> /\ msg = NoMsg /\ nd_state[n] = "valid"
  /\ NewThread(n, t)
  /\ UNCHANGED <<nd_state, token, msg2thread, msg, history>>

\* call_lua_code goes on after lua_resume.
Stops(state) ==
  /\ thread' = [thread EXCEPT ![Top.thread] = state]
  /\ Li' = MainPopped(Top.node)
  /\ stack' = [stack EXCEPT ![Len(stack)].runs = FALSE]

\* A variant of dmm.msg_create that gives every message the same token.
KeySame(n, c) == <<c, 1>>

\* dmm.msg_create numbers the messages of a node.
KeyOf(n, c) == <<c, token[n]>>

\* The thread yields a command: it is noted in msg2thread, where it replaces
\* an entry for the same key, and sent.
Yield(c, d) ==
  LET n == Top.node
      key == KeyOf(n, c)
      others == {entry \in msg2thread[n] : entry[1] # key}
  IN  /\ Executing /\ token[n] <= MaxToken
      /\ token' = [token EXCEPT ![n] = @ + 1]
      /\ msg2thread' = [msg2thread EXCEPT ![n] = others \cup {<<key, Top.thread>>}]
      /\ Stops("waits")
      /\ msg' = [kind |-> "command", asker |-> n, dst |-> d, key |-> key]
      /\ waitsFor' = [waitsFor EXCEPT ![Top.thread] = key]
      /\ UNCHANGED <<nodes, home, failed, told, unanswered>>

\* The thread ends, by returning or by an error.
Finish ==
  /\ Executing /\ Stops("done")
  /\ UNCHANGED <<nodes, token, msg2thread, home, msg, history>>

\* A variant of dmm_node_unref that counts twice.
ReleasedTwice(n) == [nd_refs EXCEPT ![n] = @ - 2]
Released(n) == [nd_refs EXCEPT ![n] = @ - 1]

\* DMM_NODE_UNREF; without references the node and its Lua state are gone.
Unref(n) ==
  /\ nd_refs' = Released(n)
  /\ nd_state' = IF nd_refs'[n] = 0 THEN [nd_state EXCEPT ![n] = "freed"] ELSE nd_state

\* rcvmsg frees its message and returns, through dmm_msg_apply, to a caller
\* that returns as well: its thread has stopped.
Return ==
  /\ msg = NoMsg /\ stack # <<>> /\ ~Top.runs
  /\ Unref(Top.node)
  /\ stack' = Popped(stack)
  /\ UNCHANGED <<lua, msg, history>>
-----------------------------------------------------------------------------
(* dmm_msg_send_id of a command.                                           *)

Reaches(d) == d = Module \/ (d \in Node /\ nd_state[d] = "valid")
Sender == CHOOSE t \in Thread :
            thread[t] = "waits" /\ waitsFor[t] = msg.key /\ home[t] = msg.asker
Sending(c) == msg # NoMsg /\ msg.kind = "command" /\ msg.key[1] \in c

\* Nobody answers.
Lost == msg' = NoMsg /\ unanswered' = unanswered \cup {Sender}

\* No such node, or one that is removed but still referenced.
SendLost ==
  /\ Sending(Command) /\ ~Reaches(msg.dst) /\ Lost
  /\ UNCHANGED <<nodes, lua, stack, waitsFor, failed, told>>

Response(err) == [kind |-> "response", asker |-> msg.asker, key |-> msg.key, err |-> err]

\* A variant of dmm_msg_process_generic that does not answer if it fails.
AnsweredIfDone(err) == IF err THEN NoMsg ELSE Response(FALSE)
Answered(err) == Response(err)

\* dmm_msg_apply holds a Lua node while it processes a generic command.
Serving == Append(stack, [node |-> msg.dst, thread |-> NoThread, runs |-> FALSE])

\* dmm_msg_process_generic: any outcome, and a response that tells it.
SendGeneric(err) ==
  /\ Sending({"generic"}) /\ Reaches(msg.dst)
  /\ IF msg.dst = Module THEN UNCHANGED <<nd_refs, stack>>
     ELSE nd_refs' = Held(msg.dst) /\ stack' = Serving
  /\ msg' = Answered(err)
  /\ failed' = [failed EXCEPT ![Sender] = err]
  /\ UNCHANGED <<nd_state, lua, waitsFor, told, unanswered>>

\* DMM_MSG_NODERM: the reference of the node list goes, and that of the call
\* comes; a response is sent.
SendNodeRm ==
  /\ Sending({"NODERM"}) /\ Reaches(msg.dst)
  /\ IF msg.dst = Module THEN UNCHANGED <<nd_state, stack>>
     ELSE nd_state' = [nd_state EXCEPT ![msg.dst] = "invalid"] /\ stack' = Serving
  /\ UNCHANGED nd_refs
  /\ msg' = Response(FALSE)
  /\ failed' = [failed EXCEPT ![Sender] = FALSE]
  /\ UNCHANGED <<lua, waitsFor, told, unanswered>>

\* A node of another type: CREATE_SEND_EMPTY_RESP sets DMM_MSG_ERR in the
\* message that it is about to free, not in the response.
SendOwn(err) ==
  /\ Sending({"own"}) /\ msg.dst = Module
  /\ msg' = Response(FALSE)
  /\ failed' = [failed EXCEPT ![Sender] = err]
  /\ UNCHANGED <<nodes, lua, stack, waitsFor, told, unanswered>>

\* The node does not know the command (ENOTSUP).
SendUnknown ==
  /\ Sending({"own"}) /\ msg.dst = Module /\ Lost
  /\ UNCHANGED <<nodes, lua, stack, waitsFor, failed, told>>

\* A Lua node: dmm.rcvmsg, which sends no response.
SendLua(t) ==
  /\ Sending({"own"}) /\ msg.dst \in Node /\ Reaches(msg.dst) /\ Lost
  /\ NewThread(msg.dst, t)
  /\ UNCHANGED <<nd_state, token, msg2thread, waitsFor, failed, told>>
-----------------------------------------------------------------------------
(* process_response.                                                       *)

\* A variant that compares type and command, and not the token.
MatchesCommand(key) == {entry \in msg2thread[msg.asker] : entry[1][1] = key[1]}

\* msg2thread.find.
Matches(key) == {entry \in msg2thread[msg.asker] : entry[1] = key}

Responding == msg # NoMsg /\ msg.kind = "response"

\* The thread that waits for this response is resumed with it.
Respond ==
  /\ Responding /\ nd_state[msg.asker] = "valid"
  /\ \E entry \in Matches(msg.key) :
       /\ msg2thread' = [msg2thread EXCEPT ![msg.asker] = @ \ {entry}]
       /\ Resume(msg.asker, entry[2])
       /\ told' = [told EXCEPT ![entry[2]] = msg.err]
  /\ msg' = NoMsg
  /\ UNCHANGED <<nd_state, token, home, waitsFor, failed, unanswered>>

\* The sender has been removed, by this very command.
ResponseLost ==
  /\ Responding /\ nd_state[msg.asker] # "valid" /\ Lost
  /\ UNCHANGED <<nodes, lua, stack, waitsFor, failed, told>>
-----------------------------------------------------------------------------
Init ==
  /\ nd_state = [n \in Node |-> "valid"] /\ nd_refs = [n \in Node |-> 1]
  /\ token = [n \in Node |-> 1] /\ msg2thread = [n \in Node |-> {}]
  /\ Li = [n \in Node |-> <<>>]
  /\ thread = [t \in Thread |-> "unborn"] /\ home = [t \in Thread |-> Nowhere]
  /\ stack = <<>> /\ msg = NoMsg
  /\ waitsFor = [t \in Thread |-> NoKey]
  /\ failed = [t \in Thread |-> FALSE] /\ told = [t \in Thread |-> FALSE]
  /\ unanswered = {}

Send ==
  \/ SendLost \/ SendNodeRm \/ SendUnknown
  \/ \E err \in BOOLEAN : SendGeneric(err) \/ SendOwn(err)
  \/ \E t \in Thread : SendLua(t)

Next ==
  \/ \E n \in Node, t \in Thread : Event(n, t)
  \/ \E c \in Command, d \in Destination : Yield(c, d)
  \/ Finish \/ Return \/ Send \/ Respond \/ ResponseLost

Spec == Init /\ [][Next]_vars
-----------------------------------------------------------------------------
\* "If Lua thread sent a message and is waiting for an answer, msg2thread
\* maps (type, cmd, token) triplet to" the thread: every waiting thread is
\* there, once, under the key of the message it has sent, and nobody else is.
WaitingExact ==
  \A n \in Node :
    msg2thread[n] = {<<waitsFor[t], t>> : t \in {u \in Thread : home[u] = n /\ thread[u] = "waits"}}

\* A thread waits only for a response that is still to come or that nobody
\* sends: whoever is answered is resumed before control returns to the main
\* loop, however deep the calls have nested.
NoThreadForgotten ==
  stack = <<>> /\ msg = NoMsg => {t \in Thread : thread[t] = "waits"} = unanswered

\* Who waits is known under the right key, and is answered if anybody answers.
WaitingSound == WaitingExact /\ NoThreadForgotten

\* "call_lua_code requires that main Lua thread stack contain thread L": the
\* main stack of a node holds the thread that runs, and is empty otherwise.
MainStackExact ==
  \A n \in Node :
    nd_state[n] # "freed" =>
      Li[n] = IF \E t \in Thread : home[t] = n /\ thread[t] = "runs" THEN <<Top.thread>> ELSE <<>>

\* The Lua state of a node that removes itself outlives the calls in it.
StateOutlivesCalls ==
  \A n \in Node : nd_state[n] = "freed" => \A i \in DOMAIN stack : stack[i].node # n

\* A thread is resumed by the response to its own last command.
ResumedByOwn ==
  [][\A t \in Thread : thread[t] = "waits" /\ thread'[t] = "runs" =>
       msg.key = waitsFor[t] /\ msg.asker = home[t]]_vars

\* dmm_message.h: "Action requested in original message failed (response is
\* error)".  The code of the node types sets the flag in the wrong message.
ErrorsAreTold == \A t \in Thread : thread[t] = "runs" => told[t] = failed[t]
=============================================================================
