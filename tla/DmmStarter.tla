----------------------------- MODULE DmmStarter -----------------------------
(***************************************************************************)
(* The starter node (modules/starter) and the nodes it sets up: two        *)
(* sensors that a timer triggers and a printer of what they send.          *)
(*                                                                         *)
(* starter keeps a queue of commands, of which one is sent at a time.  The *)
(* response comes from within the sending of the command: it takes the     *)
(* command off the queue and goes on with the next.  The identifiers that  *)
(* the responses bring are read when later commands are created, by the    *)
(* same handler.                                                           *)
(*                                                                         *)
(* Memory may run out: for a command, for its message, for its response.   *)
(***************************************************************************)
EXTENDS DmmSensor, DmmLists

CONSTANTS
  ifdata, cpuload, dbgprinter, timer, \* what starter creates
  self,   \* starter itself, as a subscriber
  NoCmd   \* NULL

ASSUME StarterAssumption ==
  /\ Sensor = {ifdata, cpuload} /\ CpuLoad = {cpuload} /\ IfData = {ifdata}
  /\ ifdata # cpuload /\ dbgprinter \notin Sensor /\ timer \notin Sensor \cup {dbgprinter}
  /\ self \notin Sensor \cup {dbgprinter, timer}

VARIABLES
  ids,      \* the identifiers that have been told, of pvt_data
  todo,     \* commands that the running handler has still to add
  list,     \* commandlist
  waiting,  \* is_waiting: for the response to the first of the list
  loops,    \* calls of process_commands: the command at hand, and the saved next
  answer,   \* the response in delivery: "none", "ok", "error"
  num_tt,   \* triggers of the timer that starter has had
  printer,  \* does the printer exist?
  tm,       \* the timer: "none", "created", "set", "removed"
  subs,     \* its subscribers, in order
  round,    \* those that the current trigger has still to be sent to
  status,   \* "runs", "exits" (process_error), "aborts" (an assertion)
  failed    \* has a command failed, or memory run out?

program == <<ids, todo, list, waiting, loops, answer, num_tt>>
world == <<printer, tm, subs, round>>
vars == <<sensorVars, program, world, status, failed>>

Slot == {ifdata, cpuload, dbgprinter, timer}

\* process_startup_message, and the TIMERRM of rcvmsg.
Script == <<
  [cmd |-> "NODECREATE",     of |-> ifdata],
  [cmd |-> "NODECREATE",     of |-> cpuload],
  [cmd |-> "NODECREATE",     of |-> dbgprinter],
  [cmd |-> "NODECONNECT",    of |-> ifdata],
  [cmd |-> "NODECONNECT",    of |-> cpuload],
  [cmd |-> "TIMERCREATE",    of |-> timer],
  [cmd |-> "TIMERSET",       of |-> timer],
  [cmd |-> "TIMERSUBSCRIBE", of |-> ifdata],
  [cmd |-> "TIMERSUBSCRIBE", of |-> cpuload],
  [cmd |-> "TIMERSUBSCRIBE", of |-> self] >>
Removal == [cmd |-> "TIMERRM", of |-> timer]

Creations == {"NODECREATE", "TIMERCREATE"}

\* The identifiers that the creation of a command reads.
Reads(c) ==
  CASE c.cmd \in Creations          -> {}
    [] c.cmd = "NODECONNECT"        -> {c.of, dbgprinter}
    [] c.cmd = "TIMERSUBSCRIBE"     -> {c.of, timer} \ {self}
    [] c.cmd \in {"TIMERSET", "TIMERRM"} -> {timer}

\* A command in the list: unset are the identifiers that it took uninitialised.
Listed == [cmd : {Script[i].cmd : i \in DOMAIN Script} \cup {"TIMERRM"},
           of : Slot \cup {self}, unset : SUBSET Slot]

StarterTypeOK ==
  /\ SensorTypeOK
  /\ ids \subseteq Slot /\ list \in Seq(Listed) /\ waiting \in BOOLEAN
  /\ \A i \in DOMAIN todo : todo[i] \in Members(Script) \cup {Removal}
  /\ \A i \in DOMAIN loops : loops[i][1] \in Listed /\ loops[i][2] \in Listed \cup {NoCmd}
  /\ answer \in {"none", "ok", "error"}
  /\ num_tt \in Nat /\ printer \in BOOLEAN
  /\ tm \in {"none", "created", "set", "removed"}
  /\ subs \in Seq({ifdata, cpuload, self}) /\ round \in Seq({ifdata, cpuload, self})
  /\ status \in {"runs", "exits", "aborts"} /\ failed \in BOOLEAN

Fails(how) == status' = how /\ UNCHANGED <<sensorVars, program, world, failed>>
-----------------------------------------------------------------------------
(* Commands are queued: add_command.                                       *)

\* STAILQ_FOREACH_SAFE: the first command, and the one after it.
Loop(s) == <<s[1], IF Len(s) = 1 THEN NoCmd ELSE s[2]>>

\* Variants of add_command: at the head of the list; whenever none waits.
InsertedHead(c) == <<c>> \o list
StartsIfIdle == ~waiting

\* STAILQ_INSERT_TAIL.
Inserted(c) == Append(list, c)

\* "If commandlist was empty, start processing new command immediately".
Starts == list = <<>>

InHandler == status = "runs" /\ todo # <<>> /\ loops = <<>> /\ answer = "none"

Created(c) == [cmd |-> c.cmd, of |-> c.of, unset |-> Reads(c) \ ids]

AddCommand ==
  /\ InHandler
  /\ LET c == Created(Head(todo))
     IN  /\ list' = Inserted(c)
         /\ loops' = IF Starts THEN <<Loop(Inserted(c))>> ELSE <<>>
  /\ todo' = Tail(todo)
  /\ UNCHANGED <<sensorVars, ids, waiting, answer, num_tt, world, status, failed>>

\* The command itself cannot be allocated: assert(cmd).
NoCommand ==
  /\ InHandler /\ status' = "aborts" /\ failed' = TRUE
  /\ UNCHANGED <<sensorVars, program, world>>
-----------------------------------------------------------------------------
(* Commands are sent: process_commands and process_command.                *)

\* "assert(!pvt->is_waiting)".
AtCommand == status = "runs" /\ loops # <<>> /\ answer = "none" /\ ~waiting
Command == Head(loops)[1]

\* What the receiver does with a command, and whether it succeeds.
Execute(c) ==
  \/ /\ c.cmd = "NODECREATE" /\ c.of = dbgprinter /\ printer' = TRUE
     /\ UNCHANGED <<sensors, tm, subs>>
  \/ /\ c.cmd = "NODECREATE" /\ c.of \in Sensor /\ Create(c.of)
     /\ UNCHANGED <<printer, tm, subs>>
  \/ /\ c.cmd = "NODECONNECT" /\ NewHook(c.of)
     /\ UNCHANGED <<printer, tm, subs>>
  \/ /\ c.cmd = "TIMERCREATE" /\ tm' = "created"
     /\ UNCHANGED <<sensors, printer, subs>>
  \/ /\ c.cmd = "TIMERSET" /\ tm' = "set"
     /\ UNCHANGED <<sensors, printer, subs>>
  \/ /\ c.cmd = "TIMERSUBSCRIBE" /\ subs' = Append(subs, c.of)
     /\ UNCHANGED <<sensors, printer, tm>>
  \/ /\ c.cmd = "TIMERRM" /\ tm' = "removed" /\ subs' = <<>>
     /\ UNCHANGED <<sensors, printer>>

\* The command is executed, and answered before it returns.
SendDone ==
  /\ AtCommand /\ Command.unset = {}
  /\ Execute(Command) /\ answer' = "ok" /\ waiting' = TRUE
  /\ UNCHANGED <<machine, ids, todo, list, loops, num_tt, round, status, failed>>

\* A command that fails changes nothing: the type is not loaded, its file
\* cannot be read, memory runs out.
SendFails ==
  /\ AtCommand /\ Command.unset = {}
  /\ answer' = "error" /\ waiting' = TRUE /\ failed' = TRUE
  /\ UNCHANGED <<sensorVars, ids, todo, list, loops, num_tt, world, status>>

\* The response, which is created first, cannot be allocated, or nobody has
\* the identifier the command was sent to: the command is not executed,
\* starter goes on waiting, and process_commands returns.
SendUnanswered ==
  /\ AtCommand /\ waiting' = TRUE /\ failed' = TRUE /\ loops' = Tail(loops)
  /\ UNCHANGED <<sensorVars, ids, todo, list, answer, num_tt, world, status>>

\* The message cannot be created or copied: ENOMEM, the command stays.
SendNoMemory ==
  /\ AtCommand /\ failed' = TRUE /\ loops' = Tail(loops)
  /\ UNCHANGED <<sensorVars, ids, todo, list, waiting, answer, num_tt, world, status>>

Send == SendDone \/ SendFails \/ SendUnanswered \/ SendNoMemory
-----------------------------------------------------------------------------
(* Responses: process_response.                                            *)

\* Variants: process_resp does not store the result; is_waiting stays set.
LearntNothing(c) == {}
WaitsOn(rest) == TRUE

\* nodecreate_process_resp and its like store the identifier.
Learnt(c) == IF c.cmd \in Creations THEN {c.of} ELSE {}

\* "pvt->is_waiting = 0".
Waits(rest) == FALSE

\* The loop that called process_command goes on with the command it has saved,
\* or ends; if more commands are in the list, another loop has begun above it.
Continued(frame) ==
  IF frame[2] = NoCmd THEN <<>> ELSE <<<<frame[2], NextOf(list, frame[2], NoCmd)>>>>

ResponseOk ==
  /\ status = "runs" /\ answer = "ok" /\ waiting
  /\ ids' = ids \cup Learnt(Head(list))
  /\ LET rest == Tail(list)
     IN  /\ list' = rest /\ waiting' = Waits(rest)
         /\ loops' = (IF rest = <<>> THEN <<>> ELSE <<Loop(rest)>>)
                     \o Continued(Head(loops)) \o Tail(loops)
  /\ answer' = "none"
  /\ UNCHANGED <<sensorVars, todo, num_tt, world, status, failed>>

\* process_error: exit(1).
ResponseError == status = "runs" /\ answer = "error" /\ Fails("exits")
-----------------------------------------------------------------------------
(* The timer.                                                              *)

Idle == status = "runs" /\ todo = <<>> /\ loops = <<>> /\ answer = "none"

\* A variant of rcvmsg that counts no triggers.
RemovalNever(n) == FALSE

\* "if (pvt->num_tt >= 5)".
RemovalDue(n) == n >= 5

\* The main loop triggers the timer, once a second.
TimerTriggers ==
  /\ Idle /\ round = <<>> /\ tm = "set" /\ clock < MaxClock
  /\ clock' = clock + 1 /\ round' = subs
  /\ UNCHANGED <<sensors, cores, program, printer, tm, subs, status, failed>>

TellSensor ==
  /\ Idle /\ round # <<>> /\ Head(round) # self
  /\ TriggerSensor(Head(round)) /\ round' = Tail(round)
  /\ UNCHANGED <<machine, program, printer, tm, subs, status, failed>>

TellSelf ==
  /\ Idle /\ round # <<>> /\ Head(round) = self
  /\ num_tt' = num_tt + 1
  /\ todo' = IF RemovalDue(num_tt + 1) THEN <<Removal>> ELSE <<>>
  /\ round' = Tail(round)
  /\ UNCHANGED <<sensorVars, ids, list, waiting, loops, answer, printer, tm, subs, status, failed>>

\* The machine's cores change between two handlers.
CoresCome ==
  /\ Idle /\ Hotplug /\ UNCHANGED <<program, world, status, failed>>
-----------------------------------------------------------------------------
Init ==
  /\ SensorInit
  /\ ids = {} /\ todo = Script /\ list = <<>> /\ waiting = FALSE
  /\ loops = <<>> /\ answer = "none" /\ num_tt = 0
  /\ printer = FALSE /\ tm = "none" /\ subs = <<>> /\ round = <<>>
  /\ status = "runs" /\ failed = FALSE

Steps ==
  \/ AddCommand \/ NoCommand \/ Send \/ ResponseOk \/ ResponseError
  \/ TimerTriggers \/ TellSensor \/ TellSelf

Next == Steps \/ CoresCome

\* One thread: handlers return, and the main loop triggers the timer.
Spec == Init /\ [][Next]_vars /\ WF_vars(Steps)
-----------------------------------------------------------------------------
\* "Command processing is serialized": the loops stand on commands that are
\* in the list, and so have not been freed by the response to an earlier
\* one; what is in flight is the first of the list; and nothing is sent that
\* was made from an identifier the starter had not been told.
CommandsSound ==
  /\ \A i \in DOMAIN loops : loops[i][2] # NoCmd => loops[i][2] \in Members(list)
  /\ loops # <<>> => list # <<>> /\ Command = Head(list)
  /\ waiting => list # <<>> /\ Head(list).unset = {}

\* The commands that are still to be executed, and how many have been: all
\* that have left the list, and the first of it if its response is missing.
Plain(s) == [i \in DOMAIN s |-> [cmd |-> s[i].cmd, of |-> s[i].of]]
Pending ==
  LET done == IF answer = "ok" THEN 1 ELSE 0
  IN  Kept(SubSeq(Plain(list), done + 1, Len(list)) \o todo, {Removal})
Executed == Len(Script) - Len(Pending)
Before(cmd) == {Script[i].of : i \in {j \in 1..Executed : Script[j].cmd = cmd}}

\* Whatever fails, the commands take effect in the order of the script and
\* none is skipped: there is always a point up to which all of it is done,
\* and the rest is still there, in order.
DoneInOrder ==
  /\ status = "runs" => Pending = SubSeq(Script, Executed + 1, Len(Script))
  /\ made \cup (IF printer THEN {dbgprinter} ELSE {}) = Before("NODECREATE")
  /\ {n \in Sensor : hook[n] = "live"} = Before("NODECONNECT")
  /\ ids \subseteq made \cup {dbgprinter, timer}
  /\ tm # "removed" => /\ Members(subs) = Before("TIMERSUBSCRIBE")
                       /\ tm = "set" <=> timer \in Before("TIMERSET")

\* Unless something fails no assertion does, and starter removes its timer
\* after having been triggered often enough.
TimerStops == <>(failed \/ tm = "removed")
=============================================================================
