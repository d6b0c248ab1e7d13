# A TLA+ model of DiMMon

DiMMon is a monitoring system: one single-threaded C/C++ process per machine
that runs a graph of *nodes*. Nodes produce data (sensors), transform it, print
it or pass it to another machine; they are created and wired by *control
messages*, usually from a Lua script. This directory holds the TLA+ models of
its runtime and of its data nodes, the TLC configurations that check them, and
the theorems that TLAPS proves about them.

Paths below are relative to `src/`.

## 1. Inventory

Nothing runs in parallel. What makes the program hard is that **every delivery
is a call**: sending data or a message runs the receiver's handler before the
send returns, and that handler may create, connect, disconnect and remove
anything, the caller included. All bookkeeping (reference counts, intrusive
lists, "is valid" flags, saved next cells) is there to survive it.
`PROJECT.json` lists every component with its status, and under *hazards* each
place in the code where this is delicate.

| component | state | operations | what makes it correct |
|---|---|---|---|
| graph (`dmm_base.c`) | nodes, hooks, peer lists, reference counts | NODECREATE, NODERM, NODECONNECT, NODEDISCONNECT, `dmm_data_send`, `dmm_msg_apply` | counts exact; nothing dangles or leaks; connections known to both ends |
| control messages (`dmm_message.h`, `dmm_base.c`) | the message being passed, tokens | request, response, error | who asked is answered, once, by the right answer |
| events (`dmm_event.c`) | two lists of subscription cells, event and node references | create, remove, subscribe, unsubscribe, `dmm_event_sendsubscribed` | cells come in pairs; delivery survives its handlers |
| timers (`dmm_timer.c`) | sorted trigger list, next time, interval | create, set, remove, trigger | sorted; never early; periodic timers go on; due timers trigger |
| socket events (`dmm_sockevent.c`) | list of events, the kernel's epoll set | subscribe, unsubscribe, destructor, trigger | the epoll set holds the living events' addresses and nothing else |
| waves (`dmm_wave.c`) | the finish event of the current wave | start, finish, subscribe | everyone who subscribed is told, once, before the wave ends |
| main loop (`dmm_base.c`) | timeout of `epoll_wait` | start wave, one socket event, timers, finish wave | no due timer waits for ever |
| wavebuf | buffer of blocks, pointer to the out hook | receive, flush | what has arrived is sent on |
| luacontrol, `dmm.lua` | Lua threads, `msg2thread`, main Lua stack | run, yield a command, resume | the thread that asked is resumed by the answer |
| prepend, demux, derivative, aggregateall | settings per sensor, last values, aggregates, hook pointers | receive a block, set, clear, trigger | streams of several hosts stay apart; rates add up; aggregates cover their period |
| starter | queue of commands, one in flight; identifiers it has been told | run the built-in script, remove the timer | commands take effect in order, none with an identifier that is not known |
| net/ip send, recv | descriptor, flags, out hook | create, bind, connect, set flags, transfer | the flags tell the truth; what arrives is read |
| sensors: cpuload, memory, ifdata, edac, dummy | pointer to the out hook; for cpuload a row of counters for each core listed | trigger | a block is about one interval and each load about one core, whatever cores come and go |
| printers, module loading, start-up, logging | files, formatting, `dlopen` | | not modelled |

How they meet: the main loop waits in `epoll_wait` for at most the time to the
first timer; then it starts a wave, sends the trigger of one socket event, of
all due timers, and finishes the wave. A trigger is a message to each
subscriber. A handler sends data through its hooks (the graph calls the
receivers) and messages to nodes by id or address (the graph calls them, too;
generic commands are executed by `dmm_msg_process_generic` itself). A response
is another message, sent inside the handling of the request.

## 2. Modules

| module | models | checked through |
|---|---|---|
| `DmmTopology` | abstract: live nodes and named connections | refined by `DmmGraph` |
| `DmmGraph` | nodes, hooks, connections, the call stack | `MCDmmGraph` |
| `DmmGraphProofs` | theorems about `DmmGraph` and its refinement of `DmmTopology` | tlapm |
| `DmmLists` | the lists of `queue.h`: what a loop finds, what a removal leaves | extended by the modules with lists |
| `DmmEvent` | events and subscriptions, delivery loop | extended by `DmmTimer`, `DmmSockevent` |
| `DmmEventProofs` | lemmas about lists, subscriptions and their counts | tlapm |
| `DmmTimer` | timers, their list, the clock, the main loop's timeout | `MCDmmTimer` |
| `DmmTimerProofs` | theorems about `DmmTimer` | tlapm |
| `DmmSockevent` | socket events and the epoll set | extended by `DmmNet` |
| `DmmNet` | recv and send nodes, the network between two processes, scripts with sockets | `MCDmmNet` |
| `DmmNetProofs` | theorems about `DmmSockevent` and `DmmNet` | tlapm |
| `DmmWave` | waves and wavebufs | `MCDmmWave` |
| `DmmWaveProofs` | theorems about `DmmWave` | tlapm |
| `DmmControl` | commands and responses of Lua nodes | `MCDmmControl` |
| `DmmControlProofs` | theorems about `DmmControl` | tlapm |
| `DmmBlocks` | what prepend, demux, derivative, aggregateall make of a block | extended by `DmmStream` |
| `DmmStream` | a chain of these nodes over time | `MCDmmStream` |
| `DmmStreamProofs` | theorems about `DmmStream` | tlapm |
| `DmmSensor` | sensors, their hooks, the cores of the machine | `MCDmmSensor`, and extended by `DmmStarter` |
| `DmmStarter` | starter, the sensors it sets up, its timer | `MCDmmStarter` |
| `DmmStarterProofs` | theorems about `DmmStarter` and `DmmSensor` | tlapm |

`PROJECT.json`, *map*, names the lines behind each definition. Definitions that
begin with "A variant" in their comment are faulty versions of the definition
that follows them; substituting one shows which property notices.

### DmmGraph

State: `nd_state`, `nd_refs` (the flags and count of `struct dmm_node`),
`hk_state`, `hk_key`, `hk_refs`, `hk_peers` (`struct dmm_hook`, in memory blocks
that are reused once freed) and `stack`, the C call stack: one frame for each
running `dmm_msg_apply` ("run", or "hold" while the response of a generic
command is handled), `dmm_data_send` ("send", with the peers still to come) and
`dmm_data_passtohook` ("rcv"). A frame owns the one reference its C function
took. Actions: `Wake` (a message reaches the handler of a node, from the main
loop or, nested, from a handler that sends a message of its own), `DataSend`,
`Deliver` (the next peer), `ReturnHook`, `ReturnNode`, and the commands
`NodeCreate`, `NodeConnect`, `NodeDisconnect`, `NodeRemove`, `Refused`, each
given by a handler that is at the top of the stack. So commands interleave with
every loop that is half done further down.

A command is one step: no `newhook`, `rmhook`, `ctor` or `dtor` in this
repository calls back into the graph. Peers have no order in the model, which
allows more behaviours. `CutActive` says whether a receiver may cut the very
connection it is called through, which the unsafe `LIST_FOREACH` of
`dmm_data_send` does not survive. It is `FALSE` in the run, as no data handler
in this repository sends commands other than WAVEFINISHSUBSCRIBE: this hazard is
left out, not checked. No theorem depends on it.
`DmmTopology` is the promise seen by a user: which nodes live and what is
connected to what by name, each command doing its whole work or nothing.

### DmmEvent, DmmTimer, DmmSockevent

`DmmEvent` has the two lists of cells (`nd_events`, `ev_nodes`), the reference
counts and the delivery loop with its saved `next` cell. `RemoveNext` says
whether a handler may remove the subscriber that the loop has saved; it is
`FALSE`, since the only handler in the repository that removes subscribers of
another node (TIMERRM by the starter) runs as the last of them.

`DmmTimer` adds `queue` (timer_trigger_list), `tm_next`, `tm_interval` and the
state of `dmm_timers_trigger` (`loop`, `tm`, `tmptm`, `limit`, `force`). The
clock counts ticks of half a millisecond, so that `Coalesce` = 2 is the
millisecond of `coalesce_interval`. `Wave(f)` is the main loop coming out of
`epoll_wait`: by its timeout (`f`, which forces the first timer) or by a
descriptor. `TimedOut` has the clamping of a negative timeout.

`DmmSockevent` adds `selist`, the fields of the events and the kernel's view:
`open` descriptors, and for each the registered address and mask. A descriptor
is closed only after its last subscriber has gone: recv and send never close
theirs, and the destructor of a socket event demands it of scripts
(`dmm_sockevent.c:150` asserts ENOENT, while the error for a closed descriptor
is EBADF).

### DmmNet

`DmmSockevent` with those who use it. Of each recv node: `sockfd`, `flags`,
`outhook`; of each send node, which is in another process, the `peer` it is
connected to. `network` is the set of datagrams ever sent. `Arrive` puts any of
them into the receive buffer of a socket with its address, so that datagrams are
late, repeated, reordered or lost. `progress` says how far the handler of a recv
node is: it has been called, it is sending its block, or it is done. Commands
may come from the nodes that the block reaches, so that the node is reconfigured
or removed, its flags changed, and other sockets subscribed to, in the midst of
its own trigger. `Script` is what Lua scripts do with sockets of their own.

`Bind` is BIND with the subscription that the node sends to itself. A datagram
is "whole" if it ends with an end node within what `recvmsg` returned; others,
and with NOCHECKDATA set all, are dropped. A removed recv node leaves its
descriptor open and bound, as `recv_dtor` does.

### DmmWave

The finish event and its list with the position of the delivery loop, and the
wavebufs: `hook` (is `pvt->hook` set?), `databuf` (number of blocks), `out` and
`fed` (the connections). `Wiring` gives the connections that may be made; it has
no cycles, as two wavebufs feeding each other would keep `dmm_wave_finish` from
ending. All connections to a wavebuf use its one in hook. Two histories: `sent`
are the wavebufs that have sent on all that they have got; `late` are those that
got data, with an empty buffer, from the last subscriber told, which is the
finding of `wave_told`.

`Pointer` is `newhook` and `rmhook`. The latter clears `pvt->hook` for an in
hook as well: a wavebuf whose last in hook goes while its out hook stays has
forgotten the latter, and `Flush` throws away what it has and all that it gets
later. `DataSentOn` names this among the ways in which data may be lost
(`Lost`). The comment at `wavebuf.c:134`, "If hook == NULL we have no way to
send buffered data", is then not so.

### DmmControl

`stack` is the nesting of luacontrol's `rcvmsg`; `msg` the message being passed;
`thread`, `Li`, `msg2thread`, `token` are the state of the Lua nodes. `Yield` is
a Lua thread sending a command, to a Lua node, to a node of another type
(`Module`) or to an id that is no node. The other actions with `Send` are what
`dmm_msg_apply` makes of it: lost, executed by the runtime, executed by the
receiver, handled by a Lua thread, or unknown to the receiver and dropped.
`Respond` resumes the thread found in `msg2thread`.

### DmmBlocks, DmmStream

`DmmBlocks` gives each handler as an operator on the node's private data and a
block. `DmmStream` puts the nodes in a row: for each host a sensor and a
prepend, then one demux, a derivative per host and one aggregateall. A block
passes all of them in one step, because none of their handlers calls back.

Data is a sequence of cells of 4 bytes, each with `Base` values (2^32 in the
code, 4 in the run); an element takes one cell or two, as the type says that the
sensor is set up with. `Comparable` asks for the number of elements only, as
`rcvdata` does. So after a change of the type the last values may be in a buffer
longer than they are, which `Remembered` keeps, or wider elements may be read
and written beyond it: `Fits` tells, `Taken` stops there, and `Sample` is
guarded by it, since nothing can be said of a program that has written beyond
its buffer. Integers wrap at their width. Rates are counted in units of
1/`RateUnit` and rounded to the nearest of those that a float can tell apart at
that size (`Spacing`, `Rounded`, with `Precision`). A sensor that is twice in a
block is compared with itself at the same time; that rate, of x/0, is
`NotFinite`, and aggregateall, which adds it up, has `Unknown` extremes and sum
from then on.

`series` is the history of what a host has sent of a sensor since it was set up:
the last values, and for each element a `total` to which each rate is added,
times the time it is for. `slack` adds up the spacings, times the same, as each
rounding is off by no more than half of one. `RatesAddUp` says that twice the
difference between `total` and the last value is no more than `slack`, but for
multiples of the modulus. A change of the width or the number of elements begins
a series anew, and so does a value at the time of the one before.

### DmmSensor, DmmStarter

`DmmSensor` has what sensors keep between triggers. For cpuload that is
`prev_val`, where a counter is represented by the time it was read (0: the
memory has not been written) and the core that was listed in that line,
`filled`, and `num_cores`, one for all nodes of the type. `cores` is what
/proc/stat lists, and `Hotplug` changes it between two handlers to any other of
`Listings`, of the same number or another; `FillFails` is `fill_prev` without
memory. The history `reading` is when a node last filled its rows, and from
what.

The code does not look which core a line is of: the check is commented out
(`cpuload.c:156`). If a core goes and another comes between two readings, the
number stays and the counters of two cores are subtracted. In
`LoadsOfOneInterval` all rows are of the last reading, and each is of the core
in that line unless what is listed has changed and its number has not: that case
is the defect, and the property excuses it in so many words. It does not excuse
it when the number has changed, as the buffer is then filled anew.

`DmmStarter` is the start-up message handled by starter and everything that
follows from it. `todo` are the `add_command` calls that the running handler has
still to make, `list` is `commandlist`, `waiting` is `is_waiting`. Each call of
`process_commands` that is on the C stack is an element of `loops`, with the
command it stands on and the one its `STAILQ_FOREACH_SAFE` has saved; a response
comes while its command is being sent, and starts the next loop above it. A
command is made with the identifiers that are known by then (`unset` are the
fields of `pvt_data` it read too early). Memory can run out for the command (the
assertion of `add_command`), its message, or the response, which generic
commands allocate before they do anything; a command can fail (`exit(1)`).

## 3. What the runs check

| run | instance | shows |
|---|---|---|
| `graph` | 3 nodes (2 with handlers), 4 hook blocks, 1 name, stack of 6 | counts exact, nothing dangles, every connection sound, names unique, nothing left over when idle, and each step is one of `DmmTopology` |
| `timer` | 2 timers, 2 nodes, clock to 3 | subscriptions and references exact, list sorted, removed timers detached, periodic timers stay, one-shot timers stop, no trigger before its time |
| `timer_live` | 2 timers, 1 node | a due timer triggers |
| `timer_rearm` | 1 timer, 1 node | **violated**: a one-shot timer that is set by its own handler is lost |
| `wave` | chain of 3 wavebufs, 2 blocks each | event referenced exactly, wavebufs subscribe once, hook pointers are good, data is sent on or lost in one of the ways named |
| `wave_told` | the same | **violated**: who subscribes from the handler of the last subscriber is not told |
| `net` | 1 recv node, 1 script node, 2 descriptors, 2 events, 1 sender, 2 arrivals | epoll set exact; an event lives as long as its subscribers; the flags agree with socket, binding and subscription; what arrives is read |
| `control` | 2 Lua nodes, 3 threads, 2 commands per node | waiting threads are exactly in `msg2thread`, whoever is answered is resumed by its own response, Lua stacks and states are kept |
| `control_errors` | the same | **violated**: modules flag errors in the request instead of the response |
| `stream` | 2 hosts, 2 sensors, 3 blocks in time, each one of 3, 3 types, 2 changes | hosts stay apart, rates add up to the values, settings exist for whatever is kept, summaries cover their period |
| `starter` | the start-up script, 7 readings, up to 3 cores | the queue is sound and the script takes effect in order whatever fails; loads are of one interval and one core; the timer is removed in the end |
| `cpuload_shared` | 2 cpuload nodes, up to 3 cores | **violated**: a node takes a buffer for complete that was made for fewer cores |

Some properties are conjunctions of named parts: `SubscriptionsSound` (both ends
of a subscription, only between the living, none left when a timer is removed),
`RefsExact` (nodes and timers), `RegisteredAsSet` (periodic timers stay,
one-shot timers go), `SubscriptionsExact` (the finish event's count, one
subscription per wavebuf), `WaitingSound` (`msg2thread`, and no thread
forgotten).

The violated properties are findings, quoted with the line that promises the
contrary in `PROJECT.json`.

**Bounds.** `MaxDepth` 6 allows a command given inside a delivery inside a
delivery inside a message, or a delivery inside two nested messages; three nodes
are a sender, a receiver and a third to interfere; four blocks are two
connections, or one and one being made while an old hook is still in use.
`MaxTime` 3 lets a timer be overdue by more than `Coalesce` and trigger twice. A
chain of three wavebufs has a first, a middle and a last subscriber, and in it
`MaxBuf` 2 tells the first block from the others. `MaxToken` 2 lets two commands
of a node wait at a time. In the stream, three blocks are the first value, a
rate and a rate over a gap; two changes are dropping a sensor and setting it up
again, or making its type wider or narrower and back. One of the types is
signed, one has two cells, one is of floats. The blocks have vectors of one cell
and of two, which are one element, two, or none at all, values that wrap, and a
sensor that is in its block twice; `RateUnit` 3, not a multiple of an interval
of 2, and `Precision` 8 make rates inexact. `Refused` and the lost messages
cover what fails for lack of a node or a hook. Two events are enough for a
socket event to die and another to take its descriptor, or for two descriptors
to be watched at a time; two arrivals for one datagram to wait while another is
read, be repeated or overtake it. `MaxClock` 7 is the five triggers after which
starter removes its timer, and one more; three cores can become more, fewer, and
as many as before again, the same or others.

**Symmetry** is used for identities only, and not in the liveness run nor where
nodes are ordered by the wiring.

**Deadlock** is not checked: the system may rest, when nothing is subscribed or
a bound has been reached.

**Fairness.** `DmmTimer`: weak fairness of `Loop` and of `Wave(TRUE)`. The main
loop is `while (1)`, handlers return, and `epoll_wait` comes back when its
timeout is over. Nothing is assumed of commands or of the time between waves.
`DmmWave`: weak fairness of the loop that finishes a wave, for the same reason.
`DmmNet`: weak fairness of the main loop, strong fairness of each descriptor.
Epoll is level-triggered, and asked for one event at a time it goes round the
descriptors that are ready, so that one that is ready again and again is
returned. Nothing is assumed of commands, scripts, senders and the network.
`DmmStarter`: weak fairness of its steps; it is one thread, and its timer comes
once a second. Memory and cores do what they like.

## 4. What is proved

Every theorem holds for all values of the constants that satisfy the named
assumptions, and with that without the bounds of the runs: nodes, timers, hooks
and threads are any finite sets, and the bounds on time, tokens or nesting any
numbers. The assumptions (`GraphAssumption`, `EventAssumption`,
`TimerAssumption`, ...) say what the C types say: sets are finite, null values
are not among what they stand for, times and limits are numbers. TLC evaluates
each of them in the runs of its module. Three go further and are discussed
below: `StreamAssumption`, `StarterAssumption`, and the hypothesis
`RemoveNext = FALSE`.

The proofs have one shape. The properties that the runs check are not inductive;
each module has an invariant that is (`...Inv`), found by asking what a step
relies on, which TLC checked before it was proved. There are lemmas on lists
and counting, one lemma for each action, and a last step that puts them
together; the properties follow from the invariant.

**Graph** (`DmmGraphProofs`), for both values of `CutActive`:

    GraphInv == TypeOK /\ HookRefsExact /\ NodeRefsExact /\ ConnectionsSound
                /\ MemorySound

(`GraphInvariant`), and from it `TypeCorrect`, `HookCountsExact`,
`NodeCountsExact`, `ConnectionsAreSound`, `NothingDangles` and `NothingLeaks`.
None of the five parts is inductive alone. That a count does not fall below zero
(the assertion of `dmm_refrelease`) follows from the counts being exact; they
stay exact only if a hook whose last peer has gone, or a node whose last
reference has gone, is freed in the same step, which `MemorySound` states
("allocated if and only if referenced", "a hook is valid exactly as long as its
node"); that NODERM leaves nothing behind needs `ConnectionsSound`, as the cells
it removes are found from its own hooks.

- `NamesAreUnique`: no node has two valid hooks of one name and direction.
- `GraphImplementsTopology`: each step of `DmmGraph`, seen as live nodes and
  links by name, is a step of `DmmTopology` or leaves it alone. Of the commands
  it takes `GraphInv` and the uniqueness of names to say which links a command
  makes or cuts; that all other steps stutter is that a hook is freed only when
  no link of it is left.

**Timers** (`DmmTimerProofs`):

    TimerInv == SubsInv /\ TypeOK /\ ListInv /\ CountsInv /\ LifeInv
                /\ CursorInv /\ RegisteredAsSet

`SubsInv` is what timers and socket events share (`DmmEventProofs`): the two
lists of a subscription agree, each cell is there once, the counts of nodes are
exact, only valid nodes have subscriptions, and the cell that
`dmm_event_sendsubscribed` has saved is a subscriber. `ListInv` is the sorted
list of valid timers, `CountsInv` the references to a timer from its list, its
subscribers and the loop, `LifeInv` that an invalid timer is only in the loop's
hands. `CursorInv` is about `dmm_timers_trigger` between two handlers: it sends
the timer it triggers, the one it has saved is in the list and is another, and a
trigger is forced only if that timer is the one `epoll_wait` has waited for;
without the last, "never early" is not inductive. From it `TimerTypes`,
`SubscriptionsAreSound`, `ReferencesAreExact`, `QueueStaysSorted`,
`TimersStayAsSet` and, as an action property, `NoneIsEarly`.

**Socket events and net/ip** (`DmmNetProofs`):

    SockInv == SubsInv /\ TypeOK /\ EventsCountedExactly /\ EpollExact /\ ...
    NetInv  == SocketFlags /\ ...

`SocketRefsAreExact` and `EpollIsExact` follow from the first: an event lives
as long as it has subscribers, and the kernel knows the addresses of the living
ones. `FlagsAgree`: HASSOCK and BOUND of a recv node agree with its descriptor,
which is open and its own; `NetInv` adds that a descriptor has an address only
if it is a recv node's, otherwise CREATESOCK could be given one that has an
address already. `SocketsUsedAsProvided`: each step of `DmmNet` is one of
`DmmSockevent` or leaves its variables alone, so that `SockInv` holds with recv
nodes too (`NetSocketsAreExact`). With both, `FlagsAreTrue` shows the rest of
`FlagsTell`: a bound node alone is subscribed to input from its descriptor
(`AllHeard`, which has to say what unsubscriptions of *others* do to the event).
`NetTypes` is the type invariant.

The theorems about timers, socket events and net/ip assume `RemoveNext = FALSE`,
but for `FlagsAgree` and `SocketsUsedAsProvided`, which do not depend on it.
With `TRUE` the loop would go on with a freed cell; that no handler of the
repository does this is said in section 2.

**Waves** (`DmmWaveProofs`): `WaveInv` adds to what is checked who is in the
list: while handlers run, exactly the wavebufs with data, each once; while the
wave finishes, those among them that have not been told. Without that, the count
of the event when the list is thrown away is unknown. From it `WaveTypes`,
`SubscriptionsAreExact`, `HookPointersAreSafe` and `NobodyIsForgotten`: a wave
that ends leaves no data behind but what came, into an empty buffer, from the
last subscriber told. That is `DataSentOn` without the fairness that brings each
wave to its end.

**Control** (`DmmControlProofs`):

    ControlInv == TypeOK /\ CallsInv /\ RefsInv /\ TokensInv /\ AskedInv
                  /\ WaitingExact

`CallsInv`: only the innermost call runs a thread, and the main Lua stacks say
which. `RefsInv`: the references of a node are the node list's and its calls'.
`TokensInv`: who waits has asked with a token that its node will not use again,
which makes keys unique. `AskedInv`: the message under way has its asker. From
it `ControlTypes`, `WaitingIsSound`, `MainStacksAreExact`, `StatesOutliveCalls`,
and `ResumedByOwnResponse` as an action property.

**Streams** (`DmmStreamProofs`), for any hosts, blocks of any length, any types
and changes between them: `StreamInv` says of each derivative that its last
values are of sensors it treats, are those its host sent last, in a buffer that
may be longer, and are what its rates have added up to (`Kept`). That a block
reaches the derivative of its own host, and without its mark, is a lemma about
prepend and demux (`MarkIs`), which needs that no sensor uses the id of a mark.

That rates add up is arithmetic (`Follows`): a total is `RateUnit` times the
value, plus an error e with |2e| <= `slack`, plus a multiple of the modulus.
`DifferenceLeads` says that what `difference` finds is the change of the value
but for a multiple of the modulus, `RoundedIs` that a rate times its interval is
that change but for half of the spacing; `FollowsNext` adds both to a total. A
series goes on if the new type has the same width, whether signed or not, which
`ExtendedKept` shows with `Comparable` and `Fits` alone to rely on, and
`BlockKept` for the data nodes of a block in turn, as the second node of a
sensor meets what the first has left.

Of aggregateall `StreamInv` says that the history `window` holds the values of
each sensor that has an aggregate, and that the aggregate is of all of them
(`Covers`: the number, and, if all are finite, the sum of the first k and
extremes that are among them). From it `HostsStayApart`, `RatesDoAddUp`,
`OnlyConfiguredIsKept`, `StreamTypes` and, as an action property,
`SummariesAreOfAll`.

What the loops of `DmmBlocks` compute for blocks of any length (`Progress`,
`ValuesOf`, `WidenedBy`, and the sums that `SummariesAreWhole` compares with) is
shown by induction. The library's induction theorems have an operator for a
parameter, so there are two of its own, with sets and functions instead:
`Upwards`, from well-founded induction on the places of a sequence, and
`Recursion`, that a function given by its first value and a step exists. As a
recursive definition is a CHOOSE, it then obeys its equation (`SumsAre`,
`WidenedByIs`, `ValuesOfIs`, `ProgressIs`). `CoversMore` adds the values of a
data node to an aggregate, `CoversWhole` and `CoversAverage` say what that
makes of its fields.

`StreamAssumption` demands that sources send whole cells, and that marks have
ids of their own. What the theorems leave out, as the model does, is what comes
after a write beyond a buffer.

**Sensors and starter** (`DmmStarterProofs`): `StarterInv` says that for some k
the first k commands of the script have taken effect, no others (`Effects`), and
the rest are in the queue and in what the handler has still to add, in order,
with the identifiers told so far (`At`); and how the nested loops of
`process_commands` stand (`QueueInv`). From it `StarterTypes`,
`CommandsAreSound` and `ScriptInOrder`. `LoadsAreOfOneInterval` is shown for
starter and for sensors alone, if there is one cpuload node: its buffer is then
as long as the last count of the cores or longer, because the count is its own,
and its rows are those of `reading`. The run `cpuload_shared` shows that the
first fails for two. `StarterAssumption` names the nodes of the built-in script;
there are no others to be parameters.

**Only model-checked** are the liveness properties `DueTriggers`, `HeardOrGone`,
`TimerStops` and `DataSentOn`: neither fairness nor ENABLED can be reasoned
about. Every invariant and action property of the passing runs has a theorem.

## 5. Not modelled, and why

- Failing allocation (ENOMEM) outside of starter and cpuload, and failing
  `epoll_ctl`: every one of them would double each step. The hazards name the
  places where it matters: `dmm_sockevent.c:168` releases a reference that
  nobody took, `recv.c:118` takes a subscription for granted.
- Handlers that remove the saved next subscriber, the saved next timer or the
  connection they are called through (`RemoveNext`, `CutActive`): the code goes
  on with freed memory.
- Two subscribers that unsubscribe and subscribe themselves again in their
  handlers keep `dmm_event_sendsubscribed` going for ever, each behind the
  other. One node alone cannot: `timer_live` has one node, and in `net` one
  sends commands. Liveness for two would need handlers that do not do this,
  which the code has no way to demand.
- Descriptors closed before their last unsubscription (see `DmmSockevent`).
- What a derivative does after it has read and written beyond the buffer of its
  last values, when a sensor was given a wider type and sends as many elements
  as before (`derivative.cc:226`, `252`).
- A thread that waits for a response nobody sends (`dmm_base.c:964`) waits for
  ever: `WaitingSound` counts it in.
- Names of nodes and `dmm_node_setname`, contents of messages, formatting, logs.
- Printers, and how sensors read their files: what they do to the graph is
  sending data and, for cpuload, what `DmmSensor` has.
- The dangling hook pointer of ifdata (`ifdata.c:113`): `RmHook` has it
  ("gone"), but starter never cuts a connection, so no run relies on it.
- For net/ip: failing system calls, stream sockets, the text of addresses.
  `check_data_valid` looks behind the end of data without an end node; the model
  has it find them not valid.
- Of floats, what is not finite is one value (`NotFinite`), float and double
  counters are integers, and the sums of aggregateall are exact.
- The three-argument form of `Aggregateall:set` raises an error, as
  `aggregateall.lua:78` calls `agregateall_const`; the range form is what
  `AggregateSetMsg` stands for.
- Loading of modules (`dlopen`) and reading of the configuration.

## 6. Plan

In order of importance; the first ten lines are done, but for what is named.

1. `DmmGraph`, `DmmTopology`, their run and proofs.
2. `DmmEvent` with `DmmTimer`: safety, then liveness.
3. `DmmWave` with wavebuf.
4. `DmmSockevent`.
5. `DmmControl`.
6. `DmmBlocks`, `DmmStream`.
7. Findings met on the way, each with a run.
8. `DmmNet`: recv and send, and datagrams that are lost, repeated or reordered
   between two processes, composed with `DmmSockevent`.
9. `DmmSensor` and `DmmStarter`: the serial queue, its response handling inside
   the send, and the sensors it sets up.
10. Proofs: of every component that is modelled, as in section 4.
11. A composition of the main loop over timers, socket events and waves, if its
    state space can be kept small enough to say more than its parts do.
