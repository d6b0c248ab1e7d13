------------------------------ MODULE DmmSensor ------------------------------
(***************************************************************************)
(* Sensor nodes (modules/sensors).  A sensor reads a file of /proc when a  *)
(* timer triggers it and sends what it finds through its out hook, if it   *)
(* has one.                                                                *)
(*                                                                         *)
(* cpuload sends differences: it keeps the last counters of every core,    *)
(* in a buffer of its own, for a number of cores that all cpuload nodes    *)
(* share.  Cores come and go between two readings.  The counters of a core *)
(* are modelled by the core and the time at which they were read.          *)
(***************************************************************************)
EXTENDS Naturals, Sequences, FiniteSets

CONSTANTS
  Sensor,   \* sensor nodes
  CpuLoad,  \* those of type cpuload
  IfData,   \* those of type ifdata
  Listings, \* what /proc/stat may list: the numbers of the cores on-line, in order
  MaxClock  \* bound on the readings

ASSUME SensorAssumption ==
  /\ CpuLoad \subseteq Sensor /\ IfData \subseteq Sensor /\ CpuLoad \cap IfData = {}
  /\ Listings \subseteq Seq(Nat) \ {<<>>} /\ Listings # {} /\ MaxClock \in Nat \ {0}

VARIABLES
  made,      \* the sensors that exist
  hook,      \* pvt->hook: "null", "live", or "gone": still set, its hook removed
  num_cores, \* static: the cores counted last, 0 before that
  prev_val,  \* by cpuload node: the rows of its buffer; <<>> for NULL
  filled,    \* prev_val_filled
  reading,   \* by cpuload node, a history: when it last filled its rows, and
             \*   what was listed
  cores,     \* the lines "cpu<number>" of /proc/stat
  clock      \* time, in triggers of the timer

sensors == <<made, hook, num_cores, prev_val, filled, reading>>
machine == <<cores, clock>>
sensorVars == <<sensors, machine>>

Counts == {Len(l) : l \in Listings}

\* A row of prev_val: the core whose counters it holds, and since when; and
\* one that has only been allocated.
Row(core, time) == [core |-> core, at |-> time]
NoRow == Row(0, 0)
Rows(time) == [core : Nat, at : 0..time]

SensorTypeOK ==
  /\ made \subseteq Sensor /\ hook \in [Sensor -> {"null", "live", "gone"}]
  /\ num_cores \in Counts \cup {0}
  /\ \A n \in CpuLoad : /\ prev_val[n] \in Seq(Rows(clock))
                        /\ Len(prev_val[n]) \in Counts \cup {0}
                        /\ filled[n] => prev_val[n] # <<>>
  /\ DOMAIN prev_val = CpuLoad /\ filled \in [CpuLoad -> BOOLEAN]
  /\ reading \in [CpuLoad -> [at : 0..clock, cores : Listings \cup {<<>>}]]
  /\ cores \in Listings /\ clock \in 1..MaxClock
-----------------------------------------------------------------------------
(* Nodes and hooks.                                                        *)

\* ctor: the first cpuload node counts the cores.
Create(n) ==
  /\ n \in Sensor \ made /\ made' = made \cup {n}
  /\ num_cores' = IF n \in CpuLoad /\ num_cores = 0 THEN Len(cores) ELSE num_cores
  /\ UNCHANGED <<hook, prev_val, filled, reading>>

\* newhook: the pointer is set, whatever it was.
NewHook(n) ==
  /\ n \in made /\ hook[n] # "live" /\ hook' = [hook EXCEPT ![n] = "live"]
  /\ UNCHANGED <<made, num_cores, prev_val, filled, reading>>

\* rmhook: that of ifdata assigns the hook once more.
RmHook(n) ==
  /\ n \in made /\ hook[n] = "live"
  /\ hook' = [hook EXCEPT ![n] = IF n \in IfData THEN "gone" ELSE "null"]
  /\ UNCHANGED <<made, num_cores, prev_val, filled, reading>>
-----------------------------------------------------------------------------
(* cpuload: process_timer_msg.                                             *)

\* Variants of fill_prev: its buffer is kept when the cores have changed, or
\* has a row for the aggregate as well.
RoomKept(n, changed) == IF prev_val[n] = <<>> THEN num_cores ELSE Len(prev_val[n])

RoomForOneMore(n, changed) == Len(cores) + 1

\* The rows of prev_val when fill_prev returns: allocated anew if the cores
\* have changed or turn out to be more than were counted.
Room(n, changed) ==
  IF changed \/ Len(cores) > num_cores THEN Len(cores)
  ELSE IF prev_val[n] = <<>> THEN num_cores ELSE Len(prev_val[n])

\* A variant that stops one line early.
RowReadBelow(i) == i < Len(cores)

\* A row for each line of the file, in order, whatever core the line names.
RowRead(i) == i <= Len(cores)

\* fill_prev.
FillPrev(n, changed) ==
  LET last(i) == IF i \in DOMAIN prev_val[n] THEN prev_val[n][i] ELSE NoRow
  IN  /\ prev_val' = [prev_val EXCEPT ![n] =
            [i \in 1..Room(n, changed) |-> IF RowRead(i) THEN Row(cores[i], clock) ELSE last(i)]]
      /\ filled' = [filled EXCEPT ![n] = TRUE]
      /\ reading' = [reading EXCEPT ![n] = [at |-> clock, cores |-> cores]]
      /\ num_cores' = Len(cores)

\* The same without memory: the node is left without a buffer.
FillFails(n, changed) ==
  LET new == prev_val[n] = <<>>
  IN  /\ changed \/ new \/ Len(cores) > num_cores
      /\ prev_val' = [prev_val EXCEPT ![n] = <<>>]
      /\ filled' = [filled EXCEPT ![n] = FALSE]
      /\ num_cores' \in IF new /\ ~changed THEN {num_cores, Len(cores)} ELSE {Len(cores)}
      /\ UNCHANGED reading

\* "We have previous data, so ready to send".
Ready(n) == filled[n] /\ hook[n] # "null"

\* As many lines as were counted: the differences to the previous counters
\* are sent, which the new ones replace, line by line.
SendLoad(n) ==
  /\ Ready(n) /\ Len(cores) = num_cores
  /\ prev_val' = [prev_val EXCEPT ![n] =
       [i \in DOMAIN @ |-> IF i <= num_cores THEN Row(cores[i], clock) ELSE @[i]]]
  /\ reading' = [reading EXCEPT ![n] = [at |-> clock, cores |-> cores]]
  /\ UNCHANGED <<num_cores, filled>>

\* "OOPS": more lines or less.
CoresChanged(n) ==
  Ready(n) /\ Len(cores) # num_cores /\ (FillPrev(n, TRUE) \/ FillFails(n, TRUE))

\* "No previous data, or no hook to send."
FillOnly(n) == ~Ready(n) /\ (FillPrev(n, FALSE) \/ FillFails(n, FALSE))

\* The block cannot be allocated.
NoData(n) == Ready(n) /\ UNCHANGED <<num_cores, prev_val, filled, reading>>

TriggerCpuLoad(n) == SendLoad(n) \/ CoresChanged(n) \/ FillOnly(n) \/ NoData(n)
-----------------------------------------------------------------------------
\* memory, ifdata, edac, dummy: what was read is sent as it is, and not kept.
TriggerOther(n) == UNCHANGED <<num_cores, prev_val, filled, reading>>

\* TIMERTRIGGER.
TriggerSensor(n) ==
  /\ n \in made
  /\ IF n \in CpuLoad THEN TriggerCpuLoad(n) ELSE TriggerOther(n)
  /\ UNCHANGED <<made, hook>>

\* Cores are taken off-line or put back, perhaps one for another.
Hotplug ==
  /\ \E l \in Listings \ {cores} : cores' = l
  /\ UNCHANGED <<sensors, clock>>

Tick == clock < MaxClock /\ clock' = clock + 1 /\ UNCHANGED <<sensors, cores>>
-----------------------------------------------------------------------------
SensorInit ==
  /\ made = {} /\ hook = [n \in Sensor |-> "null"]
  /\ num_cores = 0 /\ prev_val = [n \in CpuLoad |-> <<>>]
  /\ filled = [n \in CpuLoad |-> FALSE]
  /\ reading = [n \in CpuLoad |-> [at |-> 0, cores |-> <<>>]]
  /\ cores \in Listings /\ clock = 1

SensorNext ==
  \/ Tick \/ Hotplug
  \/ \E n \in Sensor :
       (Create(n) \/ NewHook(n) \/ RmHook(n) \/ TriggerSensor(n)) /\ UNCHANGED machine

\* Sensors under commands that come at any time.
SensorSpec == SensorInit /\ [][SensorNext]_sensorVars
-----------------------------------------------------------------------------
\* "We have previous data, so ready to send": a filled buffer has a row for
\* every core that is going to be read.  The code keeps to this as long as
\* there is one cpuload node: num_cores belongs to all, the buffer to one.
PreviousDataIsThere ==
  \A n \in CpuLoad : filled[n] => Len(prev_val[n]) >= num_cores

\* What is sent are differences to one reading, the last one, whatever cores
\* and hooks have come and gone since, and of each core to its own counters,
\* unless the cores on-line have changed and not their number: of that the
\* code, in which the check of the cores' numbers is commented out, knows
\* nothing.
LoadsOfOneInterval ==
  [][\A n \in CpuLoad : SendLoad(n) =>
       \A i \in 1..num_cores :
         /\ i \in DOMAIN prev_val[n] /\ prev_val[n][i].at = reading[n].at
         /\ reading[n].cores = cores => prev_val[n][i].core = cores[i]]_sensorVars
=============================================================================
