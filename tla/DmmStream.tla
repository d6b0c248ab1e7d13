----------------------------- MODULE DmmStream ------------------------------
(***************************************************************************)
(* A stream of data through the nodes of DmmBlocks.  Each host has a       *)
(* sensor whose blocks a prepend marks with the name of the host; a demux  *)
(* passes them on to the derivative of that host; the rates of all of them *)
(* go to one aggregateall, which a timer triggers.                         *)
(*                                                                         *)
(* Data is passed on by calls (DmmGraph), and none of these nodes calls    *)
(* back into the graph, so that a block goes all the way in one step.      *)
(* Between the blocks the nodes are set up anew and hooks come and go.     *)
(***************************************************************************)
EXTENDS DmmBlocks, FiniteSets, FiniteSetsExt

CONSTANTS
  Host,       \* the hosts, each of which is also the name of a hook of demux
  Blocks,     \* the blocks that a host's sensor sends
  Mark,       \* sensor ids for prepend and demux
  Used,       \* the types that the configuration gives to sensors
  Rate,       \* sensor ids for rates
  Average,    \* a sensor id for aggregates
  MaxTime,    \* bound on the number of blocks
  MaxChanges  \* bound on the changes made while data flows

SourceIds == UNION {SensorsOf(b) : b \in Blocks}

\* Sources send whole cells, and marks have ids of their own.
ASSUME StreamAssumption ==
  /\ MaxTime \in Nat /\ MaxChanges \in Nat /\ Used \subseteq Types
  /\ Mark \cap SourceIds = {} /\ NoId \notin Mark
  /\ \A b \in Blocks : b \in Seq([sensor : SensorsOf(b), data : Seq(0..(Base - 1))])

VARIABLES
  prepend,    \* the data node that each host's prepend adds, or NoNode
  demux,      \* [id, map]: the sensor id and the hooks of demux
  derivative, \* for each host [sensors, last, out]; out: is there an out hook?
  aggregate,  \* [sensors, data, out]
  sent,       \* what aggregateall sends in this step
  now,        \* the time; it goes on from block to block
  changes,    \* the number of changes made
  series,     \* history: of each host and sensor its last values, their time and
              \* the cells of one as the host sent them, the total that adds up
              \* from the rates, and the slack that their rounding leaves to it
  window      \* history: the values of each sensor that came to aggregateall

config == <<prepend, demux>>
history == <<series, window>>
vars == <<config, derivative, aggregate, sent, now, changes, history>>

Marker(h, id) == [sensor |-> id, data |-> h]

TypeOK ==
  /\ prepend \in [Host -> {NoNode} \cup {Marker(h, id) : h \in Host, id \in Mark}]
  /\ demux.id \in Mark \cup {NoId} /\ demux.map \subseteq Host
  /\ \A h \in Host : LET d == derivative[h] IN
       /\ DOMAIN d.sensors \subseteq SourceIds /\ d.out \in BOOLEAN
       /\ \A s \in DOMAIN d.sensors : d.sensors[s] \in [type : Used, dst : Rate]
       /\ \A s \in DOMAIN d.last : /\ d.last[s].at \in 1..now /\ d.last[s].count \in Nat
                                   /\ d.last[s].cells \in Seq(0..(Base - 1))
  /\ aggregate.out \in BOOLEAN /\ DOMAIN aggregate.sensors \subseteq Rate
  /\ \A s \in DOMAIN aggregate.data :
       LET a == aggregate.data[s]
       IN  a.num \in Nat /\ (a.finite => a.min * a.num <= a.sum /\ a.sum <= a.max * a.num)
  /\ now \in 0..MaxTime /\ changes \in 0..MaxChanges
-----------------------------------------------------------------------------
(* Data.                                                                   *)

\* History: a data node goes on with a series if it has as many elements of the
\* same width as the one before, and some time has passed.
GoesOn(e, n, size, t) ==
  /\ n.sensor \in DOMAIN e /\ e[n.sensor].size = size /\ e[n.sensor].at < t
  /\ Count(size, e[n.sensor].values) = Count(size, n.data)

\* History: a series after a data node.  Each element's total, in units of
\* 1/RateUnit, begins with its value; then the rates, if the derivative has made
\* any from the last values it has, are added, each for the time it is for.
Extended(e, sensors, last, n, t) ==
  LET r == e[n.sensor]
      type == sensors[n.sensor].type
      size == Size(type)
      rate == RateOf(sensors, last, n, t)
      exact(i) == RateUnit * Difference(type, Element(n.data, size, i), Element(r.values, size, i))
  IN  [at |-> t, values |-> n.data, size |-> size,
       total |-> [i \in 1..Count(size, n.data) |->
         IF ~GoesOn(e, n, size, t) THEN RateUnit * Element(n.data, size, i)
         ELSE IF ~Comparable(sensors, last, n) THEN r.total[i]
         ELSE r.total[i] + rate[i] * (t - r.at)],
       slack |-> [i \in 1..Count(size, n.data) |->
         IF ~GoesOn(e, n, size, t) THEN 0
         ELSE r.slack[i] + Spacing(exact(i) \div (t - r.at)) * (t - r.at)]]

\* History: the series of a host after a block.
Continued(h, b, t) ==
  LET d == derivative[h]
      after == Progress(d, b, t)
      upTo[i \in 0..Len(b)] ==
        IF i = 0 THEN series[h]
        ELSE IF b[i].sensor \notin DOMAIN d.sensors THEN upTo[i - 1]
        ELSE Put(upTo[i - 1], b[i].sensor,
                 Extended(upTo[i - 1], d.sensors, after[i - 1].last, b[i], t))
  IN  upTo[Len(b)]

\* History: what arrives at aggregateall.
Arrived(b) ==
  LET known == SensorsOf(b) \cap DOMAIN aggregate.sensors
  IN  [s \in DOMAIN window \cup known |->
         (IF s \in DOMAIN window THEN window[s] ELSE <<>>) \o ValuesOf(b, s)]

Tick == now < MaxTime /\ now' = now + 1 /\ sent' = EmptyMap /\ UNCHANGED <<config, changes>>

\* A block that demux has no hook for.
SampleDropped(h, b) ==
  /\ Tick
  /\ Route(demux.id, demux.map, Prepended(prepend[h], b)) = {}
  /\ UNCHANGED <<derivative, aggregate, history>>

\* Has the derivative something to send, and a hook to send it through?
Sends(d, rates) == d.out /\ rates # <<>>

\* A block that reaches the derivative of host r, and its rates aggregateall.
\* What the program does after it has written beyond a buffer is not modelled.
Sample(h, b) ==
  LET marked == Prepended(prepend[h], b)
  IN  /\ Tick
      /\ \E r \in Route(demux.id, demux.map, marked) :
           LET block == Unmarked(demux.id, marked)
               after == Progress(derivative[r], block, now')[Len(block)]
           IN  /\ after.fits
               /\ derivative' = [derivative EXCEPT ![r].last = after.last]
               /\ IF Sends(derivative[r], after.rates)
                  THEN /\ aggregate' = [aggregate EXCEPT !.data =
                                          Aggregated(aggregate, after.rates)]
                       /\ window' = Arrived(after.rates)
                  ELSE UNCHANGED <<aggregate, window>>
      /\ series' = [series EXCEPT ![h] = Continued(h, b, now')]

\* A variant that keeps the aggregates when there is no hook to send them through.
CollectedUnlessUnsent == IF aggregate.out THEN EmptyMap ELSE aggregate.data

\* process_timer_msg: the aggregates begin anew, also if they could not be sent.
Collected == EmptyMap

Trigger ==
  /\ sent' = IF aggregate.out THEN Summary(aggregate) ELSE EmptyMap
  /\ aggregate' = [aggregate EXCEPT !.data = Collected]
  /\ window' = EmptyMap
  /\ UNCHANGED <<config, derivative, now, changes, series>>
-----------------------------------------------------------------------------
(* Changes by the configuration script, between the blocks.                *)

Change == /\ changes < MaxChanges /\ changes' = changes + 1
          /\ sent' = EmptyMap /\ UNCHANGED now

PrependSet(h, id) ==
  /\ Change /\ prepend' = [prepend EXCEPT ![h] = Marker(h, id)]
  /\ UNCHANGED <<demux, derivative, aggregate, history>>

PrependClear(h) ==
  /\ Change /\ prepend' = [prepend EXCEPT ![h] = NoNode]
  /\ UNCHANGED <<demux, derivative, aggregate, history>>

DemuxSet(id) ==
  /\ Change /\ demux' = [demux EXCEPT !.id = id]
  /\ UNCHANGED <<prepend, derivative, aggregate, history>>

\* One message may describe several sensors (descs).
DerivativeSetMsg(h, descs) ==
  /\ Change
  /\ derivative' = [derivative EXCEPT ![h] = DerivativeSet(@, descs)]
  /\ series' = [series EXCEPT ![h] = Without(@, Dropped(descs))]
  /\ UNCHANGED <<config, aggregate, window>>

DerivativeClearMsg(h) ==
  /\ Change
  /\ derivative' = [derivative EXCEPT ![h] = DerivativeClear(@)]
  /\ series' = [series EXCEPT ![h] = EmptyMap]
  /\ UNCHANGED <<config, aggregate, window>>

AggregateSetMsg(descs) ==
  /\ Change
  /\ aggregate' = AggregateSet(aggregate, descs)
  /\ window' = Without(window, Dropped(descs))
  /\ UNCHANGED <<config, derivative, series>>

AggregateClearMsg ==
  /\ Change /\ aggregate' = AggregateClear(aggregate) /\ window' = EmptyMap
  /\ UNCHANGED <<config, derivative, series>>

\* The hooks to the derivatives, from them and from aggregateall.
NewHook ==
  /\ Change /\ UNCHANGED <<prepend, history>>
  /\ \/ \E h \in Host \ demux.map :
          /\ demux' = [demux EXCEPT !.map = @ \cup {h}] /\ UNCHANGED <<derivative, aggregate>>
     \/ \E h \in Host :
          /\ ~derivative[h].out /\ derivative' = [derivative EXCEPT ![h].out = TRUE]
          /\ UNCHANGED <<demux, aggregate>>
     \/ /\ ~aggregate.out /\ aggregate' = [aggregate EXCEPT !.out = TRUE]
        /\ UNCHANGED <<demux, derivative>>

RmHook ==
  /\ Change /\ UNCHANGED <<prepend, history>>
  /\ \/ \E h \in demux.map :
          /\ demux' = [demux EXCEPT !.map = @ \ {h}] /\ UNCHANGED <<derivative, aggregate>>
     \/ \E h \in Host :
          /\ derivative[h].out /\ derivative' = [derivative EXCEPT ![h].out = FALSE]
          /\ UNCHANGED <<demux, aggregate>>
     \/ /\ aggregate.out /\ aggregate' = [aggregate EXCEPT !.out = FALSE]
        /\ UNCHANGED <<demux, derivative>>
-----------------------------------------------------------------------------
Descs(S, D) == UNION {[T -> D] : T \in SUBSET S \ {{}}}
SensorDesc == [type : Used, dst : Rate] \cup [type : {"NONE"}, dst : {NoId}]
RateDesc == [type : {"FLOAT"}, dst : {Average}] \cup [type : {"NONE"}, dst : {NoId}]

\* The configuration has been run and data is about to flow.
Init ==
  /\ \E id \in Mark : /\ prepend = [h \in Host |-> Marker(h, id)]
                      /\ demux = [id |-> id, map |-> Host]
  /\ \E type \in Used, dst \in [SourceIds -> Rate] :
       derivative = [h \in Host |->
         [sensors |-> [s \in SourceIds |-> [type |-> type, dst |-> dst[s]]],
          last |-> EmptyMap, out |-> TRUE]]
  /\ aggregate = [sensors |-> [s \in Rate |-> [type |-> "FLOAT", dst |-> Average]],
                  data |-> EmptyMap, out |-> TRUE]
  /\ sent = EmptyMap /\ now = 0 /\ changes = 0
  /\ series = [h \in Host |-> EmptyMap] /\ window = EmptyMap

Next ==
  \/ \E h \in Host, b \in Blocks : SampleDropped(h, b) \/ Sample(h, b)
  \/ Trigger
  \/ \E h \in Host, id \in Mark : PrependSet(h, id)
  \/ \E h \in Host : PrependClear(h) \/ DerivativeClearMsg(h)
  \/ \E id \in Mark \cup {NoId} : DemuxSet(id)
  \/ \E h \in Host, descs \in Descs(SourceIds, SensorDesc) : DerivativeSetMsg(h, descs)
  \/ \E descs \in Descs(Rate, RateDesc) : AggregateSetMsg(descs)
  \/ AggregateClearMsg
  \/ NewHook
  \/ RmHook

Spec == Init /\ [][Next]_vars
-----------------------------------------------------------------------------
\* A derivative compares a host's values with the last that this host sent,
\* and with none that were sent before the sensor was dropped, however marks,
\* hooks and settings change; what its buffer holds beyond them does not count
\* (last_values).
HostsApart ==
  \A h \in Host :
    /\ DOMAIN derivative[h].last = DOMAIN series[h]
    /\ \A s \in DOMAIN series[h] :
         LET l == derivative[h].last[s]
             r == series[h][s]
         IN  /\ l.at = r.at /\ l.count = Count(r.size, r.values)
             /\ Len(r.values) <= Len(l.cells) /\ \A i \in DOMAIN r.values : l.cells[i] = r.values[i]

\* a and b differ by no more than half of slack, but for a multiple of M.
Near(a, b, M, slack) ==
  LET gap == (2 * (a - b)) % (2 * M) IN gap <= slack \/ 2 * M - gap <= slack

\* The rates of a sensor, each taken for the time since the value before it,
\* add up to the difference of its values, but for the rounding of each: over
\* gaps in the stream, wrapped counters, changes of signedness and buffers that
\* are longer than the values, none is lost or counted twice.  A change of the
\* width or the number of elements, or no time between two, begins a series
\* anew (derivative.cc, rcvdata).
RatesAddUp ==
  \A h \in Host : \A s \in DOMAIN series[h] :
    LET r == series[h][s]
    IN  \A i \in DOMAIN r.total :
          Near(r.total[i], RateUnit * Element(r.values, r.size, i),
               RateUnit * Modulus(r.size), r.slack[i])

\* Only sensors that are set up have last values or aggregates: rcvdata and
\* process_timer_msg look their settings up without asking.
OnlyConfigured ==
  /\ \A h \in Host : DOMAIN derivative[h].last \subseteq DOMAIN derivative[h].sensors
  /\ DOMAIN aggregate.data \subseteq DOMAIN aggregate.sensors

\* The sum of the first i of some values, and of all of them.
Number(x) == IF x = NotFinite THEN 0 ELSE x
Sums(v) ==
  LET sum[i \in 0..Len(v)] == IF i = 0 THEN 0 ELSE sum[i - 1] + Number(v[i]) IN sum
SumOf(v) == Sums(v)[Len(v)]

\* What aggregateall sends when it is triggered is the minimum, the average and
\* the maximum of exactly the values that came since it was triggered last or
\* the sensor was set up, whether or not the aggregates could be sent then.  Of
\* no value, or if one was not finite, no more than their number is said.
SummaryOf(v) ==
  IF v = <<>> \/ NotFinite \in ToSet(v) THEN Unknown(Len(v))
  ELSE [min |-> Min(ToSet(v)), max |-> Max(ToSet(v)), sum |-> SumOf(v), num |-> Len(v),
        finite |-> TRUE]
SummariesAreWhole ==
  [][Trigger /\ aggregate.out =>
       sent' = [s \in DOMAIN window |->
                  [dst |-> aggregate.sensors[s].dst, value |-> SummaryOf(window[s])]]]_vars
===========================================================================
