----------------------------- MODULE DmmBlocks ------------------------------
(***************************************************************************)
(* What the nodes that rewrite data make of a block: prepend, demux,       *)
(* derivative and aggregateall.  Each handler is an operator on the node's *)
(* private data and the block, without the graph around it.                *)
(*                                                                         *)
(* A block is a sequence of data nodes [sensor, data]; the end mark is     *)
(* left out.  The data of a source is a sequence of cells of 4 bytes, of   *)
(* which an element takes one or two, the lower first; what they mean is   *)
(* up to the type that a node is told to read them with.  Rates are whole  *)
(* multiples of 1/RateUnit, rounded like the floats they stand for.        *)
(***************************************************************************)
EXTENDS Integers, Sequences, SequencesExt

CONSTANTS
  Base,      \* the number of values of a cell, 2^32 in the code
  RateUnit,  \* rates are counted in units of 1/RateUnit
  Precision, \* rates are exact to a unit up to so many of them, then to two, ...
  NotFinite, \* a rate over no time: infinite or not a number
  NoNode,    \* stands for pvt->dn = NULL in prepend
  NoId       \* the sensor id 0, which no data node has

ASSUME BlocksAssumption ==
  /\ Base \in Nat \ {0} /\ RateUnit \in Nat \ {0} /\ Precision \in Nat \ {0}
  /\ NotFinite \notin Int

\* dmm_derivative_sensor_type without NONE, and the cells of an element
\* (type2size).
Types == {"INT32", "UINT32", "INT64", "UINT64", "FLOAT", "DOUBLE"}
Size(type) == IF type \in {"INT64", "UINT64", "DOUBLE"} THEN 2 ELSE 1

\* The bit patterns of an element, the number of elements in some cells and
\* the i-th of them.
Modulus(size) == IF size = 1 THEN Base ELSE Base * Base
Count(size, cells) == Len(cells) \div size
Element(cells, size, i) ==
  IF size = 1 THEN cells[i] ELSE cells[2 * i - 1] + Base * cells[2 * i]

Put(f, s, x) == [t \in DOMAIN f \cup {s} |-> IF t = s THEN x ELSE f[t]]
EmptyMap == [s \in {} |-> {}]
Without(f, S) == [s \in DOMAIN f \ S |-> f[s]]
SensorsOf(b) == {b[i].sensor : i \in DOMAIN b}
-----------------------------------------------------------------------------
(* prepend puts its data node in front of the block, demux takes the first *)
(* data node of its sensor out again and chooses the hook by its value.    *)

Prepended(dn, b) == IF dn = NoNode THEN b ELSE <<dn>> \o b

\* The place of the node that demux looks for, if there is one.
Marks(id, b) == {i \in DOMAIN b : b[i].sensor = id}
FirstMark(id, b) == CHOOSE i \in Marks(id, b) : \A j \in Marks(id, b) : i <= j

\* The hook (at most one) that rcvdata of demux sends the block through.
Route(id, map, b) ==
  IF id = NoId \/ Marks(id, b) = {} THEN {} ELSE map \cap {b[FirstMark(id, b)].data}

Unmarked(id, b) == RemoveAt(b, FirstMark(id, b))
-----------------------------------------------------------------------------
(* derivative: d.sensors says how a sensor is treated, d.last[s] what it   *)
(* sent last: when (at), how many elements (count) and the buffer they are *)
(* in (cells), which may be longer than they are.                          *)

\* difference<T>: unsigned values wrap; so do signed ones in the builds this
\* is made for, where the standard leaves the result of an overflow open.
Difference(type, cur, prev) ==
  LET M == Modulus(Size(type))
      d == (cur - prev) % M
  IN  CASE type \in {"UINT32", "UINT64"} -> d
        [] type \in {"INT32", "INT64"}   -> IF 2 * d >= M THEN d - M ELSE d
        [] type \in {"FLOAT", "DOUBLE"}  -> cur - prev

\* The multiple of 1/RateUnit, of those that floats can tell apart at this
\* size, that is nearest to a/b of them.
Spacing(q) == 1 + (IF q < 0 THEN -q ELSE q) \div Precision
Rounded(a, b) ==
  LET g == Spacing(a \div b) IN g * ((2 * a + b * g) \div (2 * b * g))

\* Is there a last value that the data node can be compared with?  Only the
\* number of elements is asked for.
Comparable(sensors, last, n) ==
  /\ n.sensor \in DOMAIN sensors \cap DOMAIN last
  /\ last[n.sensor].count = Count(Size(sensors[n.sensor].type), n.data)

\* The last values are read, and overwritten, with the length of the new ones,
\* which may be beyond their buffer if the sensor was told to be of another
\* width in between.
Fits(sensors, last, n) ==
  Comparable(sensors, last, n) => Len(n.data) <= Len(last[n.sensor].cells)

\* The vector of the changes since the last values, by the time between them.
RateOf(sensors, last, n, now) ==
  LET l == last[n.sensor]
      type == sensors[n.sensor].type
      diff(i) == Difference(type, Element(n.data, Size(type), i), Element(l.cells, Size(type), i))
  IN  [i \in 1..l.count |-> IF now = l.at THEN NotFinite
                            ELSE Rounded(RateUnit * diff(i), now - l.at)]

\* A variant that keeps the time of the value a series began with.
RememberedFirst(sensors, last, n, now) ==
  LET room == last[n.sensor].cells
      size == Size(sensors[n.sensor].type)
  IN  [at |-> IF Comparable(sensors, last, n) THEN last[n.sensor].at ELSE now,
       count |-> Count(size, n.data),
       cells |-> IF Comparable(sensors, last, n)
                 THEN n.data \o SubSeq(room, Len(n.data) + 1, Len(room)) ELSE n.data]

\* last_values of the data node's sensor: what can be compared is overwritten,
\* anything else gets a buffer of its own length.
Remembered(sensors, last, n, now) ==
  LET room == last[n.sensor].cells
      size == Size(sensors[n.sensor].type)
  IN  [at |-> now, count |-> Count(size, n.data),
       cells |-> IF Comparable(sensors, last, n)
                 THEN n.data \o SubSeq(room, Len(n.data) + 1, Len(room)) ELSE n.data]

\* One data node: rates holds what has been made of those before it, and fits
\* whether none was beyond its buffer; after one that was, nothing is said.
Taken(sensors, p, n, now) ==
  IF n.sensor \notin DOMAIN sensors \/ ~p.fits THEN p
  ELSE IF ~Fits(sensors, p.last, n) THEN [last |-> p.last, rates |-> p.rates, fits |-> FALSE]
  ELSE [last  |-> Put(p.last, n.sensor, Remembered(sensors, p.last, n, now)),
        rates |-> IF ~Comparable(sensors, p.last, n) THEN p.rates
                  ELSE Append(p.rates, [sensor |-> sensors[n.sensor].dst,
                                        data |-> RateOf(sensors, p.last, n, now)]),
        fits  |-> TRUE]

\* rcvdata: what the derivative keeps, and the rates it sends if there are
\* any, after each data node of a block.
Progress(d, b, now) ==
  LET after[i \in 0..Len(b)] ==
        IF i = 0 THEN [last |-> d.last, rates |-> <<>>, fits |-> TRUE]
        ELSE Taken(d.sensors, after[i - 1], b[i], now)
  IN  after

\* A variant of merge_sensor_desc that forgets how a sensor is treated, but
\* not its last values.
LastKept(d, descs) == d.last

\* The sensors that merge_sensor_desc drops, and what is left of the last values.
Dropped(descs) == {s \in DOMAIN descs : descs[s].type = "NONE"}
LastAfter(d, descs) == Without(d.last, Dropped(descs))

\* DERIVATIVE_SET and DERIVATIVE_CLEAR.
Described(sensors, descs) ==
  [s \in (DOMAIN sensors \cup DOMAIN descs) \ Dropped(descs) |->
     IF s \in DOMAIN descs THEN descs[s] ELSE sensors[s]]
DerivativeSet(d, descs) ==
  [d EXCEPT !.sensors = Described(@, descs), !.last = LastAfter(d, descs)]
DerivativeClear(d) == [d EXCEPT !.sensors = EmptyMap, !.last = EmptyMap]
-----------------------------------------------------------------------------
(* aggregateall: g.sensors says how a sensor is treated, g.data holds the  *)
(* aggregate of what it sent since the last trigger.                       *)

\* agg_data_t(): the least and the greatest double are never seen, as what is
\* made of no value is not shown.  Neither are the extremes and the sum once a
\* value was not finite.
NoData == [min |-> 0, sum |-> 0, max |-> 0, num |-> 0, finite |-> TRUE]
Unknown(num) == [min |-> 0, sum |-> 0, max |-> 0, num |-> num, finite |-> FALSE]

\* A variant of update_data that counts a value only when it is an extreme.
WidenedUncounted(a, x) ==
  IF ~a.finite \/ x = NotFinite THEN Unknown(a.num + 1)
  ELSE [min |-> IF a.num = 0 \/ x < a.min THEN x ELSE a.min, sum |-> a.sum + x,
        max |-> IF a.num = 0 \/ x > a.max THEN x ELSE a.max, finite |-> TRUE,
        num |-> IF a.num = 0 \/ x < a.min \/ x > a.max THEN a.num + 1 ELSE a.num]

\* update_data.
Widened(a, x) ==
  IF ~a.finite \/ x = NotFinite THEN Unknown(a.num + 1)
  ELSE [min |-> IF a.num = 0 \/ x < a.min THEN x ELSE a.min, sum |-> a.sum + x,
        max |-> IF a.num = 0 \/ x > a.max THEN x ELSE a.max, finite |-> TRUE,
        num |-> a.num + 1]

\* The aggregate after some values.
WidenedBy(a, values) ==
  LET upTo[i \in 0..Len(values)] ==
        IF i = 0 THEN a ELSE Widened(upTo[i - 1], values[i])
  IN  upTo[Len(values)]

\* The values of sensor s in a block that may hold several data nodes of it.
ValuesOf(b, s) ==
  LET upTo[i \in 0..Len(b)] ==
        IF i = 0 THEN <<>>
        ELSE IF b[i].sensor = s THEN upTo[i - 1] \o b[i].data ELSE upTo[i - 1]
  IN  upTo[Len(b)]

\* agg_data after rcvdata.
Aggregated(g, b) ==
  LET known == SensorsOf(b) \cap DOMAIN g.sensors
      before(s) == IF s \in DOMAIN g.data THEN g.data[s] ELSE NoData
  IN  [s \in DOMAIN g.data \cup known |-> WidenedBy(before(s), ValuesOf(b, s))]

\* What process_timer_msg sends: a data node for each sensor (shown here by
\* the sensor it is of), its average as the sum and the number of values.  The
\* average of no value is not a number.
Summary(g) ==
  [s \in DOMAIN g.data |->
     LET a == g.data[s]
     IN  [dst |-> g.sensors[s].dst, value |-> IF a.num = 0 THEN Unknown(0) ELSE a]]

\* A variant of merge_sensor_desc that keeps the aggregate of a dropped sensor.
DataKept(g, descs) == g.data

DataAfter(g, descs) == Without(g.data, Dropped(descs))

\* AGGREGATEALL_SET and AGGREGATEALL_CLEAR.
AggregateSet(g, descs) ==
  [g EXCEPT !.sensors = Described(@, descs), !.data = DataAfter(g, descs)]
AggregateClear(g) == [g EXCEPT !.sensors = EmptyMap, !.data = EmptyMap]
===========================================================================
