\* Two hosts, one mark, one rate; three blocks in time, two changes.
SPECIFICATION Spec
CONSTANTS
  h1 = h1
  h2 = h2
  s1 = s1
  s2 = s2
  Host = {h1, h2}
  Blocks <- ThreeBlocks
  Mark = {mark}
  Used = {"INT32", "UINT64", "FLOAT"}
  Rate = {rate}
  Average = avg
  Base = 4
  RateUnit = 3
  Precision = 8
  NotFinite = NotFinite
  NoNode = NoNode
  NoId = NoId
  MaxTime = 3
  MaxChanges = 2
INVARIANTS
  TypeOK
  HostsApart
  RatesAddUp
  OnlyConfigured
PROPERTY SummariesAreWhole
SYMMETRY Symmetry
CHECK_DEADLOCK FALSE
