\* Two cpuload nodes of one process, on a machine of up to three cores.
SPECIFICATION SensorSpec
CONSTANTS
  Sensor = {cpu1, cpu2}
  CpuLoad = {cpu1, cpu2}
  IfData = {}
  Listings <- SomeCores
  MaxClock = 4
SYMMETRY Symmetry
INVARIANT PreviousDataIsThere
CHECK_DEADLOCK FALSE
