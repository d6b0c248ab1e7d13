\* The five triggers of the script and one more, on a machine of up to three cores.
SPECIFICATION Spec
CONSTANTS
  ifdata = ifdata
  cpuload = cpuload
  dbgprinter = dbgprinter
  timer = timer
  self = self
  NoCmd = NoCmd
  Sensor = {ifdata, cpuload}
  CpuLoad = {cpuload}
  IfData = {ifdata}
  Listings <- SomeCores
  MaxClock = 7
INVARIANTS
  StarterTypeOK
  CommandsSound
  DoneInOrder
PROPERTIES
  LoadsOfOneInterval
  TimerStops
CHECK_DEADLOCK FALSE
