CONSTANTS
  MAX_STRIP_COUNT = 2
  MuxPins = {1}
  SoftwareAverageCount = 2
  Uint8 = 4
  PowerSources = {FALSE}
  TicksOnTime = TRUE
  TrackPins = TRUE
  MaxBacklog = 1
  MaxPreempted = 0
  Requests <- MCRestart
SPECIFICATION Spec
INVARIANT DivisorMatchesWindows
CHECK_DEADLOCK FALSE
