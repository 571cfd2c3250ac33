CONSTANTS
  MAX_STRIP_COUNT = 2
  MuxPins = {1}
  SoftwareAverageCount = 2
  Uint8 = 4
  PowerSources = {FALSE}
  TicksOnTime = FALSE
  TrackPins = FALSE
  MaxBacklog = 0
  MaxPreempted = 1
  Requests <- MCTwoStrips
SPECIFICATION FairSpec
PROPERTIES DivisorRecovers
CHECK_DEADLOCK FALSE
