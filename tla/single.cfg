CONSTANTS
  MAX_STRIP_COUNT = 4
  MuxPins = {1, 2}
  SoftwareAverageCount = 4
  Uint8 = 8
  PowerSources = {FALSE}
  TicksOnTime = TRUE
  TrackPins = TRUE
  MaxBacklog = 1
  MaxPreempted = 0
  Requests <- MCSingle
SPECIFICATION FairSpec
INVARIANTS TypeOK SamplesConserved WindowsBelongToStrip RoundsComplete MuxFollowsIndex IndexWithinAllocation
PROPERTIES StripRoundsSpec EveryStripMeasured
CHECK_DEADLOCK FALSE
