CONSTANTS
  MAX_STRIP_COUNT = 2
  MuxPins = {1}
  SoftwareAverageCount = 2
  Uint8 = 3
  PowerSources = {FALSE, TRUE}
  TicksOnTime = TRUE
  TrackPins = FALSE
  MaxBacklog = 1
  MaxPreempted = 0
  Requests <- MCRestart
SPECIFICATION FairSpec
INVARIANTS IndexBelowStrips InStepAgain
PROPERTIES RoundsExactAgain ResultsRecover
CHECK_DEADLOCK FALSE
