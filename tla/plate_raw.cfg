SPECIFICATION Spec
CONSTANTS
  MAX_ARRAY_SIZE = 6
  SAMPLE_RATE = 25
  LOWEST_FREQ_POSSIBLE = 4000
  OPAMP_GAIN = 7
  SineLevels = {0, 8191, 16383}
  Requests <- MCSameAmplitude
  MaxRequests = 2
INVARIANTS OutputScaled
CHECK_DEADLOCK FALSE
