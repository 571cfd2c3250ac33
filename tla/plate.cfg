SPECIFICATION FairSpec
CONSTANTS
  MAX_ARRAY_SIZE = 6
  SAMPLE_RATE = 25
  LOWEST_FREQ_POSSIBLE = 4000
  OPAMP_GAIN = 7
  SineLevels = {0, 8191, 16383}
  Requests <- MCWaves
  MaxRequests = 2
INVARIANTS TypeOK IndexWithinArray BufferScaled TriangleTurnsOnce
PROPERTIES WavePlayed
CHECK_DEADLOCK FALSE
