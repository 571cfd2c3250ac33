SPECIFICATION Spec
CONSTANTS
  MAX_STRIP_COUNT = 4
  MODBUS_BUFFER_LENGTH = 16
  FifoDepth = 8
  Frames <- MCNoisy
  Noise = {0, 16}
  Modbus_CRC16 <- CRC16
  Hasty = TRUE
  MaxAsked = 3
  MaxRounds = 1
  MaxDisturbed = 1
INVARIANTS PeripheralsFollowParameters ParametersFollowRegisters LengthNotPassed DivisorsNotZero
CHECK_DEADLOCK FALSE
