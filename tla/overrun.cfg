SPECIFICATION Spec
CONSTANTS
  MAX_STRIP_COUNT = 4
  MODBUS_BUFFER_LENGTH = 16
  FifoDepth = 8
  Frames <- MCOverrun
  Noise = {}
  Modbus_CRC16 <- CRC16
  Hasty = TRUE
  MaxAsked = 3
  MaxRounds = 0
  MaxDisturbed = 0
INVARIANTS HandledFramesWereSent
CHECK_DEADLOCK FALSE
