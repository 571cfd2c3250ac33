SPECIFICATION FairSpec
CONSTANTS
  MAX_STRIP_COUNT = 4
  MODBUS_BUFFER_LENGTH = 16
  FifoDepth = 8
  Frames <- MCServed
  Noise = {}
  Modbus_CRC16 <- CRC16
  Hasty = FALSE
  MaxAsked = 3
  MaxRounds = 2
  MaxDisturbed = 0
INVARIANTS TypeOK HandledFramesWereSent AnswerIsFresh ExcitationAsAsked
PROPERTIES ServesRegisters EveryRequestAnswered AnswersVerify
CHECK_DEADLOCK FALSE
