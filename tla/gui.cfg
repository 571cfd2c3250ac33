SPECIFICATION FairSpec
CONSTANTS
  MaxStarts = 3
  MaxRows = 3
  MaxConnects = 2
INVARIANTS TypeOK RowsInOrder NoThreadLeft
PROPERTIES EveryRowWritten WindowCloses
CHECK_DEADLOCK FALSE
