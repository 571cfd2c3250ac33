SPECIFICATION Spec
CONSTANTS
  MaxStarts = 2
  MaxRows = 2
  MaxConnects = 2
INVARIANTS OldDataDeleted
CHECK_DEADLOCK FALSE
