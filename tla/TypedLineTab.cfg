SPECIFICATION Spec
CONSTANTS
  Columns = 3
  Starts = {1}
  Capacity = 2
  MaxHint = 0
  OfWords = TRUE
INVARIANT
  RestIsDropped
CHECK_DEADLOCK FALSE
