SPECIFICATION Spec
CONSTANTS
  Capacity = 5
  Hurried = TRUE
INVARIANT
  DigitIsPressed
CHECK_DEADLOCK FALSE
