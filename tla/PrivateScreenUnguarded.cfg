SPECIFICATION Spec
CONSTANT MaxNested = 2
INVARIANT
  NothingAfterLeaving
CHECK_DEADLOCK FALSE
