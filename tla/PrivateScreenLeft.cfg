SPECIFICATION Spec
CONSTANT MaxNested = 2
INVARIANT
  NoSecretIsLeft
CHECK_DEADLOCK FALSE
