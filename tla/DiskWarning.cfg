SPECIFICATION Spec
CONSTANT MaxLevel = 2
INVARIANT ReadBeforeGoingOn
\* A command ends.
CHECK_DEADLOCK FALSE
