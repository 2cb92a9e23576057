CONSTANTS
  Opens = {o1, o2, o3}
  Passwords = {p1, p2}
  None = none
SPECIFICATION FairSpec
INVARIANTS
  OpensInTurn
PROPERTIES
  SessionEnds
CHECK_DEADLOCK FALSE
