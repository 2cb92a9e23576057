CONSTANTS
  Count = 3
  Workers = {w1, w2}
  None = none
  Caller = caller
SPECIFICATION FairSpec
INVARIANTS
  LowestMatchWins
  EachCandidateOnce
  StopIsHeard
PROPERTIES
  SearchEnds
CHECK_DEADLOCK FALSE
