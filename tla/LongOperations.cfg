CONSTANTS
  Long = {l1, l2}
  SelfTests = {t}
  Quick = {q}
  NoCall = none
  MaxChecks = 2
SPECIFICATION FairSpec
INVARIANTS
  OneAtATime
  WhatEndedStaysEnded
PROPERTIES
  NothingBeginsUnchecked
  ChecksAgain
  EveryCallSettles
CHECK_DEADLOCK FALSE
