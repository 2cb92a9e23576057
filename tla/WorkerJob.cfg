CONSTANTS
  MaxNews = 2
  MaxAsks = 2
SPECIFICATION FairSpec
INVARIANTS
  TimerDiscipline
  NoForeignResult
  SecretsLeaveThePage
PROPERTIES
  NeverKilledWhileLoading
  Settles
  KeepsContract
CHECK_DEADLOCK FALSE
