SPECIFICATION Spec
CONSTANTS
  Shorts = {12, 15, 18}
  Full = 24
  MaxSignals = 3
  MaxPasswords = 3
  MaxLevel = 2
  Clients = {c1, c2}
  MaxConnections = 1
  MaxNested = 2
INVARIANTS
  MenuComesBackClean
  LeftClean
  SealedIsChecked
  AnsweredAsOne
  ResultIsTrue
  DialogRekeysTheWallet
  ServesTheChecked
  SelfTestIsTrue
  Protected
  ContainerIsTheirs
  MemoryIsThere
PROPERTY
  StopsAndConnectionsEnd
\* A process ends.
CHECK_DEADLOCK FALSE
