SPECIFICATION FairLaunch
CONSTANTS
  Texts <- MCTexts
  Atoi <- TextValues
  Garbage <- SomeGarbage
  LoadResults <- AnyResult
  DefaultThreads = 1
  PortTexts <- FewTexts
  PortAtoi <- FewValues
INVARIANTS
  LaunchTypeOK
  SocketClosedOnce
  HandlerHasCaptures
  TidyExit
  SignalForAReason
PROPERTIES
  ServerEnds
  LeftByChance
  ClientServed
  ClientReturns
CHECK_DEADLOCK FALSE
