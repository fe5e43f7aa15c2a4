SPECIFICATION FairSpec
CONSTANTS
  w1 = w1
  w2 = w2
  w3 = w3
  c1 = c1
  c2 = c2
  c3 = c3
  Workers = {w1, w2, w3}
  Conns = {c1, c2, c3}
  ByeConns <- TwoByes
  SilentConns <- Silent
  InvalidSd = InvalidSd
  NoOne = NoOne
  AcceptMayFail = TRUE
  BindMayFail = TRUE
INVARIANTS
  TypeOK
  OpenIffOwned
  SingleOwner
  InvalidNeverHandled
  NoLostWakeup
  NoSleeperWhileWaiting
  ShutDownIsAnnounced
  QuiescentCleanup
PROPERTIES
  ImplementsService
  HaltLeadsToExit
  AcceptedIsServed
CHECK_DEADLOCK FALSE
