SPECIFICATION HarnessSpec
CONSTANTS
  w1 = w1
  w2 = w2
  KeyConn = key
  RegConn = reg
  GetConn = get
  ByeConn = bye
  Workers = {w1, w2}
  Conns = {key, reg, get, bye}
  ByeConns <- TheBye
  SilentConns <- NoSilence
  InvalidSd = InvalidSd
  NoOne = NoOne
  AcceptMayFail = FALSE
  BindMayFail = TRUE
INVARIANTS
  HarnessTypeOK
  SurprisedOnlyAtStop
  NoServerLeft
PROPERTY
  ScriptFinishes
CHECK_DEADLOCK FALSE
