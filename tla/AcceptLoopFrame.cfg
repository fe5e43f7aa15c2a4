SPECIFICATION Spec
CONSTANTS
  w1 = w1
  w2 = w2
  w3 = w3
  c1 = c1
  c2 = c2
  c3 = c3
  Workers = {w1, w2}
  Conns = {c1, c2, c3}
  ByeConns <- OneBye
  SilentConns <- Nobody
  InvalidSd = InvalidSd
  NoOne = NoOne
  AcceptMayFail = FALSE
  BindMayFail = FALSE
INVARIANT
  ShutdownHandlerInFrame
CHECK_DEADLOCK FALSE
