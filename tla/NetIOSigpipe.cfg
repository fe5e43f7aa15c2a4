SPECIFICATION Spec
CONSTANTS
  MsgLens <- ShortLens
  Amnts <- Wanted
  Readers <- BothReaders
  SockBuf = 3
  InitialSize = 2
  IntMax = 31
  MaxEintr = 0
INVARIANT
  SenderIsAnswered
CHECK_DEADLOCK FALSE
