SPECIFICATION FairSpec
CONSTANTS
  MsgLens <- ShortLens
  Amnts <- Wanted
  Readers <- BothReaders
  SockBuf = 3
  InitialSize = 2
  IntMax = 31
  MaxEintr = 1
PROPERTY
  ReaderReturns
CHECK_DEADLOCK FALSE
