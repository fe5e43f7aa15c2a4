SPECIFICATION FairSpec
CONSTANTS
  MsgLens <- Lens
  Amnts <- Wanted
  Readers <- BothReaders
  SockBuf = 3
  InitialSize = 2
  IntMax = 31
  MaxEintr = 2
INVARIANTS
  TypeOK
  StreamIntact
  RecvHasRoom
  ReadsWhole
  TrueMeansSent
PROPERTY
  StreamReaderReturns
CHECK_DEADLOCK FALSE
