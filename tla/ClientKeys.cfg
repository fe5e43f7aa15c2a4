SPECIFICATION ClientSpec
CONSTANTS
  s1 = s1
  k1 = k1
  k2 = k2
  a = a
  b = b
  Procs = {s1}
  Keys = {k1, k2}
  Clients = {a, b}
  NoServer = NoServer
  NoFile = NoFile
  Empty = Empty
  Torn = Torn
  Overlap = FALSE
  FlushMayFail = FALSE
SYMMETRY ClientSymmetry
INVARIANTS
  ClientTypeOK
  TypeOK
  ServedPairMatches
PROPERTIES
  CompletePairKept
  UnreadOnlyIfRekeyed
  CrashOnlyIfDisturbed
