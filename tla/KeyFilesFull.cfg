SPECIFICATION Spec
CONSTANTS
  s1 = s1
  s2 = s2
  k1 = k1
  k2 = k2
  Procs = {s1, s2}
  Keys = {k1, k2}
  NoFile = NoFile
  Empty = Empty
  Torn = Torn
  Overlap = FALSE
  FlushMayFail = TRUE
INVARIANT
  GenerateTrueMeansSaved
