SPECIFICATION FairDialogue
CONSTANTS
  c1 = c1
  c2 = c2
  ann = ann
  right = right
  photo = photo
  Clients = {c1, c2}
  Users = {ann}
  Passwords = {right}
  Profiles = {photo}
  Nobody = Nobody
  Requests <- SomeRequests
  Oversize = Oversize
  OldFiles <- AnnsFile
  NoFile = NoFile
  Torn = Torn
  Absent = Absent
  NoData = NoData
  Nothing = Nothing
  Garbled = Garbled
  CryptoMayFail = TRUE
INVARIANTS
  DialogueTypeOK
  ContextsReclaimed
PROPERTIES
  ImplementsDirectory
  EveryCallReturns
CHECK_DEADLOCK FALSE
