SPECIFICATION ClientFairSpec
CONSTANTS
  OutCap = 1
  MaxClients = 3
  MaxAtKill = 2
INVARIANTS
  ClientTypeOK
  OneConnection
  ReaderPanicsOnlyIfRunLeftFirst
  OneLastClient
PROPERTIES
  ReadErrorEndsRun
  EncodeErrorIsFatal
CHECK_DEADLOCK FALSE
