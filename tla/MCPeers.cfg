SPECIFICATION PeersFairSpec
CONSTANTS
  PeerIds = {p1}
  Nil = Nil
  Lists <- OneOrNone
  Callers = TRUE
  NewCap = 1
  RemoveCap = 1
  OutCap = 1
  MaxConns = 2
INVARIANTS
  PeersTypeOK
  DeadOnlyUnconnected
  PeerReaderPanicCause
  FailedEntryCause
  OrphanCause
PROPERTY PeersShutDownOrHang
CHECK_DEADLOCK FALSE
