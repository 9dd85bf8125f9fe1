SPECIFICATION UserConnFairSpec
CONSTANTS
  UserConns = {c1, c2}
  Sessions = {s1, s2}
  Nobody = Nobody
  Lookups = TRUE
INVARIANTS
  UserConnTypeOK
  EncoderOwner
  UnreachableCause
  NilEncoderCause
PROPERTY GoneIsNoticed
CHECK_DEADLOCK FALSE
