SPECIFICATION RoomServerSpec
CONSTANTS
  r1 = r1
  r2 = r2
  r3 = r3
  r4 = r4
  u1 = u1
  u2 = u2
  EmptyPeerId = EmptyPeerId
  Nobody = Nobody
  MaxInFlight = 2
  Reqs = {r1, r2, r3, r4}
  Users = {u1, u2}
  KnownUsers = {u1, u2}
  RoomIds = 2
SYMMETRY RequestSymmetry
INVARIANTS
  RoomServerTypeOK
  SessionsPerUser
  LeaksAreDeaths
  PostOvertaken
  LocksInOrder
CHECK_DEADLOCK FALSE
