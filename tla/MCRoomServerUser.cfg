SPECIFICATION RoomServerSpec
CONSTANTS
  r1 = r1
  r2 = r2
  r3 = r3
  u1 = u1
  u2 = u2
  EmptyPeerId = EmptyPeerId
  Nobody = Nobody
  MaxInFlight = 2
  Reqs = {r1, r2, r3}
  Users = {u1}
  KnownUsers = {u1}
  RoomIds = 2
INVARIANT UserAddedToRoom
CHECK_DEADLOCK FALSE
