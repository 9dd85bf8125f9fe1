SPECIFICATION PipelineFairSpec
CONSTANTS
  h1 = h1
  h2 = h2
  Handles = {h1, h2}
  NoHandle = NoHandle
  ServerCap = 2
  RemoteCap = 1
  StateCap = 1
  SignalCap = 1
  NewXboxCap = 1
  XboxesCap = 1
  ChildrenCap = 1
  MaxPackets = 4
  MaxDeliveries = 1
INVARIANTS
  TypeOK
  XboxConservation
  UpdateAccounting
  LifetimeBound
  KillTokenAccounting
  FirstHandleWins
PROPERTIES
  ManagersObeyKill
  CapturesQuiesce
  SightingsArePiped
  ManagersAreWorkers
CHECK_DEADLOCK FALSE
