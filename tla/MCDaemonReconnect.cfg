SPECIFICATION DaemonFairSpec
CONSTANTS
  OutCap = 1
  MaxClients = 2
  MaxAtKill = 1
  h1 = h1
  Handles = {h1}
  NoHandle = NoHandle
  ServerCap = 1
  RemoteCap = 1
  StateCap = 1
  SignalCap = 1
  NewXboxCap = 1
  XboxesCap = 1
  ChildrenCap = 1
  MaxPackets = 0
  MaxDeliveries = 0
INVARIANT DeadcountExact
PROPERTIES
  ShutdownIsOrderly
  ShutdownEndsOrIsStuck
CHECK_DEADLOCK FALSE
