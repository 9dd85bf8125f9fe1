SPECIFICATION DaemonSpec
CONSTANTS
  OutCap = 1
  MaxClients = 1
  MaxAtKill = 1
  h1 = h1
  Handles = {h1}
  NoHandle = NoHandle
  ServerCap = 1
  RemoteCap = 1
  StateCap = 1
  SignalCap = 1
  NewXboxCap = 1
  XboxesCap = 1
  ChildrenCap = 1
  MaxPackets = 2
  MaxDeliveries = 1
INVARIANT HangIsNamed
CHECK_DEADLOCK FALSE
