SPECIFICATION ClientFairSpec
CONSTANTS
  OutCap = 1
  MaxClients = 3
  MaxAtKill = 2
PROPERTY InterruptStopsLoop
CHECK_DEADLOCK FALSE
