SPECIFICATION ClientSpec
CONSTANTS
  OutCap = 1
  MaxClients = 2
  MaxAtKill = 1
INVARIANT NoReaderPanic
CHECK_DEADLOCK FALSE
