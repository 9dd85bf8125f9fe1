SPECIFICATION TunnelSpec
CONSTANTS
  Packets <- MCPackets
  Strays <- MCStrays
  MaxDatagram = 15
  BufferLen = 15
  LocalCap = 1
  OutCap = 1
  MaxReads = 4
INVARIANTS
  FrameFaithful
  LengthsExact
  ChecksumsVerify
CHECK_DEADLOCK FALSE
