CONSTANTS
  SymbolSizes = {1200, 1203, 21600, 32487, 64976, 65488, 65516, 65535}
  MaxGsoBytes = 65000
  MaxGsoSegments = 3
  MaxUdp = 65507
  PacketCounts = {1, 4}
  MaxBlocks = 1
  RecvMsgs = 2
  MaxGro = 65535
  MaxEmpty = 1
SPECIFICATION PathSpec
CHECK_DEADLOCK FALSE
INVARIANTS
  AlignedWhole
  FlushSendsAll
  Accounted
  KernelLimits
  ArrivalKept
