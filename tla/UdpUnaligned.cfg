CONSTANTS
  SymbolSizes = {1203}
  MaxGsoBytes = 65000
  MaxGsoSegments = 3
  MaxUdp = 65507
  PacketCounts = {1, 4}
  MaxBlocks = 1
  RecvMsgs = 2
  MaxGro = 65535
  MaxEmpty = 1
SPECIFICATION PathSpec
CHECK_DEADLOCK FALSE
INVARIANTS
  WholeInOrder
