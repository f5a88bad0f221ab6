CONSTANTS
  NumBlocks = 6
  Cap = 3
  Sizes = {6, 11, 12, 13, 16, 17, 18, 19, 20}
  BlockSizes = {1, 2, 3}
SPECIFICATION CopySpec
INVARIANTS
  RightEncoder
  CopyExact
PROPERTIES
  NoRebuild
CHECK_DEADLOCK FALSE
