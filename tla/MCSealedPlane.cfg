CONSTANTS
  W = 3
  MaxSeq = 9
SPECIFICATION Spec
INVARIANTS
  WindowExact
  OpenedOnce
  LossWellDefined
PROPERTIES
  OnlyAuthenticMoves
  ImplementsOnceDelivery
