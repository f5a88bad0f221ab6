CONSTANTS
  NumBlocks = 2
  K <- MCK
  Slack = 1
  Round0Repair = {1}
  LaterRepair = {1}
  MaxSegs = 2
  Sealed = FALSE
  Faults = {"crash", "timeout", "disk", "socket", "corrupt"}
  MaxId = 3
  MaxLoss = 1
  MaxProgress = 1
SPECIFICATION Spec
INVARIANTS
  VerifiedSuccess
  AckedIsWritten
  FreshSymbols
  SuccessFullyAcked
  NoFalseFailure
PROPERTIES
  ImplementsFileDelivery
