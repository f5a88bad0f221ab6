CONSTANTS
  NumBlocks = 2
  K <- MCK1
  Slack = 1
  Round0Repair = {1}
  LaterRepair = {1}
  MaxSegs = 2
  Sealed = TRUE
  Faults = {"crash", "timeout"}
  MaxId = 3
  MaxLoss = 1
  MaxProgress = 1
SPECIFICATION FairSpec
PROPERTIES
  SenderStops
  ReceiverFollows
  KeepsRepairing
  Completes
