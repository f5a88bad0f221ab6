CONSTANTS
  MinRate = 50
  StartRate = 1000
  MaxRateArg = 10000
  Scale = 1000
  Losses <- LoopLosses
  Deliveries <- LoopDeliveries
  Gaps = {1}
  Window = 25
  Paths <- MixedPaths
  MaxChanges = 1
  CalmReports = 60
SPECIFICATION FairLoop
INVARIANTS
  NoRatchet
PROPERTIES
  Settles
  StartupEnds
  FloorHonest
