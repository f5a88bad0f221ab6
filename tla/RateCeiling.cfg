CONSTANTS
  MinRate = 1
  StartRate = 4
  MaxRateArg = 2
  Scale = 1
  Losses = {0, 10}
  Deliveries = {2}
  Gaps = {1}
  Window = 1
SPECIFICATION FairSpec
PROPERTY
  CeilingHolds
