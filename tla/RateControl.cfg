CONSTANTS
  MinRate = 1
  StartRate = 2
  MaxRateArg = 6
  Scale = 1
  Losses = {0, 4, 10, 20}
  Deliveries = {1, 3, 6}
  Gaps = {1, 3}
  Window = 1
SPECIFICATION Spec
INVARIANTS
  PacerFollows
PROPERTIES
  Descends
  StartupFinite
