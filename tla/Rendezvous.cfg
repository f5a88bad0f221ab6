CONSTANTS
  MaxAttempts = 3
  Burst = 3
  Faults = {"crash", "socket", "disk", "stray"}
  MaxLoss = 4
  MaxFlight = 4
SPECIFICATION FairSpec
INVARIANTS
  SprayReady
  OnlyAgreed
  EarlyOpenKept
PROPERTIES
  HandshakeSettles
  FlowOpens
CHECK_DEADLOCK FALSE
