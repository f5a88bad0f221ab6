CONSTANTS
  Modes = {"sealed", "plain"}
  Tiny = 2
  Counts = {3}
  MaxSent = 9
  MaxReports = 1
  MaxLost = 2
  MaxDups = 1
  Overtake = 1
  Ks = {1, 100, 56403}
SPECIFICATION Spec
INVARIANTS
  ExactWireLoss
  Forgets
  RepairConverges
CHECK_DEADLOCK FALSE
