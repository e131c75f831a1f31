CONSTANTS
  c1 = c1
  c2 = c2
  Conns = {c1, c2}
  Rude = {c1}
  Throwing = TRUE
  Slow = TRUE
  MaxEvents = 1
  Cap = 2
  MaxCalls = 3
SPECIFICATION Spec
INVARIANTS
  TypeOK
  CleanSlate
  HailInv
  FarewellWaits
PROPERTIES
  HailedFirst
CHECK_DEADLOCK FALSE
