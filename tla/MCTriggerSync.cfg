CONSTANTS
  c1 = c1
  c2 = c2
  c3 = c3
  Conns = {c1, c2, c3}
  Trigger <- MCTrigger
  MaxRuns = 2
SPECIFICATION CSpec
INVARIANTS
  TypeOK
  Together
  NothingRemains
  MergerInv
PROPERTIES
  MergingSpec
CHECK_DEADLOCK FALSE
