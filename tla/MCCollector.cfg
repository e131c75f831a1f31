CONSTANTS
  c1 = c1
  c2 = c2
  c3 = c3
  c4 = c4
  Conns = {c1, c2, c3, c4}
  DataConns = {c1, c2, c3}
  Status <- MCStatus
  MaxEvents <- MCMaxEvents
  MaxRuns = 2
SPECIFICATION CSpec
INVARIANTS
  TypeOK
  InStep
  NothingHeldBack
PROPERTIES
  BuildingSpec
CHECK_DEADLOCK FALSE
