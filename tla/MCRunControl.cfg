CONSTANTS
  p1 = p1
  p2 = p2
  d1 = d1
  NoClient = NoClient
  Producers = {p1}
  Collectors = {d1}
  Others = {}
  LastStart = p1
  FirstStop = p1
  Faulty = {p1}
  Polled = {p1, d1}
  MaxRun = 1
  MaxQ = 2
  MaxCalls = 8
  Replicas = {p1, d1}
  MaxKeys = 1
SPECIFICATION UISpec
INVARIANTS
  UITypeOK
  DocStopOrder
  Settled
  HaltIsHeard
  OneRun
PROPERTIES
  CycleSpec
CHECK_DEADLOCK FALSE
