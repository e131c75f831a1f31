CONSTANTS
  p1 = p1
  p2 = p2
  d1 = d1
  m1 = m1
  NoClient = NoClient
  Producers = {p1}
  Collectors = {d1}
  Others = {}
  LastStart = p1
  FirstStop = NoClient
  Faulty = {}
  Polled = {}
  MaxRun = 1
  MaxQ = 2
  MaxCalls = 5
SPECIFICATION FairSpec
PROPERTIES
  CallsReturn
CHECK_DEADLOCK FALSE
