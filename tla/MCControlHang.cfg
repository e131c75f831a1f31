CONSTANTS
  p1 = p1
  p2 = p2
  d1 = d1
  m1 = m1
  NoClient = NoClient
  Producers = {}
  Collectors = {d1}
  Others = {m1}
  LastStart = NoClient
  FirstStop = NoClient
  Faulty = {}
  Polled = {}
  MaxRun = 1
  MaxQ = 2
  MaxCalls = 5
SPECIFICATION FairSpec
PROPERTIES
  CallsReturn
CHECK_DEADLOCK FALSE
