CONSTANTS
  p1 = p1
  p2 = p2
  d1 = d1
  NoClient = NoClient
  Producers = {p1}
  Collectors = {}
  Others = {}
  LastStart = NoClient
  FirstStop = NoClient
  Faulty = {}
  Polled = {p1}
  MaxRun = 0
  MaxQ = 1
  MaxCalls = 5
  Replicas = {p1}
  MaxKeys = 1
SPECIFICATION FairUISpec
PROPERTIES
  DocHotkeys
CHECK_DEADLOCK FALSE
