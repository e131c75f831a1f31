CONSTANTS
  p1 = p1
  p2 = p2
  d1 = d1
  m1 = m1
  NoClient = NoClient
  Producers = {p1}
  Collectors = {d1}
  Others = {m1}
  LastStart = NoClient
  FirstStop = p1
  Faulty = {d1}
  Polled = {}
  MaxRun = 1
  MaxQ = 2
  MaxCalls = 4
SPECIFICATION Spec
INVARIANTS
  TypeOK
  ServersUpFirst
  NoServerOverlooked
  OnRecord
CHECK_DEADLOCK FALSE
