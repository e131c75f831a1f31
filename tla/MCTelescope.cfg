CONSTANTS
  a = a
  b = b
  Planes = {a, b}
  Primary = b
  Faulty = {b}
  Depth = 2
  MaxRuns = 2
  MaxTriggers = 3
SPECIFICATION FairSpec
INVARIANTS
  TypeOK
  NoLeftovers
  TelescopeInv
PROPERTIES
  RunsSpec
  Answered
