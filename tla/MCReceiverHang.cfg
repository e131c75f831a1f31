CONSTANTS
  c1 = c1
  c2 = c2
  Conns = {c1}
  Rude = {c1}
  Throwing = FALSE
  Slow = FALSE
  MaxEvents = 1
  Cap = 2
  MaxCalls = 3
SPECIFICATION FairSpec
PROPERTIES
  ListenAnswers
CHECK_DEADLOCK FALSE
