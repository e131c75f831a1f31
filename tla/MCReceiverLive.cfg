CONSTANTS
  c1 = c1
  c2 = c2
  Conns = {c1}
  Rude = {}
  Throwing = TRUE
  Slow = FALSE
  MaxEvents = 3
  Cap = 2
  MaxCalls = 5
SPECIFICATION FairSpec
INVARIANTS
  ReceiverInv
PROPERTIES
  StreamSpec
  StopListenEnds
  ListenAnswers
