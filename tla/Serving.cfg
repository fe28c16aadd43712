SPECIFICATION ServingFairSpec
CONSTANTS
  Nodes = {n1, n2}
  Requests = {r1, r2, r3}
  Threads = 1
  Colocated = TRUE
  NoRequest = NoRequest
INVARIANTS ServingTypeOK NoMutualWait
PROPERTY EveryRequestAnswered
CHECK_DEADLOCK FALSE
