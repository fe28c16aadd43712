SPECIFICATION ServingFairSpec
CONSTANTS
  Nodes = {n1, n2}
  Requests = {r1, r2, r3, r4}
  Threads = 1
  Colocated = TRUE
  NoRequest = NoRequest
PROPERTY EveryRequestAnswered
CHECK_DEADLOCK FALSE
