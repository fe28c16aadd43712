SPECIFICATION MasterSpec
CONSTANTS
  Workers = {w1}
  Keys = {k1, k2}
  Sizes = {1, 2}
  Capacities = {2}
  NoWorker = NoWorker
  HEARTBEAT_TIMEOUT = 0
  MaxNow = 0
  MaxEpoch = 1
  MaxPuts = 4
INVARIANT CapacityAccounting
CHECK_DEADLOCK FALSE
