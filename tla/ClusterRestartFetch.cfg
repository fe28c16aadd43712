SPECIFICATION ClusterSpec
CONSTANTS
  e1 = e1
  e2 = e2
  w1 = w1
  Engines = {e1, e2}
  Workers = {w1}
  LocalWorker <- Colocated
  Capacity <- Capacity2
  Keys = {k1}
  Sizes = {1}
  Capacities = {2}
  NoWorker = NoWorker
  Miss = Miss
  HEARTBEAT_TIMEOUT = 0
  MaxNow = 0
  MaxEpoch = 2
  MaxPuts = 3
  MaxGeneration = 3
  MaxCrashes = 0
  MaxMasterRestarts = 1
  MaxDeletes = 0
INVARIANT FetchIsExactOrMiss
CHECK_DEADLOCK FALSE
