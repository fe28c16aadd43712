SPECIFICATION ClusterSpec
CONSTANTS
  e1 = e1
  e2 = e2
  w1 = w1
  Engines = {e1, e2}
  Workers = {w1}
  LocalWorker <- Colocated
  Capacity <- Capacity2
  Keys = {k1}
  Sizes = {1}
  Capacities = {2}
  NoWorker = NoWorker
  Miss = Miss
  HEARTBEAT_TIMEOUT = 0
  MaxNow = 1
  MaxEpoch = 2
  MaxPuts = 2
  MaxGeneration = 2
  MaxCrashes = 1
  MaxMasterRestarts = 0
  MaxDeletes = 1
INVARIANTS ClusterTypeOK FetchIsExactOrMiss IndexNeverServesStaged RouteServes
PROPERTY ImplementsObjectStore
CHECK_DEADLOCK FALSE
