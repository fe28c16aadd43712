SPECIFICATION RegFairSpec
CONSTANTS
  Workers = {w1}
  Keys = {}
  Sizes = {}
  Capacities = {1}
  NoWorker = NoWorker
  HEARTBEAT_INTERVAL = 3
  HEARTBEAT_TIMEOUT = 10
  RoundTrip = 3
  MaxNow = 24
  MaxEpoch = 8
  MaxPuts = 0
  MaxFaults = 3
INVARIANTS HealthyNeverDead ReregistersOnlyAfterFaults
PROPERTY EventuallyInSync
CHECK_DEADLOCK FALSE
