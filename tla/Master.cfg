SPECIFICATION MasterSpec
CONSTANTS
  Workers = {w1, w2}
  Keys = {k1, k2}
  Sizes = {1, 2}
  Capacities = {2}
  NoWorker = NoWorker
  HEARTBEAT_TIMEOUT = 0
  MaxNow = 0
  MaxEpoch = 2
  MaxPuts = 3
SYMMETRY Symm
INVARIANTS MasterTypeOK UsedWithinCapacity NoPhantomReservation LedgerExact OneSlotPerPut CompleteWasAcked
PROPERTIES AckedOnceAndNewest RoutesNeverGoBack
CHECK_DEADLOCK FALSE
