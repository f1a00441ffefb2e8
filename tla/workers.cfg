SPECIFICATION WorkersSpec
CONSTANTS
  c1 = c1
  c2 = c2
  c3 = c3
  w1 = w1
  w2 = w2
  k1 = k1
  None = None
  Worker <- TwoWorkers
  Catching <- OneWorker
  Collection <- OneCollection
  Evict = 1
  MaxEdits = 2
  MaxFails = 1
  Conn <- ThreeConnections
  SessionTimeout = 2
  LockRefresh = 1
  RequestTimeout = 1
  MaxResponses = 2
  MaxCrashes = 1
INVARIANTS
  OneHolder
  EndsLatest
  LockOutlives
  SnapshotKept
  StaleOnlyAfterRace
PROPERTIES
  SessionIsOver
  CacheIsFresh
CHECK_DEADLOCK FALSE
