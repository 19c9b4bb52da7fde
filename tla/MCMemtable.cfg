SPECIFICATION MCSpec
CONSTANTS
  Writers = {w1, w2}
  Replayer = r
  w1 = w1
  w2 = w2
  k1 = k1
  k2 = k2
  Keys = {k1, k2}
  Snapshots = {1, 2}
  INVALID_VERSION = 9
  Batches = {1, 2}
  LogFails = TRUE
  Uninit = TRUE
  MayFreeze = TRUE
  MaxOps = 3
  RaceCrashes = 1
  MaxCrashes = 2
CHECK_DEADLOCK FALSE
INVARIANTS
  LoggedFirst
  ChainOrdered
  AckedRecovered
  OneReads
PROPERTY
  OneRecovers
