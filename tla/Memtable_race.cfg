SPECIFICATION Spec
CONSTANTS
  Writers = {w1, w2}
  Replayer = r
  w1 = w1
  w2 = w2
  k1 = k1
  Keys = {k1}
  Snapshots = {}
  INVALID_VERSION = 9
  Batches = {1}
  LogFails = FALSE
  Uninit = FALSE
  MayFreeze = FALSE
  MaxOps = 2
  MaxCrashes = 0

INVARIANT RacedRowUsed
CHECK_DEADLOCK FALSE
