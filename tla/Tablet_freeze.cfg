SPECIFICATION FairSpec
CONSTANTS
  w1 = w1
  w2 = w2
  r1 = r1
  f = f
  d = d
  k1 = k1
  k2 = k2
  free = free
  Writers = {w1, w2}
  Readers = {r1}
  Freezer = f
  Dumper = d
  Keys = {k1, k2}
  Free = free
  Threshold = 2
  MaxWrites = 2
  MaxReads = 0
PROPERTY FreezeCompletes
CHECK_DEADLOCK FALSE
