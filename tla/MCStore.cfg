SPECIFICATION MCSpec
CONSTANTS
  writer1 = writer1
  writer2 = writer2
  r1 = r1
  f = f
  d = d
  free = free
  Writers = {writer1, writer2}
  Readers = {r1}
  Freezer = f
  Dumper = d
  Keys = {"a", "b", "c"}
  Free = free
  Threshold = 2
  MaxWrites = 3
  MaxReads = 2
  RowSizes = {1, 4}
  MaxRows = 9
  MicroSize = 8
  MacroSize = 19
  Slack = 5
  Reserve = 1
  MicroHeader = 1
  IndexEntry = 2
  HeaderSize = 2
  Openers = {t1, t2}
  Streams = {s1, s2}
  Serial = TRUE
  MaxHandlers = 3
  MaxAppends = 3
  Submitters = {t1, t2}
  MayDestroy = TRUE
  MaxTasks = 3
  Data = {"x", "y"}
  Capacities = {0, 1, 2}
  Nil = 0
INVARIANTS
  
  NothingDropped
  BlocksSound
  AckedKept
PROPERTIES
  TasksRunUntilStop
  CachesImplement
CHECK_DEADLOCK FALSE
