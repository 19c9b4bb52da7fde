SPECIFICATION Spec
CONSTANTS
  SeqIds = 8
  Lengths = {251, 65535}
  Flags = {{}, {"transactions", "deprecate_eof"}, {"protocol_41", "session_track", "metadata"}}
  MaxRows = 3
  MaxCells = 2
  MaxRequests = 2
  Commands = {"calc", "show"}
  Exits = {"exit"}
  Blanks = {"", " "}
  SaveInterval = 2
  MaxClock = 6
  MaxRestarts = 1
  Lockers = {t1, t2, t3}
  MaxCalls = 2
  Threads = {t1, t2}
  Mutexes = {a, b, c}
  NoThread = nobody
  NoMutex = nothing
  Recursive = {a}
  MaxBlockTids = 8
  MaxTaken = 3
  Kinds = {"item", "simple"}
  ItemsPerPool = 2
  MaxPools = 2
  Sizes = {1, 2}
  Limits = {4}
  Text = 1
  MaxBlocks = 2
  Times = {1, 2, 3}
  MaxStamps = 4
  BitSizes = {3, 8, 10}
  Touched = {0, 2, 7, 8, 9}
  Values = {1, 2, 3, 4}
INVARIANTS
  HistoryKept
  
  
  SearchesRight
PROPERTIES
  
  LocksRight
CHECK_DEADLOCK FALSE
