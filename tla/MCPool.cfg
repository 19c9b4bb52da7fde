SPECIFICATION MCSpec
CONSTANTS
  Submitters = {s1, s2}
  CoreSize = 1
  MaxSize = 2
  SlowInit = FALSE
  LateExecute = FALSE
  MaxTasks = 3
  MaxThreads = 3
  Conns = {c1, c2}
  Handlers = {t1, t2}
  PartialRequests = TRUE
  MaxRequests = 2
  Idle = {t2}
INVARIANTS
  TasksOnce
  
PROPERTY
  Served
CHECK_DEADLOCK FALSE
