SPECIFICATION MCSpec
CONSTANTS
  s1 = s1
  s2 = s2
  main = main
  Sessions = {s1, s2}
  Main = main
  CreateNames = {"a", "b"}
  DropNames = {"a", "sys"}
  UseNames = {"a"}
  PowerLoss = TRUE
  SlogFails = TRUE
  MaxCreates = 4
  RaceCreates = 3
  MaxTables = 1
  MaxCrashes = 2
CHECK_DEADLOCK FALSE
INVARIANTS
  WalFirst
  AckedSurvive
  

  
