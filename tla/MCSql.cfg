SPECIFICATION Spec
CONSTANTS
  Scenes = {"stages", "texts", "plan", "cascade", "oper", "value", "tuple", "type"}
  Clients = {c1, c2}
  MaxStatements = 3
  MaxTokens = 5
  MaxRows = 2
  MaxCalls = 3
  Slots = {s1, s2}
  Texts = {"a"}
  MaxCells = 4
INVARIANTS
  
  
  PlanFaithful
  CompletePlan
  
  HeapSound
  OrderSound
PROPERTY
  PlanFound
CHECK_DEADLOCK FALSE
