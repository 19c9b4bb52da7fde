SPECIFICATION MCSpec
CONSTANTS
  Addresses = {a1, a2}
  Descriptors = {4, 5}
  MaxClients = 3
  EarlySignal = TRUE
  PartialRequests = TRUE
  MaxPacket = 3
  MaxRequests = 2
  MaxLength = 3
  MaxRows = 2
  MaxCells = 2
  Capacity = 3
  MaxBytes = 8
  CanFail = TRUE
INVARIANTS
  ConnectionsExact
  OneAnswer
PROPERTIES
  Answered
  InOrder
CHECK_DEADLOCK FALSE
