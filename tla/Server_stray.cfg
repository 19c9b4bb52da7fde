SPECIFICATION Spec
CONSTANTS
  a1 = a1
  a2 = a2
  Addresses = {a1, a2}
  Descriptors = {4, 5}
  MaxClients = 3
  EarlySignal = FALSE
  PartialRequests = FALSE
INVARIANT RepliesToOwner
CHECK_DEADLOCK FALSE
