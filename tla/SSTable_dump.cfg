SPECIFICATION SSpec
CONSTANTS
  RowSizes = {1, 4}
  MaxRows = 9
  MicroSize = 8
  MacroSize = 19
  Slack = 5
  Reserve = 1
  MicroHeader = 1
  IndexEntry = 2
  HeaderSize = 2
INVARIANT DumpKeepsRows
CHECK_DEADLOCK FALSE
