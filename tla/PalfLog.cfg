SPECIFICATION ReplaySpec
CONSTANTS
  BlockSize = 8
  HeaderSize = 2
  ReadBufSize = 4
  PayloadSizes = {1, 3}
  ShortWrites = {0, 2, 3}
  Openers = {"init"}
  SeekTargets = {3}
  LogLimit = 13
  MaxAppends = 3
  MaxRestarts = 2
CHECK_DEADLOCK FALSE
INVARIANTS
  AckedDurableIfFits
  ChainIfFits
  ReplayExact
PROPERTY
  RecoveredTail
