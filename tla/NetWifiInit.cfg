SPECIFICATION LiveSpec
CONSTANTS
  LoopLen = 3
  QueueLen = 1
PROPERTY WifiInitReturns
