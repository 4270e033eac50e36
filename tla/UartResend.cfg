SPECIFICATION Spec
CONSTANTS
  Requests = {}
  Traffic <- TwoReporters
  Unsolicited = {}
  QueueLen = 1
  WireLen = 1
  TIMEOUT = 1
  RECOVERNUM = 3
  TriesCap = 1
  Lossy = TRUE
PROPERTY TimeoutResends
