SPECIFICATION Spec
CONSTANTS
  Requests = {}
  Traffic <- TwoReporters
  Unsolicited = {}
  QueueLen = 2
  WireLen = 1
  TIMEOUT = 1
  RECOVERNUM = 3
  TriesCap = 1
  Lossy = FALSE
INVARIANTS NetStateInSync ModuleInformed
