SPECIFICATION Spec
CONSTANTS
  Requests = {r1}
  Traffic <- TwoRequesters
  Unsolicited = {}
  QueueLen = 1
  WireLen = 1
  TIMEOUT = 1
  RECOVERNUM = 3
  TriesCap = 1
  Lossy = TRUE
INVARIANT NoNesting
