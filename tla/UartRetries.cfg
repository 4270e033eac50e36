SPECIFICATION Spec
CONSTANTS
  Requests = {r1}
  Traffic <- TwoRequesters
  Unsolicited = {"ptrecv"}
  QueueLen = 1
  WireLen = 1
  TIMEOUT = 1
  RECOVERNUM = 3
  TriesCap = 5
  Lossy = TRUE
INVARIANT GivenUpAfterRetries
