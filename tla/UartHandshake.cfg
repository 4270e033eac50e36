SPECIFICATION LiveSpec
CONSTANTS
  Requests = {r1}
  Traffic <- RequestAfterReport
  Unsolicited = {"update"}
  QueueLen = 1
  WireLen = 1
  TIMEOUT = 1
  RECOVERNUM = 3
  TriesCap = 1
  Lossy = TRUE
INVARIANTS TypeOK WaitingIsBacked
PROPERTIES KeepsContract RequestWritten
