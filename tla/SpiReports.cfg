SPECIFICATION MCLiveSpec
CONSTANTS
  Devices = {d1, d2}
  MaxFrames = 5
  Buffers = {b1, b2, b3}
  Parities = 2
  MaxLoss = 3
  QueueLen = 1
INVARIANTS TypeOK PairedRight NewestReported AstrayOnlyByRepeats ReportsOwned
PROPERTY ReportTaken
CHECK_DEADLOCK FALSE
