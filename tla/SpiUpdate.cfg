SPECIFICATION MCSpec
CONSTANTS
  Devices = {d1, d2}
  MaxFrames = 3
  Buffers = {b1, b2, b3}
  Parities = 2
  MaxLoss = 3
  QueueLen = 1
INVARIANT OneSlotPerDevice
CHECK_DEADLOCK FALSE
