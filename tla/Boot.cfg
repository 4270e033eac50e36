SPECIFICATION LiveSpec
CONSTANTS
  N = 4
  MainLen = 2
  MaxTimeouts = 2
  MaxOthers = 1
INVARIANTS TypeOK ReadsInOrder StoredInTime SlipsHaveCauses RoomToTheEnd
PROPERTIES HandedOver
CHECK_DEADLOCK FALSE
