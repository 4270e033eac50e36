SPECIFICATION OtaSpec
CONSTANTS
  Urls = {u1, u2}
  Versions = {v1, v2}
  Empty = Empty
  Torn = Torn
  UpdateLen = 1
  UpdateLoop = 1
INVARIANTS SameVersionRefused
