SPECIFICATION MCSpec
CONSTANTS
  Urls = {u1, u2}
  Versions = {v1}
  Empty = Empty
  Torn = Torn
  UpdateLen = 1
  UpdateLoop = 1
  LoopLen = 4
  QueueLen = 1
  MaxTurns = 2
INVARIANTS TypeOK OkOnce NotCutOff ConfigFollowed NoOrderForgotten
PROPERTIES KeepsUpdate ConfigObeyed StaleEnds LinesHandled NetHeard NewestTried
