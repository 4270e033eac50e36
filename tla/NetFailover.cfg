SPECIFICATION LiveSpec
CONSTANTS
  LoopLen = 3
  QueueLen = 2
CONSTRAINT NothingLost
INVARIANTS TypeOK StaysDown MessagesHaveTriggers FollowsCable ReportsConnection NeverLeftIdle
PROPERTY CableObeyed
