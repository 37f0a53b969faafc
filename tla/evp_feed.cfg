SPECIFICATION FairSpec
CONSTANTS
  Events = {e1, e2, e3}
  NoEvent = NoEvent
  QueueSize = 2
  MayStop = TRUE
  MaxRestarts = 1
INVARIANTS AtMostOnce CountersHonest StopDrains
PROPERTIES FeedSpec StopEnds QueueDrains
CHECK_DEADLOCK FALSE
