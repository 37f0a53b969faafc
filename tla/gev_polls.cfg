SPECIFICATION FairSpec
CONSTANTS
  e1 = e1 e2 = e2 e3 = e3 e4 = e4
  Events = {e1, e2, e3, e4}
  Watched = {e1, e2, e3}
  Backlog <- mcBacklog
  NoEvent = NoEvent
  Polls = {k1}
  Failing = {"fetched"}
  MaxRestarts = 1
INVARIANTS NoReplay BacklogQuiet NothingSkipped
PROPERTIES EveryEventShown
CHECK_DEADLOCK FALSE
