\* An async task from the handle, which may never end, and a blocking one from a spawner,
\* whose TaskHandle is polled.
CHECK_DEADLOCK FALSE
CONSTANTS
  t1 = t1
  t2 = t2
  s1 = s1
  Tasks = {t1, t2}
  NoTask = NoTask
  Blocking = {t2}
  Spawners = {s1}
  Handle = Handle
  Caller <- SecondFromSpawner
  Cancellable = {}
  Payload <- TextThenOther
  Watched = {t2}
SPECIFICATION PollStuckSpec
PROPERTY AbortStops
PROPERTY AbortJoinReturns
PROPERTY LatePollResolves
