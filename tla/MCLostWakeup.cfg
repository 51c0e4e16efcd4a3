\* An async task that may never end, and another whose TaskHandle may have been polled
\* before the worker is cancelled.
CHECK_DEADLOCK FALSE
CONSTANTS
  t1 = t1
  t2 = t2
  s1 = s1
  Tasks = {t1, t2}
  NoTask = NoTask
  Blocking = {}
  Spawners = {}
  Handle = Handle
  Caller <- AllFromHandle
  Cancellable = {t2}
  Payload <- TextThenOther
  Watched = {t2}
SPECIFICATION PollStuckSpec
PROPERTY CancelResolvesQueued
