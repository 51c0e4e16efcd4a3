\* The TaskHandle of a blocking task that was running at the abort, and panics.
CHECK_DEADLOCK FALSE
CONSTANTS
  t1 = t1
  t2 = t2
  s1 = s1
  Tasks = {t1, t2}
  NoTask = NoTask
  Blocking <- Blocking1
  Spawners = {s1}
  Handle = Handle
  Caller <- SecondFromSpawner
  Cancellable = {t2}
  Payload <- TextThenOther
  Watched = {t1}
SPECIFICATION PollSpec
INVARIANT DetachedIsNotAborted
