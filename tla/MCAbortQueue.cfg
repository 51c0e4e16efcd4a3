\* A poll that is in progress goes on to tasks that abort found in the channel.
CHECK_DEADLOCK FALSE
CONSTANTS
  t1 = t1
  t2 = t2
  t3 = t3
  s1 = s1
  Tasks = {t1, t2, t3}
  NoTask = NoTask
  Blocking <- Blocking2
  Spawners = {s1}
  Handle = Handle
  Caller <- Caller3
  Cancellable = {t1}
SPECIFICATION Spec
INVARIANT AbortedQueueNeverStarts
