\* A task spawned between the flag of an abort and the closing of the spawners is accepted.
CHECK_DEADLOCK FALSE
CONSTANTS
  t1 = t1
  t2 = t2
  s1 = s1
  Tasks = {t1, t2}
  NoTask = NoTask
  Blocking <- Blocking1
  Spawners = {s1}
  Handle = Handle
  Caller <- SecondFromSpawner
  Cancellable = {}
  Payload <- TextThenOther
  Watched = {t2}
SPECIFICATION QuerySpec
INVARIANT NoneMeansUnavailable
