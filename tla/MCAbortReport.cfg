\* abort_and_join of a worker whose runtime is up reports a shutdown.
CHECK_DEADLOCK FALSE
CONSTANTS
  t1 = t1
  t2 = t2
  t3 = t3
  s1 = s1
  Tasks = {t1, t2, t3}
  NoTask = NoTask
  Blocking <- Blocking2
  Spawners = {s1}
  Handle = Handle
  Caller <- Caller3
  Cancellable = {t1}
SPECIFICATION Spec
INVARIANT JoinShutdownMeansShutdown
