\* Two tasks, an async one from the handle and a blocking one from a spawner; every
\* task ends.
CHECK_DEADLOCK FALSE
CONSTANTS
  t1 = t1
  t2 = t2
  t3 = t3
  s1 = s1
  Tasks = {t1, t2}
  NoTask = NoTask
  Blocking <- Blocking2
  Spawners = {s1}
  Handle = Handle
  Caller <- CallerAny2
  Cancellable = {t2}
SPECIFICATION FairSpec
PROPERTY ConsumedWorkerStops
PROPERTY JoinReturns
PROPERTY EveryTaskSettles
