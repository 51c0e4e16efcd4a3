\* A blocking task, then an async one whose TaskHandle is awaited and whose canceller
\* is used; every task ends.
CHECK_DEADLOCK FALSE
CONSTANTS
  t1 = t1
  t2 = t2
  s1 = s1
  Tasks = {t1, t2}
  NoTask = NoTask
  Blocking <- Blocking1
  Spawners = {}
  Handle = Handle
  Caller <- AllFromHandle
  Cancellable = {t2}
  Payload <- TextThenOther
  Watched = {t2}
SPECIFICATION PollFairSpec
PROPERTY HandleResolves
INVARIANT WholeInv
INVARIANT BlamelessNeverBegins
INVARIANT CancelledMeansOver
PROPERTY CancelIsReported
PROPERTY ImplementsTaskPromise
INVARIANT NoWakeupLost
