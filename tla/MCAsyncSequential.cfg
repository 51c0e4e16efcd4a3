\* Three tasks, two from the handle (one async, one blocking) and an async one
\* from a spawner, one of them with a canceller that is used.
\* The system stops for good when the handle is consumed and all tasks are spawned.
CHECK_DEADLOCK FALSE
CONSTANTS
  t1 = t1
  t2 = t2
  t3 = t3
  s1 = s1
  Tasks = {t1, t2, t3}
  NoTask = NoTask
  Blocking <- Blocking2
  Spawners = {s1}
  Handle = Handle
  Caller <- Caller3
  Cancellable = {t1}
SPECIFICATION Spec
INVARIANT TypeOK
INVARIANT IInv
INVARIANT LineInv
INVARIANT Exclusive
INVARIANT InOrder
INVARIANT CleanJoin
INVARIANT PanicReachesJoin
INVARIANT CancelledNeverBegins
INVARIANT CancelledQueueNeverStarts
INVARIANT BlameIsTrue
INVARIANT NoPanicOfItsOwn
INVARIANT StateIsThere
PROPERTY NothingBeginsAfterPanic
PROPERTY ImplementsSequentialTasks
INVARIANT NoOneWaitsInVain
PROPERTY WorkerAdvances
