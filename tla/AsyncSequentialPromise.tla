----------------------- MODULE AsyncSequentialPromise -----------------------
(***************************************************************************)
(* The proof that AsyncSequential implements SequentialTasks, for any sets *)
(* of tasks and spawners: every step of the worker, the pool, the owner,   *)
(* the spawners and the cancellers is a step of the promise, or none.      *)
(***************************************************************************)
EXTENDS AsyncSequentialOrder

USE DEF statusVars, channelVars, mutexVars, workerVars, tokioVars, handleVars, cancellerVars,
        aside, senderAside, cancelAside, handleAside, ReceiverGone, Stopping, Ends,
        Awaits, Steps, Flags, TaskStatus, StatusTypeOK, FLAG_OTHER, FLAG_ABORT_STARTED,
        FLAG_CANCEL_STARTED, FLAG_TASK_PANICKED, Aborts, Cancels, Joins, JoinErrors

USE NoTaskAssumption, ConstantsAssumption

-----------------------------------------------------------------------------
(* What shows, and how a task goes on.                                      *)

\* What a step may do to one task: an end is an end, and what cannot come does not.
Ages(t) ==
  /\ task[t] \in {"refused_unavailable", "refused_panic", "refused_shutdown", "done",
                  "panicked", "cancelled", "dropped", "broken"} => task'[t] = task[t]
  /\ task[t] = "unwound" => task'[t] \in {"unwound", "panicked"}
  /\ task[t] = "running" => task'[t] \in {"running", "done", "unwound", "broken"}
  /\ task[t] \in {"new", "failed", "queued", "kept", "taken"} =>
       task'[t] \notin {"done", "unwound", "panicked", "broken"}
  /\ NoPanicToCome(t) => NoPanicToCome(t)'
  /\ HasCanceller(t) => HasCanceller(t)'

\* What a sequence holds after an Append.
LEMMA RangeAppend ==
  ASSUME NEW S, NEW s \in Seq(S), NEW e \in S
  PROVE  Range(Append(s, e)) = Range(s) \cup {e}
<1>1. /\ DOMAIN Append(s, e) = 1 .. Len(s) + 1 /\ DOMAIN s = 1 .. Len(s) /\ Len(s) \in Nat
      /\ Append(s, e)[Len(s) + 1] = e
      /\ \A i \in 1 .. Len(s) : Append(s, e)[i] = s[i]
  OBVIOUS
<1>2. \A i \in 1 .. Len(s) + 1 : i \in 1 .. Len(s) \/ i = Len(s) + 1
  BY <1>1
<1> QED
  BY <1>1, <1>2 DEF Range

\* A step that leaves the tasks alone.
LEMMA QuietShows ==
  ASSUME IInv, LineInv, ShownInv, UNCHANGED <<task, sent, data, is_cancelled>>,
         cur' \in {cur, NoTask}, ReceiverGone => ReceiverGone',
         \A t \in Tasks : cx'[t] = "yes" => cx[t] = "yes",
         flags' = FLAG_TASK_PANICKED => flags = FLAG_TASK_PANICKED \/ ~ReceiverGone,
         flags' = FLAG_TASK_PANICKED /\ wpc' = "Err" =>
           flags = FLAG_TASK_PANICKED /\ wpc = "Err" /\ task_panic_msg' = task_panic_msg
  PROVE  ShownInv' /\ \A t \in Tasks : Ages(t)
<1>1. ShownInv'
  BY DEF ShownInv, HasCanceller, Begun, Range
<1>2. \A t \in Tasks : Ages(t)
  BY DEF Ages, NoPanicToCome, HasCanceller, Range, IInv, TypeOK
<1> QED
  BY <1>1, <1>2

\* The head of the channel comes into the worker's hands.
LEMMA RecvShows ==
  ASSUME IInv, LineInv, ShownInv, Recv
  PROVE  ShownInv' /\ \A t \in Tasks : Ages(t)
<1> USE DEF IInv, Recv
<1>1. ShownInv'
  BY DEF TypeOK, HandsInv, JobInv, PlaceInv, CleanInv, PanicInv, BlameInv, LineInv,
       BegunInv, ShownInv, HasCanceller, Begun, Range
<1>2. \A t \in Tasks : Ages(t)
  BY DEF TypeOK, HandsInv, JobInv, PlaceInv, LineInv, OrderInv, Ages, NoPanicToCome,
       HasCanceller, Range
<1> QED
  BY <1>1, <1>2

\* The worker ends well, with nothing in its hands.
LEMMA RecvClosedShows ==
  ASSUME IInv, LineInv, ShownInv, RecvClosed
  PROVE  ShownInv' /\ \A t \in Tasks : Ages(t)
<1> USE DEF IInv, RecvClosed, DestroyLocals
<1>1. ShownInv'
  BY DEF TypeOK, HandsInv, JobInv, PlaceInv, CleanInv, PanicInv, BlameInv, LineInv,
       BegunInv, ShownInv, HasCanceller, Begun, Range
<1>2. \A t \in Tasks : Ages(t)
  BY DEF TypeOK, HandsInv, JobInv, PlaceInv, LineInv, OrderInv, Ages, NoPanicToCome,
       HasCanceller, Range
<1> QED
  BY <1>1, <1>2

\* The worker ends well, and destroys what is queued.
LEMMA ObserveCancelShows ==
  ASSUME IInv, LineInv, ShownInv, ObserveCancel
  PROVE  ShownInv' /\ \A t \in Tasks : Ages(t)
<1> USE DEF IInv, ObserveCancel, DestroyLocals
<1>1. ShownInv'
  BY DEF TypeOK, HandsInv, JobInv, PlaceInv, CleanInv, PanicInv, BlameInv, LineInv,
       BegunInv, ShownInv, HasCanceller, Begun, Range
<1>2. \A t \in Tasks : Ages(t)
  BY DEF TypeOK, HandsInv, JobInv, PlaceInv, LineInv, OrderInv, Ages, NoPanicToCome,
       HasCanceller, Range
<1> QED
  BY <1>1, <1>2

\* The task in hand is taken.
LEMMA TakeTaskShows ==
  ASSUME IInv, LineInv, ShownInv, TakeTask
  PROVE  ShownInv' /\ \A t \in Tasks : Ages(t)
<1> USE DEF IInv, TakeTask
<1>1. ShownInv'
  BY DEF TypeOK, HandsInv, JobInv, PlaceInv, CleanInv, PanicInv, BlameInv, LineInv,
       BegunInv, ShownInv, HasCanceller, Begun, Range
<1>2. \A t \in Tasks : Ages(t)
  BY DEF TypeOK, HandsInv, JobInv, PlaceInv, LineInv, OrderInv, Ages, NoPanicToCome,
       HasCanceller, Range
<1> QED
  BY <1>1, <1>2

\* It gets the state and begins; or it is destroyed with the channel.
LEMMA StartAsyncShows ==
  ASSUME IInv, LineInv, ShownInv, StartAsync
  PROVE  ShownInv' /\ \A t \in Tasks : Ages(t)
<1> USE DEF IInv, StartAsync, DestroyLocals
<1>0. data' = data \/ Range(data') = Range(data) \cup {cur}
  <2>1. cur \in Tasks /\ data \in Seq(Tasks)
    BY DEF TypeOK, HandsInv
  <2>2. data' = data \/ data' = Append(data, cur)
    OBVIOUS
  <2> QED
    BY <2>1, <2>2, RangeAppend
<1>1. ShownInv'
  BY <1>0 DEF TypeOK, HandsInv, JobInv, PlaceInv, CleanInv, PanicInv, BlameInv, LineInv,
       BegunInv, ShownInv, HasCanceller, Begun
<1>2. \A t \in Tasks : Ages(t)
  BY DEF TypeOK, HandsInv, JobInv, PlaceInv, LineInv, OrderInv, Ages, NoPanicToCome,
       HasCanceller, Range
<1> QED
  BY <1>1, <1>2

\* It is destroyed, because the pool is closed.
LEMMA StartBlockingShutdownShows ==
  ASSUME IInv, LineInv, ShownInv, StartBlockingShutdown
  PROVE  ShownInv' /\ \A t \in Tasks : Ages(t)
<1> USE DEF IInv, StartBlockingShutdown
<1>1. ShownInv'
  BY DEF TypeOK, HandsInv, JobInv, PlaceInv, CleanInv, PanicInv, BlameInv, LineInv,
       BegunInv, ShownInv, HasCanceller, Begun, Range
<1>2. \A t \in Tasks : Ages(t)
  BY DEF TypeOK, HandsInv, JobInv, PlaceInv, LineInv, OrderInv, Ages, NoPanicToCome,
       HasCanceller, Range
<1> QED
  BY <1>1, <1>2

\* The task that runs in the worker's poll returns.
LEMMA AsyncReturnsShows ==
  ASSUME IInv, LineInv, ShownInv, AsyncReturns
  PROVE  ShownInv' /\ \A t \in Tasks : Ages(t)
<1> USE DEF IInv, AsyncReturns, NextTask
<1>1. ShownInv'
  BY DEF TypeOK, HandsInv, JobInv, PlaceInv, CleanInv, PanicInv, BlameInv, LineInv,
       BegunInv, ShownInv, HasCanceller, Begun, Range
<1>2. \A t \in Tasks : Ages(t)
  BY DEF TypeOK, HandsInv, JobInv, PlaceInv, LineInv, OrderInv, Ages, NoPanicToCome,
       HasCanceller, Range
<1> QED
  BY <1>1, <1>2

\* It panics, and the panic stays in the worker's hands.
LEMMA AsyncPanicsShows ==
  ASSUME IInv, LineInv, ShownInv, AsyncPanics
  PROVE  ShownInv' /\ \A t \in Tasks : Ages(t)
<1> USE DEF IInv, AsyncPanics
<1>1. ShownInv'
  BY DEF TypeOK, HandsInv, JobInv, PlaceInv, CleanInv, PanicInv, BlameInv, LineInv,
       BegunInv, ShownInv, HasCanceller, Begun, Range
<1>2. \A t \in Tasks : Ages(t)
  BY DEF TypeOK, HandsInv, JobInv, PlaceInv, LineInv, OrderInv, Ages, NoPanicToCome,
       HasCanceller, Range
<1> QED
  BY <1>1, <1>2

\* The closure gets the state, and its task begins.
LEMMA PoolStartShows ==
  ASSUME IInv, LineInv, ShownInv, PoolStart
  PROVE  ShownInv' /\ \A t \in Tasks : Ages(t)
<1> USE DEF IInv, PoolStart
<1>0. PICK k \in Blocking : /\ task[k] = "taken" /\ task' = [task EXCEPT ![k] = "running"]
                           /\ data' = Append(data, k)
  OBVIOUS
<1>00. k \in Tasks /\ Range(data') = Range(data) \cup {k}
  BY <1>0, RangeAppend DEF TypeOK
<1>1. ShownInv'
  BY <1>0, <1>00 DEF TypeOK, HandsInv, JobInv, PlaceInv, CleanInv, PanicInv, BlameInv,
       LineInv, BegunInv, ShownInv, HasCanceller, Begun
<1>2. \A t \in Tasks : Ages(t)
  BY DEF TypeOK, HandsInv, JobInv, PlaceInv, LineInv, OrderInv, Ages, NoPanicToCome,
       HasCanceller, Range
<1> QED
  BY <1>1, <1>2

\* The closure does not get the state: its task is destroyed.
LEMMA PoolRefuseShows ==
  ASSUME IInv, LineInv, ShownInv, PoolRefuse
  PROVE  ShownInv' /\ \A t \in Tasks : Ages(t)
<1> USE DEF IInv, PoolRefuse
<1>1. ShownInv'
  BY DEF TypeOK, HandsInv, JobInv, PlaceInv, CleanInv, PanicInv, BlameInv, LineInv,
       BegunInv, ShownInv, HasCanceller, Begun, Range
<1>2. \A t \in Tasks : Ages(t)
  BY DEF TypeOK, HandsInv, JobInv, PlaceInv, LineInv, OrderInv, Ages, NoPanicToCome,
       HasCanceller, Range
<1> QED
  BY <1>1, <1>2

\* The closure is destroyed, and its task with it.
LEMMA PoolShutdownShows ==
  ASSUME IInv, LineInv, ShownInv, PoolShutdown
  PROVE  ShownInv' /\ \A t \in Tasks : Ages(t)
<1> USE DEF IInv, PoolShutdown
<1>1. ShownInv'
  BY DEF TypeOK, HandsInv, JobInv, PlaceInv, CleanInv, PanicInv, BlameInv, LineInv,
       BegunInv, ShownInv, HasCanceller, Begun, Range
<1>2. \A t \in Tasks : Ages(t)
  BY DEF TypeOK, HandsInv, JobInv, PlaceInv, LineInv, OrderInv, Ages, NoPanicToCome,
       HasCanceller, Range
<1> QED
  BY <1>1, <1>2

\* The task that runs on the pool returns.
LEMMA PoolReturnsShows ==
  ASSUME IInv, LineInv, ShownInv, PoolReturns
  PROVE  ShownInv' /\ \A t \in Tasks : Ages(t)
<1> USE DEF IInv, PoolReturns
<1>1. ShownInv'
  BY DEF TypeOK, HandsInv, JobInv, PlaceInv, CleanInv, PanicInv, BlameInv, LineInv,
       BegunInv, ShownInv, HasCanceller, Begun, Range
<1>2. \A t \in Tasks : Ages(t)
  BY DEF TypeOK, HandsInv, JobInv, PlaceInv, LineInv, OrderInv, Ages, NoPanicToCome,
       HasCanceller, Range
<1> QED
  BY <1>1, <1>2

\* It panics; the panic is in the worker's hands if there is a worker.
LEMMA PoolPanicsShows ==
  ASSUME IInv, LineInv, ShownInv, PoolPanics
  PROVE  ShownInv' /\ \A t \in Tasks : Ages(t)
<1> USE DEF IInv, PoolPanics
<1>1. ShownInv'
  BY DEF TypeOK, HandsInv, JobInv, PlaceInv, CleanInv, PanicInv, BlameInv, LineInv,
       BegunInv, ShownInv, HasCanceller, Begun, Range
<1>2. \A t \in Tasks : Ages(t)
  BY DEF TypeOK, HandsInv, JobInv, PlaceInv, LineInv, OrderInv, Ages, NoPanicToCome,
       HasCanceller, Range
<1> QED
  BY <1>1, <1>2

\* The worker ends for a task that is already destroyed.
LEMMA BlockingLostShows ==
  ASSUME IInv, LineInv, ShownInv, BlockingLost
  PROVE  ShownInv' /\ \A t \in Tasks : Ages(t)
<1> USE DEF IInv, BlockingLost, DestroyLocals
<1>1. ShownInv'
  BY DEF TypeOK, HandsInv, JobInv, PlaceInv, CleanInv, PanicInv, BlameInv, LineInv,
       BegunInv, ShownInv, HasCanceller, Begun, Range
<1>2. \A t \in Tasks : Ages(t)
  BY DEF TypeOK, HandsInv, JobInv, PlaceInv, LineInv, OrderInv, Ages, NoPanicToCome,
       HasCanceller, Range
<1> QED
  BY <1>1, <1>2

\* The panic leaves the worker's hands for the task's handle.
LEMMA SendPanicShows ==
  ASSUME IInv, LineInv, ShownInv, SendPanic
  PROVE  ShownInv' /\ \A t \in Tasks : Ages(t)
<1> USE DEF IInv, SendPanic
<1>1. ShownInv'
  BY DEF TypeOK, HandsInv, JobInv, PlaceInv, CleanInv, PanicInv, BlameInv, LineInv,
       BegunInv, ShownInv, HasCanceller, Begun, Range
<1>2. \A t \in Tasks : Ages(t)
  BY DEF TypeOK, HandsInv, JobInv, PlaceInv, LineInv, OrderInv, Ages, NoPanicToCome,
       HasCanceller, Range
<1> QED
  BY <1>1, <1>2

\* The worker ends, and the panic it ends for is the only one.
LEMMA ReturnErrShows ==
  ASSUME IInv, LineInv, ShownInv, ReturnErr
  PROVE  ShownInv' /\ \A t \in Tasks : Ages(t)
<1> USE DEF IInv, ReturnErr, DestroyLocals
<1>1. ShownInv'
  BY DEF TypeOK, HandsInv, JobInv, PlaceInv, CleanInv, PanicInv, BlameInv, LineInv,
       BegunInv, ShownInv, HasCanceller, Begun, Range
<1>2. \A t \in Tasks : Ages(t)
  BY DEF TypeOK, HandsInv, JobInv, PlaceInv, LineInv, OrderInv, Ages, NoPanicToCome,
       HasCanceller, Range
<1> QED
  BY <1>1, <1>2

\* The worker is destroyed with nothing in its hands.
LEMMA DropAtRecvShows ==
  ASSUME IInv, LineInv, ShownInv, DropAtRecv
  PROVE  ShownInv' /\ \A t \in Tasks : Ages(t)
<1> USE DEF IInv, DropAtRecv, DestroyLocals
<1>1. ShownInv'
  BY DEF TypeOK, HandsInv, JobInv, PlaceInv, CleanInv, PanicInv, BlameInv, LineInv,
       BegunInv, ShownInv, HasCanceller, Begun, Range
<1>2. \A t \in Tasks : Ages(t)
  BY DEF TypeOK, HandsInv, JobInv, PlaceInv, LineInv, OrderInv, Ages, NoPanicToCome,
       HasCanceller, Range
<1> QED
  BY <1>1, <1>2

\* The worker is destroyed, and the task that runs in it.
LEMMA DropInAsyncShows ==
  ASSUME IInv, LineInv, ShownInv, DropInAsync
  PROVE  ShownInv' /\ \A t \in Tasks : Ages(t)
<1> USE DEF IInv, DropInAsync, DestroyLocals
<1>1. ShownInv'
  BY DEF TypeOK, HandsInv, JobInv, PlaceInv, CleanInv, PanicInv, BlameInv, LineInv,
       BegunInv, ShownInv, HasCanceller, Begun, Range
<1>2. \A t \in Tasks : Ages(t)
  BY DEF TypeOK, HandsInv, JobInv, PlaceInv, LineInv, OrderInv, Ages, NoPanicToCome,
       HasCanceller, Range
<1> QED
  BY <1>1, <1>2

\* The worker is destroyed, and leaves its closure on the pool.
LEMMA DropInBlockingShows ==
  ASSUME IInv, LineInv, ShownInv, DropInBlocking
  PROVE  ShownInv' /\ \A t \in Tasks : Ages(t)
<1> USE DEF IInv, DropInBlocking, DestroyLocals
<1>1. ShownInv'
  BY DEF TypeOK, HandsInv, JobInv, PlaceInv, CleanInv, PanicInv, BlameInv, LineInv,
       BegunInv, ShownInv, HasCanceller, Begun, Range
<1>2. \A t \in Tasks : Ages(t)
  BY DEF TypeOK, HandsInv, JobInv, PlaceInv, LineInv, OrderInv, Ages, NoPanicToCome,
       HasCanceller, Range
<1> QED
  BY <1>1, <1>2

\* A task is accepted, and is in the history.
LEMMA SubmitShows ==
  ASSUME IInv, LineInv, ShownInv, NEW k \in Tasks, Submit(k)
  PROVE  ShownInv' /\ \A t \in Tasks : Ages(t)
<1> USE DEF IInv, Submit
<1>0. Range(sent') = Range(sent) \cup {k} /\ k \in Tasks
  BY RangeAppend DEF TypeOK
<1>1. ShownInv'
  BY <1>0 DEF TypeOK, HandsInv, JobInv, PlaceInv, CleanInv, PanicInv, BlameInv, LineInv,
       BegunInv, ShownInv, HasCanceller, Begun
<1>2. \A t \in Tasks : Ages(t)
  BY <1>0 DEF TypeOK, HandsInv, JobInv, PlaceInv, LineInv, OrderInv, Ages, NoPanicToCome,
       HasCanceller
<1> QED
  BY <1>1, <1>2

\* A task comes to nothing but a refusal.
LEMMA SubmitFailsShows ==
  ASSUME IInv, LineInv, ShownInv, NEW k \in Tasks, SubmitFails(k)
  PROVE  ShownInv' /\ \A t \in Tasks : Ages(t)
<1> USE DEF IInv, SubmitFails
<1>1. ShownInv'
  BY DEF TypeOK, HandsInv, JobInv, PlaceInv, CleanInv, PanicInv, BlameInv, LineInv,
       BegunInv, ShownInv, HasCanceller, Begun, Range
<1>2. \A t \in Tasks : Ages(t)
  BY DEF TypeOK, HandsInv, JobInv, PlaceInv, LineInv, OrderInv, Ages, NoPanicToCome,
       HasCanceller, Range
<1> QED
  BY <1>1, <1>2

\* A task is refused.
LEMMA SubmitUnavailableShows ==
  ASSUME IInv, LineInv, ShownInv, NEW k \in Tasks, SubmitUnavailable(k)
  PROVE  ShownInv' /\ \A t \in Tasks : Ages(t)
<1> USE DEF IInv, SubmitUnavailable
<1>1. ShownInv'
  BY DEF TypeOK, HandsInv, JobInv, PlaceInv, CleanInv, PanicInv, BlameInv, LineInv,
       BegunInv, ShownInv, HasCanceller, Begun, Range
<1>2. \A t \in Tasks : Ages(t)
  BY DEF TypeOK, HandsInv, JobInv, PlaceInv, LineInv, OrderInv, Ages, NoPanicToCome,
       HasCanceller, Range
<1> QED
  BY <1>1, <1>2

\* A task is refused; for a shutdown only where no panic ended the worker.
LEMMA ReportSendErrorShows ==
  ASSUME IInv, LineInv, ShownInv, NEW k \in Tasks, ReportSendError(k)
  PROVE  ShownInv' /\ \A t \in Tasks : Ages(t)
<1> USE DEF IInv, ReportSendError
<1>1. ShownInv'
  BY DEF TypeOK, HandsInv, JobInv, PlaceInv, CleanInv, PanicInv, BlameInv, ChannelInv,
       LineInv, BegunInv, ShownInv, HasCanceller, Begun, Range
<1>2. \A t \in Tasks : Ages(t)
  BY DEF TypeOK, HandsInv, JobInv, PlaceInv, LineInv, OrderInv, Ages, NoPanicToCome,
       HasCanceller, Range
<1> QED
  BY <1>1, <1>2

\* The canceller takes the payload, if it is still to be had.
LEMMA CancelTakeShows ==
  ASSUME IInv, LineInv, ShownInv, NEW k \in Tasks, CancelTake(k)
  PROVE  ShownInv' /\ \A t \in Tasks : Ages(t)
<1> USE DEF IInv, CancelTake, Takeable
<1>1. ShownInv'
  BY DEF TypeOK, HandsInv, JobInv, PlaceInv, CleanInv, PanicInv, BlameInv, LineInv,
       BegunInv, ShownInv, HasCanceller, Begun, Range
<1>2. \A t \in Tasks : Ages(t)
  BY DEF TypeOK, HandsInv, JobInv, PlaceInv, LineInv, OrderInv, Ages, NoPanicToCome,
       HasCanceller, Range
<1> QED
  BY <1>1, <1>2

\* The canceller answers, after the flag of its task is stored.
LEMMA CancelStoreShows ==
  ASSUME IInv, LineInv, ShownInv, NEW k \in Tasks, CancelStore(k)
  PROVE  ShownInv' /\ \A t \in Tasks : Ages(t)
<1> USE DEF IInv, CancelStore
<1>1. ShownInv'
  BY DEF TypeOK, HandsInv, JobInv, PlaceInv, CleanInv, PanicInv, BlameInv, LineInv,
       BegunInv, ShownInv, HasCanceller, Begun, Range
<1>2. \A t \in Tasks : Ages(t)
  BY DEF TypeOK, HandsInv, JobInv, PlaceInv, LineInv, OrderInv, Ages, NoPanicToCome,
       HasCanceller, Range
<1> QED
  BY <1>1, <1>2


\* The steps of the rest that leave the tasks alone.
LEMMA WorkerShows ==
  ASSUME IInv, LineInv, ShownInv,
         PassFlag \/ SkipCancelled \/ StartBlocking \/ BlockingReturned \/ BlockingPanicked
         \/ SetMsg \/ SetFlag \/ CompleteJoinHandle \/ Shutdown
  PROVE  ShownInv' /\ \A t \in Tasks : Ages(t)
<1>1. UNCHANGED <<task, sent, data, is_cancelled, cx>> /\ cur' \in {cur, NoTask}
  BY DEF PassFlag, SkipCancelled, StartBlocking, BlockingReturned, BlockingPanicked, SetMsg,
     SetFlag, CompleteJoinHandle, Shutdown, NextTask
<1>2. /\ ReceiverGone => ReceiverGone'
      /\ flags' = FLAG_TASK_PANICKED => flags = FLAG_TASK_PANICKED \/ ~ReceiverGone
      /\ flags' = FLAG_TASK_PANICKED /\ wpc' = "Err" =>
           flags = FLAG_TASK_PANICKED /\ wpc = "Err" /\ task_panic_msg' = task_panic_msg
  BY DEF PassFlag, SkipCancelled, StartBlocking, BlockingReturned, BlockingPanicked, SetMsg,
     SetFlag, CompleteJoinHandle, Shutdown, NextTask, SetPanicMsg, StoreTaskPanicked
<1> QED
  BY <1>1, <1>2, QuietShows

\* The owner's steps leave the tasks alone.
LEMMA HandleShows ==
  ASSUME IInv, LineInv, ShownInv, HandleNext
  PROVE  ShownInv' /\ \A t \in Tasks : Ages(t)
<1> USE DEF HandleNext, HandleRuns, JoinRuns, CloseSenders, Consume, CheckFinished, TrySetAbort,
       TrySetCancel, AbortWorker, CloseAll, DropSenders, JoinAwait, JoinLock, JoinTake,
       JoinReport, DropJoin, TrySetFlag
<1>1. UNCHANGED <<task, sent, data, is_cancelled, cx, cur, wpc, task_panic_msg>>
  OBVIOUS
<1>2. flags' = FLAG_TASK_PANICKED => flags = FLAG_TASK_PANICKED
  OBVIOUS
<1> QED
  BY <1>1, <1>2, QuietShows

\* So do the spawners' own, and the first two of a canceller.
LEMMA OthersShow ==
  ASSUME IInv, LineInv, ShownInv,
         \/ \E s \in Spawners : NewSpawner(s) \/ DropSpawner(s)
         \/ \E t \in Tasks : CancelReadFlag(t) \/ CancelUpgrade(t)
         \/ UNCHANGED vars
  PROVE  ShownInv' /\ \A t \in Tasks : Ages(t)
<1>1. UNCHANGED <<task, sent, data, is_cancelled, cur, wpc, flags, task_panic_msg>>
  BY DEF NewSpawner, DropSpawner, CancelReadFlag, CancelUpgrade, vars
<1>2. \A t \in Tasks : cx'[t] = "yes" => cx[t] = "yes"
  BY DEF NewSpawner, DropSpawner, CancelReadFlag, CancelUpgrade, vars, IInv, TypeOK
<1> QED
  BY <1>1, <1>2, QuietShows

\* One case for each of the groups that Next is made of.
LEMMA StepShows ==
  ASSUME IInv, LineInv, ShownInv, [Next]_vars
  PROVE  ShownInv' /\ \A t \in Tasks : Ages(t)
<1>1. CASE Loop
  BY <1>1, RecvShows, RecvClosedShows, ObserveCancelShows, TakeTaskShows, StartAsyncShows,
     StartBlockingShutdownShows, BlockingLostShows, SendPanicShows, ReturnErrShows, WorkerShows
     DEF Loop
<1>2. CASE AsyncBody \/ Pool \/ PoolBody
  BY <1>2, AsyncReturnsShows, AsyncPanicsShows, PoolStartShows, PoolRefuseShows,
     PoolShutdownShows, PoolReturnsShows, PoolPanicsShows DEF AsyncBody, Pool, PoolBody
<1>3. CASE Drops \/ CompleteJoinHandle \/ Shutdown
  BY <1>3, DropAtRecvShows, DropInAsyncShows, DropInBlockingShows, WorkerShows DEF Drops
<1>4. CASE SenderNext
  BY <1>4, SubmitShows, SubmitFailsShows, SubmitUnavailableShows, ReportSendErrorShows,
     OthersShow DEF SenderNext
<1>5. CASE CancellerNext
  BY <1>5, OthersShow, CancelTakeShows, CancelStoreShows DEF CancellerNext, CancelRuns
<1>6. CASE HandleNext
  BY <1>6, HandleShows
<1>7. CASE UNCHANGED vars
  BY <1>7, OthersShow
<1> QED
  BY <1>1, <1>2, <1>3, <1>4, <1>5, <1>6, <1>7 DEF Next, WorkerNext

\* What does not depend on the tasks goes one way: the runtime, the handle, a panic.
LEMMA StepGoesOn ==
  ASSUME [Next]_vars, IInv
  PROVE  /\ ~up => ~up'
         /\ op # "none" => op' = op
         /\ flags = FLAG_TASK_PANICKED => flags' = FLAG_TASK_PANICKED
         /\ flags # FLAG_OTHER => flags' # FLAG_OTHER
         /\ ReceiverGone => ReceiverGone'
<1>1. CASE WorkerNext
  BY <1>1 DEF WorkerNext, Loop, AsyncBody, Pool, PoolBody, Drops, Recv, RecvClosed,
     ObserveCancel, PassFlag, TakeTask, SkipCancelled, StartAsync, StartBlocking,
     StartBlockingShutdown, BlockingReturned, BlockingPanicked, BlockingLost, SetMsg, SetFlag,
     SendPanic, ReturnErr, AsyncReturns, AsyncPanics, PoolStart, PoolRefuse, PoolShutdown,
     PoolReturns, PoolPanics, DropAtRecv, DropInAsync, DropInBlocking, CompleteJoinHandle,
     Shutdown, NextTask, DestroyLocals, SetPanicMsg, StoreTaskPanicked
<1>2. CASE SenderNext \/ CancellerNext
  BY <1>2 DEF SenderNext, CancellerNext, CancelRuns, Submit, SubmitFails, SubmitUnavailable,
     ReportSendError, NewSpawner, DropSpawner, CancelReadFlag, CancelUpgrade, CancelTake,
     CancelStore
<1>3. CASE HandleNext
  BY <1>3 DEF HandleNext, HandleRuns, JoinRuns, CloseSenders, Consume, CheckFinished,
     TrySetAbort, TrySetCancel, AbortWorker, CloseAll, DropSenders, JoinAwait, JoinLock,
     JoinTake, JoinReport, DropJoin, TrySetFlag, IInv, JoinInv
<1>4. CASE UNCHANGED vars
  BY <1>4 DEF vars
<1> QED
  BY <1>1, <1>2, <1>3, <1>4 DEF Next

-----------------------------------------------------------------------------
(* A join that reports has taken the state, so nothing begins after it.     *)

\* No join has begun.
LEMMA InitTaken == Init => TakenInv
BY DEF Init, TakenInv

\* Only a join takes the state, and it reports next.
LEMMA StepTaken ==
  ASSUME IInv, TakenInv, [Next]_vars
  PROVE  TakenInv'
<1>1. CASE WorkerNext
  BY <1>1 DEF TakenInv, WorkerNext, Loop, AsyncBody, Pool, PoolBody, Drops, Recv, RecvClosed,
     ObserveCancel, PassFlag, TakeTask, SkipCancelled, StartAsync, StartBlocking,
     StartBlockingShutdown, BlockingReturned, BlockingPanicked, BlockingLost, SetMsg, SetFlag,
     SendPanic, ReturnErr, AsyncReturns, AsyncPanics, PoolStart, PoolRefuse, PoolShutdown,
     PoolReturns, PoolPanics, DropAtRecv, DropInAsync, DropInBlocking, CompleteJoinHandle,
     Shutdown
<1>2. CASE SenderNext \/ CancellerNext
  BY <1>2 DEF TakenInv, SenderNext, CancellerNext, CancelRuns, Submit, SubmitFails,
     SubmitUnavailable, ReportSendError, NewSpawner, DropSpawner, CancelReadFlag, CancelUpgrade,
     CancelTake, CancelStore
<1>3. CASE HandleNext
  BY <1>3 DEF TakenInv, HandleNext, HandleRuns, JoinRuns, CloseSenders, Consume, CheckFinished,
     TrySetAbort, TrySetCancel, AbortWorker, CloseAll, DropSenders, JoinAwait, JoinLock,
     JoinTake, JoinReport, DropJoin, IInv, JoinInv
<1>4. CASE UNCHANGED vars
  BY <1>4 DEF vars, TakenInv
<1> QED
  BY <1>1, <1>2, <1>3, <1>4 DEF Next

-----------------------------------------------------------------------------
(* What the promise sees of a state.                                        *)

Waiting == {t \in Tasks : task[t] \in {"queued", "taken"}}
Active == IF \E t \in Tasks : task[t] = "running"
            THEN CHOOSE t \in Tasks : task[t] = "running" ELSE NoTask
Broken == \E t \in Tasks : task[t] \in {"unwound", "panicked", "broken"}
Outcome == CASE hres = "Ok" -> "sound"
             [] hres \in {"none", "expect_failed"} -> "open"
             [] OTHER -> "poisoned"

Promised == [Promise!PromiseNext]_(Promise!promiseVars)

\* There is one task that runs, or none.
LEMMA ActiveIs ==
  ASSUME IInv, NEW t \in Tasks, task[t] = "running"
  PROVE  Active = t
<1>1. \A a, b \in Tasks : task[a] = "running" /\ task[b] = "running" => a = b
  BY DEF IInv, PlaceInv
<1>2. PICK c \in Tasks : task[c] = "running" /\ Active = c
  BY DEF Active
<1> QED
  BY <1>1, <1>2

\* And so in the next state.
LEMMA ActiveIsNext ==
  ASSUME IInv', NEW t \in Tasks, task'[t] = "running"
  PROVE  Active' = t
<1>1. \A a, b \in Tasks : task'[a] = "running" /\ task'[b] = "running" => a = b
  BY DEF IInv, PlaceInv
<1>2. PICK c \in Tasks : task'[c] = "running" /\ Active' = c
  BY DEF Active
<1> QED
  BY <1>1, <1>2

\* What no longer waits has left the line, if that is all that happens.
LEMMA ShrinksPromised ==
  ASSUME IInv, IInv', UNCHANGED <<sent, data, hres>>,
         \A t \in Tasks :
           /\ task'[t] = "running" <=> task[t] = "running"
           /\ task'[t] \in {"unwound", "panicked", "broken"} <=>
                task[t] \in {"unwound", "panicked", "broken"}
           /\ task'[t] \in {"queued", "taken"} => task[t] \in {"queued", "taken"}
  PROVE  Promised
<1>1. Active' = Active
  <2>1. CASE \E t \in Tasks : task[t] = "running"
    BY <2>1, ActiveIs, ActiveIsNext
  <2>2. CASE ~\E t \in Tasks : task[t] = "running"
    BY <2>2 DEF Active
  <2> QED
    BY <2>1, <2>2
<1>2. Broken' = Broken /\ Outcome' = Outcome
  BY DEF Broken, Outcome
<1>3. PICK out \in SUBSET Tasks : Waiting' = Waiting \ out
  <2>1. Waiting' = Waiting \ (Waiting \ Waiting') /\ Waiting \ Waiting' \in SUBSET Tasks
    BY DEF Waiting
  <2> QED
    BY <2>1
<1>4. Promise!Discard(out)
  BY <1>1, <1>2, <1>3 DEF Promise!Discard, Waiting, Active, Broken, Outcome
<1> QED
  BY <1>4 DEF Promised, Promise!PromiseNext

\* Whoever finds the state's lock free, finds no task running.
LEMMA FreeIsIdle ==
  ASSUME IInv, lock = "free"
  PROVE  Active = NoTask /\ \A t \in Tasks : task[t] # "running"
BY DEF IInv, LockInv, PlaceInv, Active

\* A task that was taken gets the state.
LEMMA BeginsPromised ==
  ASSUME IInv, IInv', LineInv, ShownInv, TakenInv, NEW k \in Tasks, task[k] = "taken",
         lock = "free", present,
         \A t \in Tasks : task[t] \notin {"unwound", "panicked", "broken"},
         task' = [task EXCEPT ![k] = "running"], data' = Append(data, k), UNCHANGED <<sent, hres>>
  PROVE  Promised
<1>0. task \in [Tasks -> TaskStatus]
  BY DEF IInv, TypeOK
<1>1. Active = NoTask /\ Active' = k
  BY <1>0, FreeIsIdle, ActiveIsNext
<1>2. ~Broken /\ ~Broken'
  BY <1>0 DEF Broken
<1>3. Outcome = "open" /\ Outcome' = Outcome
  BY DEF TakenInv, Outcome
<1>4. k \in Waiting /\ Waiting' = Waiting \ {k}
  BY <1>0 DEF Waiting
<1>5. PICK j \in DOMAIN sent : sent[j] = k
  BY DEF ShownInv, HasCanceller, Range
<1>6. \A i \in 1 .. j - 1 : task[sent[i]] \in {"done", "cancelled"}
  BY <1>5 DEF LineInv, OrderInv
<1>7. \A i \in 1 .. j - 1 : sent[i] \notin Waiting
  BY <1>6 DEF Waiting
<1>8. Promise!First(k)
  BY <1>5, <1>7 DEF Promise!First, Waiting
<1>9. Promise!Begin(k)
  BY <1>1, <1>2, <1>3, <1>4, <1>8 DEF Promise!Begin, Waiting, Active, Broken, Outcome
<1> QED
  BY <1>9 DEF Promised, Promise!PromiseNext

\* The task that runs returns, or it leaves the state half done.
LEMMA EndsPromised ==
  ASSUME IInv, NEW r \in Tasks, task[r] = "running", UNCHANGED <<sent, data, hres>>,
         task'[r] \in {"done", "unwound", "broken"},
         \A t \in Tasks \ {r} :
           /\ task'[t] # "running"
           /\ task'[t] \in {"unwound", "panicked", "broken"} <=>
                task[t] \in {"unwound", "panicked", "broken"}
           /\ task'[t] \in {"queued", "taken"} => task[t] \in {"queued", "taken"}
           /\ task'[r] = "done" => task'[t] = task[t]
  PROVE  Promised
<1>1. Active = r /\ r # NoTask
  BY ActiveIs
<1>2. Active' = NoTask
  BY DEF Active
<1>3. Outcome' = Outcome
  BY DEF Outcome
<1>4. CASE task'[r] = "done"
  <2>1. Waiting' = Waiting /\ Broken' = Broken
    BY <1>4 DEF Waiting, Broken
  <2>2. Promise!End
    BY <1>1, <1>2, <1>3, <2>1 DEF Promise!End, Waiting, Active, Broken, Outcome
  <2> QED
    BY <2>2 DEF Promised, Promise!PromiseNext
<1>5. CASE task'[r] # "done"
  <2>1. Broken'
    BY <1>5 DEF Broken
  <2>2. PICK out \in SUBSET Tasks : Waiting' = Waiting \ out
    <3>1. Waiting' = Waiting \ (Waiting \ Waiting') /\ Waiting \ Waiting' \in SUBSET Tasks
      BY DEF Waiting
    <3> QED
      BY <3>1
  <2>3. Promise!Break(out)
    BY <1>1, <1>2, <1>3, <2>1, <2>2 DEF Promise!Break, Waiting, Active, Broken, Outcome
  <2> QED
    BY <2>3 DEF Promised, Promise!PromiseNext
<1> QED
  BY <1>4, <1>5

\* The state is locked, or the lock is free: then the worker drops the task unbegun.
LEMMA StartAsyncPromised ==
  ASSUME IInv, IInv', LineInv, ShownInv, TakenInv, StartAsync
  PROVE  Promised
<1>0. task \in [Tasks -> TaskStatus] /\ cur \in Tasks /\ task[cur] = "taken"
  BY DEF IInv, TypeOK, HandsInv, StartAsync
<1>1. CASE lock = "free" /\ present
  <2>1. \A t \in Tasks : task[t] \notin {"unwound", "panicked", "broken"}
    BY DEF IInv, CleanInv, StartAsync
  <2>2. /\ task' = [task EXCEPT ![cur] = "running"] /\ data' = Append(data, cur)
        /\ UNCHANGED <<sent, hres>>
    BY <1>1 DEF StartAsync
  <2> QED
    BY <1>0, <1>1, <2>1, <2>2, BeginsPromised
<1>2. CASE ~(lock = "free" /\ present)
  <2>1. /\ UNCHANGED <<sent, data, hres>>
        /\ \A t \in Tasks : task'[t] = task[t] \/ (task[t] \in {"queued", "taken"}
                                                  /\ task'[t] \in {"dropped", "kept"})
    BY <1>0, <1>2 DEF StartAsync, DestroyLocals
  <2> QED
    BY <2>1, ShrinksPromised
<1> QED
  BY <1>1, <1>2

\* The closure's task gets the state; no task was broken off before it.
LEMMA PoolStartPromised ==
  ASSUME IInv, IInv', LineInv, ShownInv, TakenInv, PoolStart
  PROVE  Promised
<1>1. PICK t \in Blocking : /\ task[t] = "taken" /\ task' = [task EXCEPT ![t] = "running"]
                            /\ data' = Append(data, t)
  BY DEF PoolStart
<1>2. \A u \in Tasks : task[u] \notin {"unwound", "panicked", "broken"}
  BY DEF IInv, CleanInv, PoolStart
<1>3. t \in Tasks /\ lock = "free" /\ present /\ UNCHANGED <<sent, hres>>
  BY DEF PoolStart
<1> QED
  BY <1>1, <1>2, <1>3, BeginsPromised

\* The task in the worker's poll returns, panics or is destroyed half done.
LEMMA AsyncEndsPromised ==
  ASSUME IInv, IInv', AsyncReturns \/ AsyncPanics \/ DropInAsync
  PROVE  Promised
<1>1. task \in [Tasks -> TaskStatus] /\ cur \in Tasks /\ task[cur] = "running"
  BY DEF IInv, TypeOK, HandsInv, AsyncReturns, AsyncPanics, DropInAsync
<1>2. \A t \in Tasks : task[t] = "running" => t = cur
  BY <1>1 DEF IInv, PlaceInv
<1>3. UNCHANGED <<sent, data, hres>>
  BY DEF AsyncReturns, AsyncPanics, DropInAsync, DestroyLocals, NextTask
<1>4. CASE AsyncReturns \/ AsyncPanics
  <2>1. task' = [task EXCEPT ![cur] = "done"] \/ task' = [task EXCEPT ![cur] = "unwound"]
    BY <1>4 DEF AsyncReturns, AsyncPanics
  <2> QED
    BY <1>1, <1>2, <1>3, <2>1, EndsPromised
<1>5. CASE DropInAsync
  <2>1. /\ task'[cur] = "broken"
        /\ \A t \in Tasks \ {cur} : task'[t] = task[t] \/ (task[t] = "queued"
                                                  /\ task'[t] \in {"dropped", "kept"})
    BY <1>1, <1>5 DEF DropInAsync, DestroyLocals
  <2> QED
    BY <1>1, <1>2, <1>3, <2>1, EndsPromised
<1> QED
  BY <1>4, <1>5

\* The task on the pool returns or panics.
LEMMA PoolEndsPromised ==
  ASSUME IInv, IInv', PoolReturns \/ PoolPanics
  PROVE  Promised
<1>1. UNCHANGED <<sent, data, hres>>
  BY DEF PoolReturns, PoolPanics
<1>2. CASE \E r \in Blocking : task[r] = "running"
  <2>1. PICK r \in Blocking : task[r] = "running"
    BY <1>2
  <2>2. \A t \in Tasks : task[t] = "running" => t = r
    BY <2>1 DEF IInv, PlaceInv
  <2>3. /\ task'[r] \in {"done", "unwound"}
        /\ \A t \in Tasks \ {r} : task'[t] = task[t]
    BY <2>1, <2>2 DEF PoolReturns, PoolPanics
  <2> QED
    BY <1>1, <2>1, <2>2, <2>3, EndsPromised
<1>3. CASE ~\E r \in Blocking : task[r] = "running"
  <2>1. \A t \in Tasks : task'[t] = task[t]
    BY <1>3 DEF PoolReturns, PoolPanics
  <2> QED
    BY <1>1, <2>1, ShrinksPromised
<1> QED
  BY <1>2, <1>3

\* A task that was never accepted is.
LEMMA SubmitPromised ==
  ASSUME IInv, IInv', NEW k \in Tasks, Submit(k)
  PROVE  Promised
<1>1. /\ task \in [Tasks -> TaskStatus] /\ task[k] = "new" /\ task' = [task EXCEPT ![k] = "queued"]
      /\ sent' = Append(sent, k) /\ UNCHANGED <<data, hres>>
  BY DEF IInv, TypeOK, Submit
<1>2. k \notin Range(sent)
  BY <1>1 DEF IInv, ChannelInv, Range
<1>3. Waiting' = Waiting \cup {k}
  BY <1>1 DEF Waiting
<1>4. Active' = Active
  <2>1. \A t \in Tasks : task'[t] = "running" <=> task[t] = "running"
    BY <1>1
  <2>2. CASE \E t \in Tasks : task[t] = "running"
    BY <2>1, <2>2, ActiveIs, ActiveIsNext
  <2>3. CASE ~\E t \in Tasks : task[t] = "running"
    BY <2>1, <2>3 DEF Active
  <2> QED
    BY <2>2, <2>3
<1>5. Broken' = Broken /\ Outcome' = Outcome
  BY <1>1 DEF Broken, Outcome
<1>6. Promise!Accept(k)
  BY <1>1, <1>2, <1>3, <1>4, <1>5 DEF Promise!Accept, Promise!Range, Range, Waiting, Active,
       Broken, Outcome
<1> QED
  BY <1>6 DEF Promised, Promise!PromiseNext

\* A join that reports Ok follows a worker that ended well, and left nothing.
LEMMA JoinReportPromised ==
  ASSUME IInv, TakenInv, JoinReport
  PROVE  Promised
<1>1. hpc = "report" /\ hres = "none" /\ UNCHANGED <<task, sent, data>>
  BY DEF IInv, JoinInv, JoinReport
<1>2. Active = NoTask /\ Active' = NoTask
  BY <1>1, FreeIsIdle DEF TakenInv, IInv, LockInv, Active
<1>3. Waiting' = Waiting /\ Broken' = Broken
  BY <1>1 DEF Waiting, Broken
<1>4. Outcome = "open"
  BY <1>1 DEF Outcome
<1>5. hres' \in {"Ok", "AnyTaskPanic", "RuntimeShutdown", "WorkerAborted"} /\ (hres' = "Ok" => wpc = "Ok")
  BY DEF JoinReport, JoinOutcome
<1>6. CASE hres' = "Ok"
  <2>1. wpc = "Ok" /\ ReceiverGone
    BY <1>5, <1>6
  <2>2. ~Broken
    BY <2>1 DEF Broken, IInv, CleanInv, HandsInv
  <2>3. Waiting = {}
    BY <2>1 DEF Waiting, IInv, ChannelInv, HandsInv, PlaceInv, JobInv
  <2>4. Outcome' = "sound"
    BY <1>6 DEF Outcome
  <2>5. Promise!HandBack("sound")
    BY <1>1, <1>2, <1>3, <1>4, <2>2, <2>3, <2>4
       DEF Promise!HandBack, Waiting, Active, Broken, Outcome
  <2> QED
    BY <2>5 DEF Promised, Promise!PromiseNext
<1>7. CASE hres' # "Ok"
  <2>1. Outcome' = "poisoned"
    BY <1>5, <1>7 DEF Outcome
  <2>2. Promise!HandBack("poisoned")
    BY <1>1, <1>2, <1>3, <1>4, <2>1 DEF Promise!HandBack, Waiting, Active, Broken, Outcome
  <2> QED
    BY <2>2 DEF Promised, Promise!PromiseNext
<1> QED
  BY <1>6, <1>7

-----------------------------------------------------------------------------
(* Every step, and what follows.                                            *)

\* The steps by which no task begins or ends, and nothing is accepted or handed back.
LEMMA RestPromised ==
  ASSUME IInv, IInv', LineInv, ShownInv, [Next]_vars,
         ~StartAsync, ~PoolStart, ~AsyncReturns, ~AsyncPanics, ~DropInAsync, ~PoolReturns,
         ~PoolPanics, ~JoinReport, ~\E t \in Tasks : Submit(t)
  PROVE  Promised
<1> DEFINE Shrinks ==
      /\ UNCHANGED <<sent, data, hres>>
      /\ \A t \in Tasks :
           /\ task'[t] = "running" <=> task[t] = "running"
           /\ task'[t] \in {"unwound", "panicked", "broken"} <=>
                task[t] \in {"unwound", "panicked", "broken"}
           /\ task'[t] \in {"queued", "taken"} => task[t] \in {"queued", "taken"}
<1>1. task \in [Tasks -> TaskStatus]
  BY DEF IInv, TypeOK
<1>2. CASE Loop
  <2> SUFFICES Shrinks
    BY ShrinksPromised
  <2>1. cur # NoTask => cur \in Tasks
    BY DEF IInv, TypeOK
  <2>2. CASE Recv \/ RecvClosed \/ PassFlag \/ SkipCancelled \/ StartBlocking \/ BlockingReturned
             \/ BlockingPanicked \/ SetMsg \/ SetFlag
    BY <2>2 DEF Recv, RecvClosed, PassFlag, SkipCancelled, StartBlocking, BlockingReturned,
       BlockingPanicked, SetMsg, SetFlag, NextTask, DestroyLocals, IInv, HandsInv
  <2>3. CASE TakeTask \/ StartBlockingShutdown \/ SendPanic
    BY <1>1, <2>1, <2>3 DEF TakeTask, StartBlockingShutdown, SendPanic, IInv, HandsInv
  <2>4. CASE ObserveCancel \/ BlockingLost \/ ReturnErr
    BY <1>1, <2>1, <2>4 DEF ObserveCancel, BlockingLost, ReturnErr, DestroyLocals, IInv,
         HandsInv,
       JobInv, LineInv, OrderInv
  <2> QED
    BY <1>2, <2>2, <2>3, <2>4 DEF Loop
<1>3. CASE Pool
  <2>1. Shrinks
    BY <1>1, <1>3 DEF Pool, PoolRefuse, PoolShutdown
  <2> QED
    BY <2>1, ShrinksPromised
<1>4. CASE Drops \/ CompleteJoinHandle \/ Shutdown
  <2>1. Shrinks
    BY <1>1, <1>4 DEF Drops, DropAtRecv, DropInBlocking, CompleteJoinHandle, Shutdown,
       DestroyLocals, IInv, HandsInv
  <2> QED
    BY <2>1, ShrinksPromised
<1>5. CASE SenderNext
  <2>1. Shrinks
    BY <1>1, <1>5 DEF SenderNext, SubmitFails, SubmitUnavailable, ReportSendError, NewSpawner,
       DropSpawner
  <2> QED
    BY <2>1, ShrinksPromised
<1>6. CASE CancellerNext
  <2>1. Shrinks
    BY <1>1, <1>6 DEF CancellerNext, CancelRuns, CancelReadFlag, CancelUpgrade, CancelTake,
       CancelStore, Takeable
  <2> QED
    BY <2>1, ShrinksPromised
<1>7. CASE HandleNext
  <2>1. UNCHANGED <<task, sent, data, hres>>
    BY <1>7 DEF HandleNext, HandleRuns, JoinRuns, CloseSenders, Consume, CheckFinished,
       TrySetAbort, TrySetCancel, AbortWorker, CloseAll, DropSenders, JoinAwait, JoinLock,
       JoinTake, DropJoin, IInv, JoinInv
  <2> QED
    BY <2>1, ShrinksPromised
<1>8. CASE UNCHANGED vars
  <2>1. Shrinks
    BY <1>8 DEF vars
  <2> QED
    BY <2>1, ShrinksPromised
<1> QED
  BY <1>2, <1>3, <1>4, <1>5, <1>6, <1>7, <1>8 DEF Next, WorkerNext, AsyncBody, PoolBody

\* Every step maps to a step of the promise, or to none.
LEMMA StepIsPromised ==
  ASSUME IInv, IInv', LineInv, ShownInv, TakenInv, [Next]_vars
  PROVE  Promised
BY StartAsyncPromised, PoolStartPromised, AsyncEndsPromised, PoolEndsPromised, JoinReportPromised,
   SubmitPromised, RestPromised

\* Nothing was accepted, nothing runs and nothing is handed back.
LEMMA InitPromised == Init => Promise!PromiseInit
<1> SUFFICES ASSUME Init PROVE Promise!PromiseInit
  OBVIOUS
<1>1. /\ \A t \in Tasks : task[t] = "new"
      /\ sent = <<>> /\ data = <<>> /\ hres = "none"
  BY DEF Init
<1>2. Waiting = {} /\ Active = NoTask /\ ~Broken /\ Outcome = "open"
  BY <1>1 DEF Waiting, Active, Broken, Outcome
<1> QED
  BY <1>1, <1>2 DEF Promise!PromiseInit, Waiting, Active, Broken, Outcome

\* In the beginning there is nothing to show.
LEMMA InitShown == Init => ShownInv
BY DEF Init, InitStatus, ShownInv

(***************************************************************************)
(* What was accepted, began or was cancelled shows in the history, and the *)
(* panic that ended the worker is the only one, in every execution; a join *)
(* that reports has taken the state.                                       *)
(***************************************************************************)
THEOREM ShownHolds == Spec => [](ShownInv /\ TakenInv)
<1>1. IInv /\ LineInv /\ ShownInv /\ TakenInv /\ [Next]_vars => ShownInv' /\ TakenInv'
  BY StepShows, StepTaken
<1> QED
  BY <1>1, InitShown, InitTaken, InvHolds, LineHolds, PTL DEF Spec

(***************************************************************************)
(* The worker, its channel, mutex and runtime implement SequentialTasks:   *)
(* tasks in line, one at a time, none after one that was broken off, and a *)
(* state that is handed back once, as sound only when it is.               *)
(***************************************************************************)
THEOREM ImplementsSequentialTasksHolds == Spec => ImplementsSequentialTasks
<1> DEFINE SInit == Promise!PromiseInit
           SNext == Promise!PromiseNext
           svars == Promise!promiseVars
<1>1. Init => SInit
  BY InitPromised
<1>2. IInv /\ IInv' /\ LineInv /\ ShownInv /\ TakenInv /\ [Next]_vars => [SNext]_svars
  BY StepIsPromised DEF Promised
<1> HIDE DEF SInit, SNext, svars
<1>3. Spec => SInit /\ [][SNext]_svars
  BY <1>1, <1>2, InvHolds, LineHolds, ShownHolds, PTL DEF Spec
<1> QED
  BY <1>3 DEF ImplementsSequentialTasks, Promise!PromiseSpec, SInit, SNext, svars
=============================================================================
