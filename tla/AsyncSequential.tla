--------------------------- MODULE AsyncSequential --------------------------
(***************************************************************************)
(* The worker, the handle, the spawners, the cancellers and Tokio together:*)
(* every interleaving of their steps.  TaskHandle adds the futures that    *)
(* spawn() returns.                                                        *)
(***************************************************************************)
EXTENDS WorkerLoop, TaskSender, TaskCanceller, WorkerHandle

Next == WorkerNext \/ SenderNext \/ CancellerNext \/ HandleNext

Spec == Init /\ [][Next]_vars

(***************************************************************************)
(* Code that runs goes on running: a future that is woken is polled, the   *)
(* pool has a thread for a closure, a call that was entered returns.       *)
(* Nothing is said of what the user does, or of the tasks themselves.      *)
(***************************************************************************)
CodeRuns ==
  /\ WF_vars(Loop) /\ WF_vars(Drops) /\ WF_vars(CompleteJoinHandle)
  /\ WF_vars(Pool)
  /\ WF_vars(HandleRuns) /\ WF_vars(JoinRuns)
  /\ \A t \in Tasks : WF_vars(ReportSendError(t))
  /\ \A t \in Cancellable : WF_vars(CancelRuns(t))

\* Blocking tasks return or panic; so do the futures of async tasks.
BlockingTasksEnd == WF_vars(PoolBody)
AsyncTasksEnd == WF_vars(AsyncBody)

FairSpec == Spec /\ CodeRuns /\ BlockingTasksEnd /\ AsyncTasksEnd

\* A future given to spawn() may be pending for ever.
StuckSpec == Spec /\ CodeRuns /\ BlockingTasksEnd

-----------------------------------------------------------------------------
Begun == Range(data)

(***************************************************************************)
(* lib.rs and worker_handle.rs: tasks run sequentially on one state.  Never*)
(* do two of them run at once, and none runs once a join has the state.    *)
(***************************************************************************)
Exclusive ==
  /\ \A a, b \in Tasks : task[a] = "running" /\ task[b] = "running" => a = b
  /\ ~present \/ lock = "join" => \A t \in Tasks : task[t] # "running"

(***************************************************************************)
(* worker_handle.rs: tasks are executed in the order they are queued.  When*)
(* a task begins, every task queued before it has returned, or was         *)
(* cancelled by its own canceller; none was skipped, panicked or left half *)
(* done.  And no task begins twice.                                        *)
(***************************************************************************)
InOrder ==
  /\ \A j \in DOMAIN sent : \A i \in 1 .. j - 1 :
       sent[j] \in Begun => task[sent[i]] \in {"done", "cancelled"}
  /\ \A i, j \in DOMAIN data : data[i] = data[j] => i = j

(***************************************************************************)
(* A state that join() or cancel_and_join() returns as Ok was left by tasks*)
(* that returned: every accepted task returned or was cancelled one by one,*)
(* or, for cancel_and_join, never began.                                   *)
(***************************************************************************)
CleanJoin ==
  hres = "Ok" =>
    \A t \in Range(sent) :
      task[t] \in {"done", "cancelled"}
                   \cup (IF op = "cancel_and_join" THEN {"dropped", "kept"} ELSE {})

(***************************************************************************)
(* A panic that its TaskHandle can see reaches the one who joins, whatever *)
(* abort or cancel raced with it, and with that panic's own message; and   *)
(* no join reports a panic that did not happen.                            *)
(***************************************************************************)
PanicReachesJoin ==
  hres \notin {"none", "expect_failed"} =>
    /\ hres = "AnyTaskPanic" <=> \E t \in Tasks : task[t] = "panicked"
    /\ hres = "AnyTaskPanic" => task[task_panic_msg] = "panicked"

(***************************************************************************)
(* worker_handle.rs: if a task panics, subsequent tasks fail, because the  *)
(* state may be broken.  From the unwinding on, nothing begins.            *)
(***************************************************************************)
NothingBeginsAfterPanic ==
  [][(\E t \in Tasks : task[t] \in {"unwound", "panicked"}) => data' = data]_vars

(***************************************************************************)
(* task_canceller.rs: cancel() returns true when the task was cancelled    *)
(* before it began.  A task whose canceller won never touches the state.   *)
(***************************************************************************)
CancelledNeverBegins ==
  \A t \in Tasks : cx[t] \in {"won", "yes"} => t \notin Begun

(***************************************************************************)
(* worker_handle.rs: cancel "cancels all queued tasks".  What is in the    *)
(* channel when the synchronous part of cancel or cancel_and_join returns  *)
(* never begins.                                                           *)
(***************************************************************************)
CancelledQueueNeverStarts == op \in Cancels => leftover \cap Begun = {}

(***************************************************************************)
(* send() and the joins say why they fail, and it is true: a previous panic*)
(* is one that happened and has its message in place, an abort was asked   *)
(* for, a shutdown is one that happened.  (The exception, an abort_and_join*)
(* whose abort has reached the worker, is a finding; see the README.)      *)
(***************************************************************************)
BlameIsTrue ==
  /\ \A t \in Tasks : task[t] = "refused_panic" =>
       task_panic_msg \in Tasks /\ task[task_panic_msg] = "panicked"
  /\ \A t \in Tasks : task[t] = "refused_shutdown" => ~up
  /\ hres = "WorkerAborted" => op = "abort_and_join"
  /\ hres = "RuntimeShutdown" => ~up \/ (aborting /\ op = "abort_and_join")

(***************************************************************************)
(* worker.rs 287 and 230: the unreachable!() of WorkerHandle::send and the *)
(* expect() of join_worker are not reached.                                *)
(***************************************************************************)
NoPanicOfItsOwn ==
  /\ \A t \in Tasks : task[t] # "unreachable"
  /\ hres # "expect_failed"

(***************************************************************************)
(* worker.rs 55-66 and 87-96: the worker's try_lock() misses only when a   *)
(* join competes with a closure that outlived its worker, after an abort or*)
(* a shutdown.  While the worker lives no join has the state.              *)
(***************************************************************************)
StateIsThere ==
  /\ ~ReceiverGone => present /\ lock # "join"
  /\ job = "lost" => Stopping

(***************************************************************************)
(* Who waits, and for whom.  A payload waits for a receiver that is there, *)
(* or for a cancel() that holds it; the worker for a closure that is there;*)
(* a closure for no one; a join for the worker, without a sender of its own*)
(* to keep that one waiting, and then for a blocking task that outlived its*)
(* worker.  Only join waits for the owners of spawners.  So no two of them *)
(* wait for each other, and none for someone who is gone.                  *)
(***************************************************************************)
NoOneWaitsInVain ==
  /\ \A t \in Tasks : task[t] = "queued" => ~ReceiverGone
  /\ \A t \in Tasks : task[t] = "kept" => Upgraded(t)
  /\ wpc = "blocking" => job # "none"
  /\ job = "queued" => \E t \in Blocking : task[t] = "taken"
  /\ job = "running" => \E t \in Blocking : task[t] = "running"
  /\ hpc = "await" => ~tx /\ (ChannelOpen => op = "join")
  /\ hpc = "lock" /\ lock # "free" =>
       wpc = "Cancelled" /\ \E t \in Blocking : task[t] = "running"

\* What the task in hand, and the end of the worker, cost at most.
WorkerSteps ==
  CASE wpc = "flag" -> 13
    [] wpc = "take" -> 12
    [] wpc = "start" -> 11
    [] wpc \in {"async", "blocking"} -> 7
    [] wpc = "set_msg" -> 6
    [] wpc = "set_flag" -> 5
    [] wpc = "send_panic" -> 4
    [] wpc = "return_err" -> 3
    [] wpc = "recv" -> 2
    [] OTHER -> IF finished THEN 0 ELSE 1

\* What the closure on the pool costs, which may outlive the worker.
JobSteps ==
  CASE job = "queued" -> 3
    [] job = "running" -> 2
    [] job = "none" -> 0
    [] OTHER -> 1

\* A bound on the steps that the worker, the pool and Tokio have left, if nothing more
\* is sent.
StepsLeft == 12 * Len(queue) + WorkerSteps + JobSteps

(***************************************************************************)
(* The loop does not spin.  Whatever is cancelled, aborted or shut down    *)
(* under it, each step of the worker, the pool or Tokio brings the end     *)
(* nearer, and nothing but an accepted task defers it.                     *)
(***************************************************************************)
WorkerAdvances ==
  [][\/ UNCHANGED <<queue, wpc, cur, job, finished>>
     \/ sent' # sent
     \/ StepsLeft' < StepsLeft]_vars

(***************************************************************************)
(* The line of SequentialTasks is what was accepted; those who wait in it  *)
(* have neither begun nor been destroyed; its active task is the one that  *)
(* runs, in the worker's poll or on the pool.                              *)
(***************************************************************************)
Promise == INSTANCE SequentialTasks WITH
  line <- sent,
  waiting <- {t \in Tasks : task[t] \in {"queued", "taken"}},
  active <- IF \E t \in Tasks : task[t] = "running"
              THEN CHOOSE t \in Tasks : task[t] = "running" ELSE NoTask,
  ran <- data,
  broken <- \E t \in Tasks : task[t] \in {"unwound", "panicked", "broken"},
  outcome <- CASE hres = "Ok" -> "sound"
               [] hres \in {"none", "expect_failed"} -> "open"
               [] OTHER -> "poisoned"

(***************************************************************************)
(* The program implements SequentialTasks: whatever its threads, aborts,   *)
(* shutdowns and cancellers do, its user sees tasks in line, one at a time,*)
(* and a state that is handed back as sound only when it is.               *)
(***************************************************************************)
ImplementsSequentialTasks == Promise!PromiseSpec

-----------------------------------------------------------------------------
(***************************************************************************)
(* worker_handle.rs 19-22: once the handle is consumed and no spawner is   *)
(* available, the worker finishes what is queued and terminates.           *)
(***************************************************************************)
ConsumedWorkerStops == ~ChannelOpen ~> finished

(***************************************************************************)
(* A join call whose future is kept returns, once the spawners are gone.   *)
(***************************************************************************)
JoinReturns == hpc = "await" /\ ~ChannelOpen ~> hpc = "gone"

(***************************************************************************)
(* Every accepted task gets out of the queue: it begins and ends, or it is *)
(* destroyed; none is forgotten in the channel, or with a canceller.        *)
(***************************************************************************)
EveryTaskSettles ==
  \A t \in Tasks : task[t] = "queued" ~> task[t] \notin {"queued", "kept", "taken", "running"}

(***************************************************************************)
(* worker_handle.rs 19-22: an aborted worker terminates, even if the task  *)
(* at hand would never end.                                                *)
(***************************************************************************)
AbortStops == hpc = "gone" /\ flags = FLAG_ABORT_STARTED ~> finished

(***************************************************************************)
(* abort_and_join returns, even if the task at hand would never end and    *)
(* spawners are left: it waits for no one but a blocking task.             *)
(***************************************************************************)
AbortJoinReturns == hpc = "await" /\ op = "abort_and_join" ~> hpc = "gone"

-----------------------------------------------------------------------------
(* What the documentation says and the code does not do.                    *)

(***************************************************************************)
(* poison_error.rs 31: is_runtime_shutdown is true when the state was      *)
(* poisoned due to the runtime being shut down.                            *)
(***************************************************************************)
JoinShutdownMeansShutdown == hres = "RuntimeShutdown" => ~up

(***************************************************************************)
(* worker_handle.rs 103: abort "cancels all queued tasks".  What is in the *)
(* channel when abort returns never begins.                                *)
(***************************************************************************)
AbortedQueueNeverStarts == op \in Aborts => leftover \cap Begun = {}
=============================================================================
